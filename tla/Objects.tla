------------------------------ MODULE Objects -------------------------------
(***************************************************************************)
(* The catalog hierarchy: catalogs, schemas, and the tables, volumes,      *)
(* functions and registered models in a schema, with the rows that hang on *)
(* them (columns and parameters, properties, model versions, owner grants, *)
(* hierarchy links) and the staging tables that managed tables are made    *)
(* from.                                                                   *)
(*                                                                         *)
(* One commit is atomic (CommitStore); a handler is several commits, with  *)
(* reads in between, and other handlers run between any two of them.  So a *)
(* call is the list of the steps it still has to take, one read or one     *)
(* commit each, and a step may put others in front of the list.  A call    *)
(* ends early when a step fails or when its process or its client goes     *)
(* away; nothing is undone.                                                *)
(*                                                                         *)
(* Reads see the newest rows.  A replica that lags reads what was newest   *)
(* earlier: its call then counts here as begun at that time.               *)
(***************************************************************************)
EXTENDS Naturals, Sequences, FiniteSets

CONSTANTS Client,    \* requests in flight
          Name,      \* names of objects; numbers, because listings are ordered
          Requests,  \* the requests clients send
          Seed,      \* the rows there are to begin with
          MaxId, MaxCalls, MaxFaults, MaxVersion, PageSize  \* bounds of the model; PageSize is max_results

Id == 1..MaxId

None == 0

Ordinal == 1..MaxCalls

Leaves == {"table", "volume", "function", "model"}

Kinds == {"catalog", "schema"} \cup Leaves

(* max is a model's max_version_number; root says whether a catalog or     *)
(* schema has a storage_root; from is the catalog or schema whose root a   *)
(* managed object's location was derived from.                             *)
Object == [kind : Kinds, name : Name, parent : Id \cup {None}, max : 0..MaxVersion,
           root : BOOLEAN, from : Id \cup {None}]

NoObject == [kind |-> "none", name |-> None, parent |-> None, max |-> 0, root |-> FALSE, from |-> None]

Version == [model : Id, number : 1..MaxVersion, by : Ordinal]

Database == [objs     : [Id -> Object \cup {NoObject}],
             parts    : SUBSET Id,               \* columns, parameters
             props    : SUBSET Id,
             versions : SUBSET Version,
             staging  : [Id -> {"none", "open", "committed"}],
             owners   : SUBSET Id,               \* OWNER granted to the creator
             links    : SUBSET (Id \X (Id \cup {None}))]  \* g2: child, parent; None is the metastore

Request == [op : {"create", "delete", "rename", "stage", "addVersion", "dropVersion", "list"},
            kind : Kinds, path : Seq(Name), to : Name \cup {None}, staged : Id \cup {None},
            opts : SUBSET {"parts", "props", "force", "root", "managed", "delta"}]

NoRequest == [op |-> "none", kind |-> "none", path |-> <<>>, to |-> None, staged |-> None, opts |-> {}]

Depth(kind) == CASE kind = "catalog" -> 1 [] kind = "schema" -> 2 [] OTHER -> 3

ParentKind(kind) == IF kind = "schema" THEN "catalog" ELSE "schema"

\* What the API's types and routes make of a request: a full name has a part
\* for every level, only models have versions, only tables are staged.
WellFormed(req) ==
  /\ Len(req.path) = Depth(req.kind)
  /\ req.op = "rename" => req.to # None
  /\ req.op \in {"addVersion", "dropVersion"} => req.kind = "model"
  /\ req.op = "stage" \/ req.staged # None => req.kind = "table"
  /\ req.staged # None => req.op = "create"
  /\ "parts" \in req.opts => req.kind \in {"table", "function"}
  /\ "managed" \in req.opts => req.kind \in {"table", "volume", "model"}

Seeded == {i \in Id : Seed.objs[i] # NoObject}

\* A seeded row has a name of its own, a parent, and a root that is an ancestor's.
SeedRow(i) ==
  LET row == Seed.objs[i]
      p == row.parent
  IN /\ \A j \in Seeded : Seed.objs[j].kind = row.kind /\ Seed.objs[j].parent = p /\ Seed.objs[j].name = row.name
                         => i = j
     /\ IF row.kind = "catalog" THEN p = None ELSE p \in Seeded /\ Seed.objs[p].kind = ParentKind(row.kind)
     /\ row.from \in {None, p} \/ (p \in Seeded /\ row.from = Seed.objs[p].parent)

\* What hangs on rows hangs on rows that may have it.
SeedParts ==
  /\ \A i \in Seed.parts : i \in Seeded /\ Seed.objs[i].kind \in {"table", "function"}
  /\ Seed.props \subseteq Seeded
  /\ \A v \in Seed.versions :
       /\ v.model \in Seeded /\ Seed.objs[v.model].kind = "model" /\ v.number <= Seed.objs[v.model].max
       /\ \A w \in Seed.versions : w.model = v.model /\ w.number = v.number => w = v
  /\ \A i \in Id : Seed.staging[i] = "open" => i \notin Seeded
  /\ \A i \in Id : Seed.staging[i] = "committed" => i \in Seeded /\ Seed.objs[i].kind = "table"
  /\ \A l \in Seed.links : l[1] \in Seeded

\* The ids that are taken.
SeedIds == {i \in Id : i \in Seeded \/ Seed.staging[i] # "none"}

ASSUME ObjectsAssumption ==
  /\ Name \subseteq Nat \ {None}
  /\ {MaxId, MaxCalls, MaxFaults, MaxVersion, PageSize} \subseteq Nat
  /\ PageSize > 0
  /\ Requests \subseteq Request /\ \A req \in Requests : WellFormed(req)
  /\ Seed \in Database
  /\ \A i \in Seeded : SeedRow(i)
  /\ SeedParts
  /\ \E n \in 0..MaxId : SeedIds = 1..n

VARIABLES db, nextId, call, begun, faults,
          user,     \* whether the callers' user exists
          met,      \* ghost: the pairs of calls that overlapped
          cut,      \* ghost: the calls that ended early
          touched,  \* ghost: the calls that wrote something about an object
          note      \* ghost: what an object was created as, by which call, how it went

vars == <<db, nextId, call, begun, faults, user, met, cut, touched, note>>

Idle == [n |-> None, req |-> NoRequest, todo |-> <<>>, parent |-> None, from |-> None,
         number |-> 0, seen |-> {}, twice |-> {}, after |-> None]

NoNote == [kind |-> "none", made |-> None, wants |-> {}, gone |-> "no", hit |-> None]

Init ==
  /\ db = Seed
  /\ nextId = 1 + Cardinality(SeedIds)
  /\ call = [c \in Client |-> Idle]
  /\ begun = 0 /\ faults = 0
  /\ user = TRUE
  /\ met = {} /\ cut = {}
  /\ touched = [i \in Id |-> {}]
  /\ note = [i \in Id |->
               [NoNote EXCEPT !.kind = Seed.objs[i].kind,
                              !.wants = {w \in {"parts", "props"} :
                                           i \in IF w = "parts" THEN Seed.parts ELSE Seed.props}]]

-----------------------------------------------------------------------------
(* Rows (crates/uc-db/src/repos)                                           *)

Live(d) == {i \in Id : d.objs[i] # NoObject}

Key(row) == <<row.kind, row.parent, row.name>>

Under(d, parent, kind) == {i \in Live(d) : d.objs[i].kind = kind /\ d.objs[i].parent = parent}

\* get_by_natural_key.
Find(d, kind, parent, name) ==
  LET hits == {i \in Under(d, parent, kind) : d.objs[i].name = name}
  IN IF hits = {} THEN None ELSE CHOOSE i \in hits : TRUE

\* catalog::get_by_name, schema::get_by_full_name, get_by_schema_and_name:
\* None as soon as one of the names leads nowhere.
FindPath(d, kind, path) ==
  LET cat == Find(d, "catalog", None, path[1])
      sch == IF cat = None THEN None ELSE Find(d, "schema", cat, path[2])
  IN CASE kind = "catalog" -> cat
       [] kind = "schema" -> sch
       [] kind \in Leaves -> IF sch = None THEN None ELSE Find(d, kind, sch, path[3])

FindParent(d, kind, path) == FindPath(d, ParentKind(kind), path)

\* Mutant: any schema of that name that has a root.
RootOfName(d, path) ==
  LET hits == {i \in Live(d) : d.objs[i].kind = "schema" /\ d.objs[i].name = path[2] /\ d.objs[i].root}
  IN IF hits = {} THEN None ELSE CHOOSE i \in hits : TRUE

\* resolve_storage_root: the schema's, else the catalog's.
RootOf(d, path) ==
  LET cat == FindPath(d, "catalog", path)
      sch == FindPath(d, "schema", path)
  IN IF sch = None THEN None
     ELSE IF d.objs[sch].root THEN sch ELSE IF d.objs[cat].root THEN cat ELSE None

\* create: refused when the name is taken; the parent is not looked at again,
\* and a row that has the id already is replaced.
Taken(d, row) == \E i \in Live(d) : Key(d.objs[i]) = Key(row)

PutRow(d, i, row) == [d EXCEPT !.objs = [@ EXCEPT ![i] = row]]

\* Mutant: no look at the index.
RenameNeverRefused(d, i, name) == FALSE

\* update: a name that is taken is refused, except by the row that has it.
Renamed(d, i, name) == [d.objs[i] EXCEPT !.name = name]

RenameRefused(d, i, name) == name # d.objs[i].name /\ Taken(d, Renamed(d, i, name))

\* Mutant: a row that is emptied instead of removed.
BlankRow(d, i) == [d EXCEPT !.objs = [@ EXCEPT ![i].name = None]]

\* delete: functions take their parameters along, models their versions; the
\* rows below catalogs, schemas and tables stay.
DropRow(d, i) ==
  [d EXCEPT !.objs = [@ EXCEPT ![i] = NoObject],
            !.parts = IF d.objs[i].kind = "function" THEN @ \ {i} ELSE @,
            !.versions = {v \in @ : v.model # i}]

\* versions_of.
VersionsOf(d, i) == {v \in d.versions : v.model = i}

(* scan_prefix and pagination::page.  The scan reads one row more than the *)
(* page shows, which tells whether there is another page, and the token is *)
(* the last name shown: the next scan starts behind it.                    *)
FirstOf(S, k) == {n \in S : Cardinality({m \in S : m < n}) < k}

NamesAfter(d, parent, kind, after) ==
  {n \in {d.objs[i].name : i \in Under(d, parent, kind)} : n > after}

OverFetched(d, parent, kind, after) == FirstOf(NamesAfter(d, parent, kind, after), PageSize + 1)

PageOf(fetched) == FirstOf(fetched, PageSize)

LastOf(S) == CHOOSE n \in S : \A m \in S : m <= n

\* Mutant: the token is the last name read instead of the last name shown.
TokenOfFetched(fetched) == IF PageOf(fetched) = fetched THEN None ELSE LastOf(fetched)

Token(fetched) == IF PageOf(fetched) = fetched THEN None ELSE LastOf(PageOf(fetched))

-----------------------------------------------------------------------------
(* Calls                                                                   *)

Active(n) == \E c \in Client : call[c].n = n

Doing(c, what) == call[c].todo # <<>> /\ Head(call[c].todo)[1] = what

On(c) == Head(call[c].todo)[2]

Req(c) == call[c].req

\* The step is done; more comes before what was left.  The last step ends the
\* call.
Proceed(c, more) ==
  LET todo == more \o Tail(call[c].todo)
  IN call' = IF todo = <<>> THEN [call EXCEPT ![c] = Idle] ELSE [call EXCEPT ![c].todo = todo]

Unwritten == UNCHANGED <<db, touched, note>>

Outside == UNCHANGED <<begun, faults, user, met>>

\* The rows change, and the call that did it is remembered with them.
Write(c, d, ids) ==
  /\ db' = d
  /\ touched' = [i \in Id |-> IF i \in ids THEN touched[i] \cup {call[c].n} ELSE touched[i]]

Fails(c) ==
  /\ call' = [call EXCEPT ![c] = Idle]
  /\ cut' = cut \cup {call[c].n}
  /\ Unwritten

\* A request comes in; its authentication creates its user if there is none.
Begin(c) ==
  /\ call[c] = Idle /\ begun < MaxCalls
  /\ begun' = begun + 1
  /\ user' = TRUE
  /\ met' = met \cup {{call[d].n, begun + 1} : d \in {e \in Client : call[e] # Idle}}
  /\ \E req \in Requests :
       call' = [call EXCEPT ![c] = [Idle EXCEPT !.n = begun + 1, !.req = req, !.todo = <<<<"look", None>>>>]]
  /\ Unwritten
  /\ UNCHANGED <<nextId, faults, cut>>

\* The process or the client's connection goes away.
Interrupt(c) ==
  /\ call[c].todo # <<>> /\ ~Doing(c, "look") /\ faults < MaxFaults
  /\ faults' = faults + 1
  /\ Fails(c)
  /\ UNCHANGED <<nextId, begun, user, met>>

\* The callers' user is deleted, which matters to the creations under way.
DeleteUser ==
  /\ user /\ faults < MaxFaults
  /\ faults' = faults + 1
  /\ \E c \in Client : \E k \in DOMAIN call[c].todo : call[c].todo[k][1] = "grant"
  /\ user' = FALSE
  /\ Unwritten
  /\ UNCHANGED <<nextId, call, begun, met, cut>>

-----------------------------------------------------------------------------
(* What the handlers do, as lists of steps                                 *)

When(condition, step) == IF condition THEN <<step>> ELSE <<>>

\* Mutant: an owner but no place in the hierarchy.
CreateStepsUnlinked(req, i) ==
  When(req.staged # None, <<"staged", i>>)
    \o When("managed" \in req.opts /\ req.staged = None, <<"root", i>>)
    \o <<<<"row", i>>>>
    \o When("parts" \in req.opts, <<"parts", i>>)
    \o When("props" \in req.opts, <<"props", i>>)
    \o When("delta" \notin req.opts, <<"grant", i>>)

\* create, of every kind.  A table of the Delta API is its row and no more.
CreateSteps(req, i) ==
  When(req.staged # None, <<"staged", i>>)
    \o When("managed" \in req.opts /\ req.staged = None, <<"root", i>>)
    \o <<<<"row", i>>>>
    \o When("parts" \in req.opts, <<"parts", i>>)
    \o When("props" \in req.opts, <<"props", i>>)
    \o When("delta" \notin req.opts, <<"grant", i>>)
    \o When("delta" \notin req.opts, <<"link", i>>)

\* delete of a leaf.  Function parameters and model versions go with the row.
DropSteps(kind, i) ==
  When(kind = "table", <<"dropParts", i>>) \o <<<<"dropProps", i>>, <<"dropRow", i>>>>

\* Mutant: a kind is forgotten.
ChildrenButModels(schema) ==
  <<<<"list", schema, "table">>, <<"list", schema, "volume">>, <<"list", schema, "function">>>>

\* delete_schema_children: the leaves, kind by kind, each listed when its turn
\* comes.
Children(schema) ==
  <<<<"list", schema, "table">>, <<"list", schema, "volume">>,
    <<"list", schema, "function">>, <<"list", schema, "model">>>>

\* Mutant: a table is dropped like a volume.
CascadeStepsOnlyRows(kind, i) ==
  IF kind = "schema" THEN Children(i) \o <<<<"dropProps", i>>, <<"dropRow", i>>>> ELSE <<<<"dropRow", i>>>>

\* What a drop with force does to one child.
CascadeSteps(kind, i) ==
  CASE kind = "schema" -> Children(i) \o <<<<"dropProps", i>>, <<"dropRow", i>>>>
    [] kind = "table" -> DropSteps(kind, i)
    [] kind \in {"volume", "function", "model"} -> <<<<"dropRow", i>>>>

Last(path) == path[Len(path)]

\* What a finished creation leaves besides the row.
Wanted(req) ==
  (req.opts \cap {"parts", "props"}) \cup IF "delta" \in req.opts THEN {} ELSE {"owner"}

-----------------------------------------------------------------------------
(* The first reads of a handler                                            *)

Looks(c, ops) == Doing(c, "look") /\ Req(c).op \in ops

LookCreate(c) ==
  LET req == Req(c)
      parent == IF req.kind = "catalog" THEN None ELSE FindParent(db, req.kind, req.path)
      i == IF req.staged # None THEN req.staged ELSE nextId
  IN /\ Looks(c, {"create", "stage"})
     /\ \/ parent = None /\ req.kind # "catalog" /\ Fails(c) /\ UNCHANGED nextId
        \/ /\ parent # None \/ req.kind = "catalog"
           /\ i <= MaxId
           /\ nextId' = IF i = nextId THEN nextId + 1 ELSE nextId
           /\ call' = [call EXCEPT ![c].parent = parent,
                                   ![c].todo = IF req.op = "create" THEN CreateSteps(req, i)
                                               ELSE <<<<"stageRow", i>>, <<"grant", i>>>>]
           /\ Unwritten /\ UNCHANGED cut
     /\ Outside

\* What update and delete do about the object they found.
StepsOn(req, i) ==
  CASE req.op # "delete" -> <<<<req.op, i>>>>
    [] req.op = "delete" /\ req.kind \in {"catalog", "schema"} -> <<<<"empty", i>>>>
    [] OTHER -> DropSteps(req.kind, i)

\* The object a handler is about; without it the call ends.
LookUp(c, op) ==
  LET i == FindPath(db, Req(c).kind, Req(c).path)
  IN /\ Looks(c, {op})
     /\ \/ i = None /\ Fails(c)
        \/ i # None /\ Proceed(c, StepsOn(Req(c), i)) /\ Unwritten /\ UNCHANGED cut
     /\ Outside /\ UNCHANGED nextId

LookDelete(c) == LookUp(c, "delete")
LookRename(c) == LookUp(c, "rename")
LookDropVersion(c) == LookUp(c, "dropVersion")

\* Mutant: the number that is there.
LookAddVersionSame(c) ==
  LET i == FindPath(db, "model", Req(c).path)
  IN /\ Looks(c, {"addVersion"})
     /\ \/ i = None /\ Fails(c)
        \/ /\ i # None
           /\ call' = [call EXCEPT ![c].todo = <<<<"version", i>>, <<"max", i>>>>,
                                   ![c].number = db.objs[i].max]
           /\ Unwritten /\ UNCHANGED cut
     /\ Outside /\ UNCHANGED nextId

\* create_version reads max_version_number here and uses it two commits later.
LookAddVersion(c) ==
  LET i == FindPath(db, "model", Req(c).path)
  IN /\ Looks(c, {"addVersion"})
     /\ \/ i = None /\ Fails(c)
        \/ /\ i # None /\ db.objs[i].max < MaxVersion
           /\ call' = [call EXCEPT ![c].todo = <<<<"version", i>>, <<"max", i>>>>,
                                   ![c].number = db.objs[i].max + 1]
           /\ Unwritten /\ UNCHANGED cut
     /\ Outside /\ UNCHANGED nextId

LookList(c) ==
  LET parent == IF Req(c).kind = "catalog" THEN None ELSE FindParent(db, Req(c).kind, Req(c).path)
  IN /\ Looks(c, {"list"})
     /\ \/ parent = None /\ Req(c).kind # "catalog" /\ Fails(c)
        \/ /\ parent # None \/ Req(c).kind = "catalog"
           /\ call' = [call EXCEPT ![c].parent = parent, ![c].todo = <<<<"page", parent>>>>]
           /\ Unwritten /\ UNCHANGED cut
     /\ Outside /\ UNCHANGED nextId

Look(c) ==
  LookCreate(c) \/ LookDelete(c) \/ LookRename(c) \/ LookDropVersion(c) \/ LookAddVersion(c) \/ LookList(c)

-----------------------------------------------------------------------------
(* The steps.  Each is one read or one commit; Outside of Look they leave  *)
(* nextId alone.                                                           *)

Note(i, field, value) == note' = [note EXCEPT ![i][field] = value]

\* Mutant: committed or not.
StagedTableUnchecked(c) ==
  /\ Doing(c, "staged")
  /\ Proceed(c, <<<<"mark", On(c)>>>>) /\ Unwritten /\ UNCHANGED cut

\* staging::get_by_location: a staging table that was used already is refused.
StagedTable(c) ==
  LET i == On(c)
  IN /\ Doing(c, "staged")
     /\ \/ db.staging[i] # "open" /\ Fails(c)
        \/ db.staging[i] = "open" /\ Proceed(c, <<<<"mark", i>>>>) /\ Unwritten /\ UNCHANGED cut

\* staging::mark_committed, whatever has happened since; the table takes the
\* staging table's id.
MarkCommitted(c) ==
  /\ Doing(c, "mark")
  /\ Write(c, [db EXCEPT !.staging[On(c)] = "committed"], {On(c)})
  /\ Proceed(c, <<>>)
  /\ UNCHANGED <<note, cut>>

\* staging::create.
StageRow(c) ==
  /\ Doing(c, "stageRow")
  /\ Write(c, [db EXCEPT !.staging[On(c)] = "open"], {On(c)})
  /\ Proceed(c, <<>>)
  /\ UNCHANGED <<note, cut>>

\* resolve_storage_root looks the names up again.  A managed table cannot do
\* without a root, volumes and models can.  The schema and the catalog are read
\* one after the other, here at once: RootOfOwnChain, the property that asks
\* where the root is from, is about creations that no other call overlaps.
FindRoot(c) ==
  LET from == RootOf(db, Req(c).path)
  IN /\ Doing(c, "root")
     /\ \/ from = None /\ Req(c).kind = "table" /\ Fails(c)
        \/ /\ from # None \/ Req(c).kind # "table"
           /\ call' = [call EXCEPT ![c].from = from, ![c].todo = Tail(@)]
           /\ Unwritten /\ UNCHANGED cut

\* Mutant: a name that is taken is as good as created.
CreateRowIfAbsent(c) ==
  LET i == On(c)
      req == Req(c)
      row == [kind |-> req.kind, name |-> Last(req.path), parent |-> call[c].parent, max |-> 0,
              root |-> "root" \in req.opts, from |-> call[c].from]
  IN /\ Doing(c, "row")
     /\ \/ Taken(db, row) /\ Proceed(c, <<>>) /\ Unwritten /\ UNCHANGED cut
        \/ /\ ~Taken(db, row)
           /\ Write(c, PutRow(db, i, row), {i, call[c].parent})
           /\ note' = [note EXCEPT ![i] = [NoNote EXCEPT !.kind = req.kind, !.made = call[c].n,
                                                        !.wants = Wanted(req)]]
           /\ Proceed(c, <<>>) /\ UNCHANGED cut

\* create: refused when the name is taken.
CreateRow(c) ==
  LET i == On(c)
      req == Req(c)
      row == [kind |-> req.kind, name |-> Last(req.path), parent |-> call[c].parent, max |-> 0,
              root |-> "root" \in req.opts, from |-> call[c].from]
  IN /\ Doing(c, "row")
     /\ \/ Taken(db, row) /\ Fails(c)
        \/ /\ ~Taken(db, row)
           /\ Write(c, PutRow(db, i, row), {i, call[c].parent})
           /\ note' = [note EXCEPT ![i] = [NoNote EXCEPT !.kind = req.kind, !.made = call[c].n,
                                                        !.wants = Wanted(req)]]
           /\ Proceed(c, <<>>) /\ UNCHANGED cut

\* insert_columns, insert_params.
AddParts(c) ==
  /\ Doing(c, "parts")
  /\ Write(c, [db EXCEPT !.parts = @ \cup {On(c)}], {On(c)})
  /\ Proceed(c, <<>>)
  /\ UNCHANGED <<note, cut>>

\* property::replace.
SetProps(c) ==
  /\ Doing(c, "props")
  /\ Write(c, [db EXCEPT !.props = @ \cup {On(c)}], {On(c)})
  /\ Note(On(c), "wants", note[On(c)].wants \cup {"props"})
  /\ Proceed(c, <<>>)
  /\ UNCHANGED cut

\* The creator becomes OWNER, unless there is no such user any more: then the
\* call goes on without grant and without link.
GrantOwner(c) ==
  /\ Doing(c, "grant")
  /\ \/ /\ user
        /\ Write(c, [db EXCEPT !.owners = @ \cup {On(c)}], {On(c)})
        /\ Proceed(c, <<>>)
        /\ UNCHANGED note
     \/ /\ ~user
        /\ call' = [call EXCEPT ![c] = Idle]
        /\ Note(On(c), "wants", note[On(c)].wants \ {"owner"})
        /\ UNCHANGED <<db, touched>>
  /\ UNCHANGED cut

\* add_hierarchy_child.
LinkChild(c) ==
  /\ Doing(c, "link")
  /\ Write(c, [db EXCEPT !.links = @ \cup {<<On(c), call[c].parent>>}], {On(c)})
  /\ Proceed(c, <<>>)
  /\ UNCHANGED <<note, cut>>

\* delete_columns.
DropParts(c) ==
  /\ Doing(c, "dropParts")
  /\ Write(c, [db EXCEPT !.parts = @ \ {On(c)}], {On(c)})
  /\ Proceed(c, <<>>)
  /\ UNCHANGED <<note, cut>>

\* property::delete_for_entity.
DropProps(c) ==
  /\ Doing(c, "dropProps")
  /\ Write(c, [db EXCEPT !.props = @ \ {On(c)}], {On(c)})
  /\ Proceed(c, <<>>)
  /\ UNCHANGED <<note, cut>>

\* Mutant: the first catalog from the name on.
HitByScan(c) ==
  LET names == {n \in {db.objs[i].name : i \in Under(db, None, "catalog")} : n >= Req(c).path[1]}
  IN IF note[On(c)].kind # "catalog" THEN On(c)
     ELSE IF names = {} THEN None
     ELSE Find(db, "catalog", None, CHOOSE n \in names : \A m \in names : n <= m)

\* Catalogs are updated and deleted by their name, whatever has it by now; all
\* else by the id that was looked up.
Hit(c) == IF note[On(c)].kind = "catalog" THEN Find(db, "catalog", None, Req(c).path[1]) ELSE On(c)

\* Remembers how a row went, and which call hit one that it had not looked up.
Mark(c, i, gone) ==
  note' = [note EXCEPT ![i].gone = gone, ![i].hit = IF i = On(c) THEN @ ELSE call[c].n]

\* delete of a row.  To delete a model that is gone is no error.
DropOne(c) ==
  LET i == Hit(c)
      missing == i \notin Live(db) /\ note[On(c)].kind # "model"
  IN /\ Doing(c, "dropRow")
     /\ \/ missing /\ Fails(c)
        \/ /\ ~missing
           /\ Write(c, DropRow(db, i), {i})
           /\ Mark(c, i, IF note[i].kind = Req(c).kind THEN "dropped" ELSE "cascaded")
           /\ Proceed(c, <<>>) /\ UNCHANGED cut

\* Is there something below?  Without force that ends the call.
CheckEmpty(c) ==
  LET i == On(c)
      kind == Req(c).kind
      full == \E j \in Live(db) : db.objs[j].parent = i
      below == IF kind = "schema" THEN Children(i) ELSE <<<<"list", i, "schema">>>>
  IN /\ Doing(c, "empty")
     /\ \/ full /\ "force" \notin Req(c).opts /\ Fails(c)
        \/ /\ full => "force" \in Req(c).opts
           /\ Proceed(c, (IF full THEN below ELSE <<>>) \o <<<<"dropProps", i>>, <<"dropRow", i>>>>)
           /\ Unwritten /\ UNCHANGED cut

\* The children still to be dropped.
Each(S, kind) == When(S # {}, <<"each", S, kind>>)

\* One list of children; what is created below afterwards is not in it.
ListChildren(c) ==
  LET kind == Head(call[c].todo)[3]
  IN /\ Doing(c, "list")
     /\ Proceed(c, Each(Under(db, On(c), kind), kind))
     /\ Unwritten /\ UNCHANGED cut

NextChild(c) ==
  LET kind == Head(call[c].todo)[3]
  IN /\ Doing(c, "each")
     /\ \E i \in On(c) : Proceed(c, CascadeSteps(kind, i) \o Each(On(c) \ {i}, kind))
     /\ Unwritten /\ UNCHANGED cut

\* update with a new name.  A table or a model that is gone by now is no error,
\* and the properties are written all the same.
Rename(c) ==
  LET i == Hit(c)
      missing == i \notin Live(db)
  IN /\ Doing(c, "rename")
     /\ \/ missing /\ Req(c).kind \notin {"table", "model"} /\ Fails(c)
        \/ ~missing /\ RenameRefused(db, i, Req(c).to) /\ Fails(c)
        \/ /\ ~missing /\ ~RenameRefused(db, i, Req(c).to)
           /\ Write(c, PutRow(db, i, Renamed(db, i, Req(c).to)), {i})
           /\ Mark(c, i, "no")
           /\ Proceed(c, When("props" \in Req(c).opts, <<"props", i>>)) /\ UNCHANGED cut
        \/ /\ missing /\ Req(c).kind \in {"table", "model"}
           /\ Proceed(c, When("props" \in Req(c).opts, <<"props", i>>))
           /\ Unwritten /\ UNCHANGED cut

\* model::create_version: neither the model nor the number is looked at.
PutVersion(c) ==
  LET v == [model |-> On(c), number |-> call[c].number, by |-> call[c].n]
  IN /\ Doing(c, "version")
     /\ Write(c, [db EXCEPT !.versions = @ \cup {v}], {On(c)})
     /\ Proceed(c, <<>>)
     /\ UNCHANGED <<note, cut>>

\* set_max_version: the number this call has worked out, whatever is there.
SetMax(c) ==
  /\ Doing(c, "max")
  /\ Write(c, IF On(c) \in Live(db) THEN [db EXCEPT !.objs[On(c)].max = call[c].number] ELSE db, {On(c)})
  /\ Proceed(c, <<>>)
  /\ UNCHANGED <<note, cut>>

\* model::delete_version.
DropVersion(c) ==
  /\ Doing(c, "dropVersion")
  /\ Write(c, [db EXCEPT !.versions = {v \in @ : v.model # On(c) \/ v.number # Req(c).to}], {On(c)})
  /\ Proceed(c, <<>>)
  /\ UNCHANGED <<note, cut>>

\* One page of a listing.  A client that got a token asks for the next page.
ReadPage(c) ==
  LET fetched == OverFetched(db, On(c), Req(c).kind, call[c].after)
      shown == {i \in Under(db, On(c), Req(c).kind) : db.objs[i].name \in PageOf(fetched)}
  IN /\ Doing(c, "page")
     /\ call' = [call EXCEPT ![c].seen = @ \cup shown,
                             ![c].twice = @ \cup (call[c].seen \cap shown),
                             ![c].after = Token(fetched),
                             ![c].todo = <<<<IF Token(fetched) # None THEN "page" ELSE "answer", On(c)>>>>]
     /\ Unwritten /\ UNCHANGED cut

Answer(c) ==
  /\ Doing(c, "answer")
  /\ Proceed(c, <<>>)
  /\ Unwritten /\ UNCHANGED cut

-----------------------------------------------------------------------------

Work(c) ==
  /\ \/ StagedTable(c) \/ MarkCommitted(c) \/ StageRow(c) \/ FindRoot(c)
     \/ CreateRow(c) \/ AddParts(c) \/ SetProps(c) \/ GrantOwner(c) \/ LinkChild(c)
     \/ DropParts(c) \/ DropProps(c) \/ DropOne(c) \/ CheckEmpty(c) \/ ListChildren(c) \/ NextChild(c)
     \/ Rename(c) \/ PutVersion(c) \/ SetMax(c) \/ DropVersion(c) \/ ReadPage(c) \/ Answer(c)
  /\ Outside /\ UNCHANGED nextId

Next ==
  \/ \E c \in Client : Begin(c) \/ Look(c) \/ Work(c) \/ Interrupt(c)
  \/ DeleteUser

Spec == Init /\ [][Next]_vars

-----------------------------------------------------------------------------
(* Properties                                                              *)

\* The steps that are about one object.
Single == {"staged", "mark", "stageRow", "root", "row", "parts", "props", "grant", "link", "dropParts",
           "dropProps", "dropRow", "empty", "rename", "version", "max", "dropVersion"}

\* The kinds that have a parent.
Below == Leaves \cup {"schema"}

Step ==
  ({"look"} \X {None}) \cup (Single \X Id) \cup ({"page", "answer"} \X (Id \cup {None}))
    \cup ({"list"} \X Id \X Below) \cup ({"each"} \X (SUBSET Id) \X Below)

Call == [n : Ordinal \cup {None}, req : Requests \cup {NoRequest}, todo : Seq(Step),
         parent : Id \cup {None}, from : Id \cup {None}, number : 0..MaxVersion,
         seen : SUBSET Id, twice : SUBSET Id, after : Name \cup {None}]

Notes == [kind : Kinds \cup {"none"}, made : Ordinal \cup {None}, wants : SUBSET {"parts", "props", "owner"},
          gone : {"no", "dropped", "cascaded"}, hit : Ordinal \cup {None}]

TypeOK ==
  /\ db \in Database
  /\ nextId \in 1..(MaxId + 1)
  /\ begun \in 0..MaxCalls /\ faults \in 0..MaxFaults /\ user \in BOOLEAN
  /\ call \in [Client -> Call]
  /\ met \in SUBSET SUBSET Ordinal /\ cut \subseteq Ordinal
  /\ touched \in [Id -> SUBSET Ordinal]
  /\ note \in [Id -> Notes]

\* Two calls that both wrote about an object overlapped, or one that did was
\* interrupted, refused or is still at it: the handlers promise nothing then.
Disturbed(i) ==
  \E x \in touched[i] : Active(x) \/ x \in cut \/ \E y \in touched[i] : {x, y} \in met /\ x # y

\* The UNIQUE(parent, name) of every kind survives creations and renames at
\* once, and a table that replaces another under its staging table's id.
NamesUnique == \A i, j \in Live(db) : Key(db.objs[i]) = Key(db.objs[j]) => i = j

\* Every object hangs on a parent that is there.  Handlers see to it by hand
\* (FK enforcement is off), which works for as long as no two calls about the
\* parent meet.
NoOrphans ==
  \A i \in Live(db) :
    LET p == db.objs[i].parent
    IN p # None => p \in Live(db) \/ Disturbed(p)

\* Columns, parameters and properties are there exactly as long as what they
\* describe, except that a drop with force leaves the properties of volumes,
\* functions and models behind.
PartsFollowRows ==
  \A i \in Id : ~Disturbed(i) =>
    /\ i \in db.parts <=> i \in Live(db) /\ "parts" \in note[i].wants
    /\ \/ i \in db.props <=> i \in Live(db) /\ "props" \in note[i].wants
       \/ note[i].gone = "cascaded" /\ note[i].kind \in {"volume", "function", "model"}

\* A creation whose user was still there in the end made that user the owner
\* and put the object under its own parent and nothing else, so that the
\* parent's grants reach it.
OwnedAndLinked ==
  \A i \in Live(db) : ~Disturbed(i) /\ note[i].made # None /\ "owner" \in note[i].wants =>
    i \in db.owners /\ {p \in Id \cup {None} : <<i, p>> \in db.links} = {db.objs[i].parent}

\* Versions of a model have numbers of their own, none above
\* max_version_number, and go with the model.
VersionsInOrder ==
  \A v \in db.versions :
    \/ Disturbed(v.model)
    \/ /\ v.model \in Live(db) /\ v.number <= db.objs[v.model].max
       /\ \A w \in VersionsOf(db, v.model) : w.number = v.number => w = v

\* A staging table that is committed became a table, unless the creation that
\* committed it was refused or broken off afterwards: nothing opens it again.
StagingFollowsTables ==
  \A i \in Id : db.staging[i] = "committed" => note[i].kind = "table" \/ Disturbed(i)

\* No creation takes over the row of another one, which a second use of a
\* staging table would do, unless the two looked at it at the same time.
StagingTakenOnce ==
  [][\A i \in Live(db) :
       note'[i].made # note[i].made => {note[i].made, note'[i].made} \in met]_vars

\* A managed object lies under the storage root of its own schema or catalog,
\* although the names are looked up twice, unless a call came in between.
RootOfOwnChain ==
  \A i \in Live(db) :
    LET from == db.objs[i].from
        p == db.objs[i].parent
    IN \/ from \in {None, p} \/ (p \in Live(db) /\ from = db.objs[p].parent)
       \/ \E x \in Ordinal : {x, note[i].made} \in met

\* A catalog that a call renamed or deleted without having looked at it (its
\* emptiness, its owner) got its name from another call meanwhile.
HitWhatWasChecked ==
  \A i \in Id : note[i].hit # None => \E x \in touched[i] : {x, note[i].hit} \in met

\* A listing read to its end shows every object that nobody touched meanwhile,
\* and shows it once.
ListingComplete ==
  \A c \in Client : Doing(c, "answer") =>
    \A i \in Under(db, call[c].parent, Req(c).kind) :
      \/ i \in call[c].seen \ call[c].twice
      \/ \E x \in touched[i] : {x, call[c].n} \in met

=============================================================================
