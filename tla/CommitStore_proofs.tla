------------------------- MODULE CommitStore_proofs -------------------------
(***************************************************************************)
(* The safety of the log-structured store for any number of replicas,      *)
(* calls, names and ids, any checkpoint interval and any number of faults. *)
(* The argument is IInv of CommitStore: whatever is in flight was right on *)
(* the state it was read from, and that state never changes.               *)
(***************************************************************************)
EXTENDS CommitStore, TLAPS

-----------------------------------------------------------------------------
(* What Snapshot::apply, the checkpoint codec and the build closures       *)
(* preserve, for every set of ids, names and calls                         *)

\* The initial Snapshot::default() is a snapshot whose index agrees.
LEMMA EmptySnapshotOK ==
  EmptySnapshot \in Snapshots /\ IndexMatches(EmptySnapshot)
BY SnapshotAssumption DEF EmptySnapshot, Snapshots, Rows, IndexMatches

\* Snapshot::apply yields a snapshot.
LEMMA ApplyType ==
  ASSUME NEW s \in Snapshots, NEW x \in Actions
  PROVE  Apply(s, x) \in Snapshots
<1>1. Unindexed(s, x.id) \in [Name -> Id \cup {NoId}]
  BY SnapshotAssumption DEF Unindexed, Snapshots, Rows, Row, Actions
<1>2. CASE x.op = "remove"
  BY <1>1, <1>2 DEF Apply, Snapshots, Rows, Actions
<1>3. CASE x.op = "upsert"
  BY <1>1, <1>3 DEF Apply, Snapshots, Rows, Row, Actions
<1> QED BY <1>2, <1>3 DEF Actions

\* The index without row i's entry still matches the other rows.
LEMMA UnindexedMatches ==
  ASSUME NEW s \in Snapshots, IndexMatches(s), NEW i \in Id
  PROVE  \A n \in Name, j \in Id :
           Unindexed(s, i)[n] = j <=> j # i /\ s.rows[j] # NoRow /\ s.rows[j].name = n
<1> SUFFICES ASSUME NEW n \in Name, NEW j \in Id
             PROVE  Unindexed(s, i)[n] = j <=>
                      j # i /\ s.rows[j] # NoRow /\ s.rows[j].name = n
  OBVIOUS
<1>1. s.index[n] = j <=> s.rows[j] # NoRow /\ s.rows[j].name = n
  BY DEF IndexMatches
<1>2. s.index[n] = i <=> s.rows[i] # NoRow /\ s.rows[i].name = n
  BY DEF IndexMatches
<1>3. CASE s.rows[i] # NoRow /\ s.rows[i].name # NoName
  <2>1. Unindexed(s, i) = [s.index EXCEPT ![s.rows[i].name] = NoId]
    BY <1>3 DEF Unindexed
  <2>2. Unindexed(s, i)[n] = IF n = s.rows[i].name THEN NoId ELSE s.index[n]
    BY <2>1 DEF Snapshots
  <2> QED BY <1>1, <1>2, <1>3, <2>2, SnapshotAssumption
<1>4. CASE ~(s.rows[i] # NoRow /\ s.rows[i].name # NoName)
  BY <1>1, <1>2, <1>4, SnapshotAssumption DEF Unindexed
<1> QED BY <1>3, <1>4

\* What an action needs of a state to leave its index intact: the name it
\* brings is free, or already its own.
NameIsFree(s, x) ==
  x.op = "upsert" =>
    \/ x.row.name = NoName
    \/ s.index[x.row.name] = NoId
    \/ s.index[x.row.name] = x.id

\* Snapshot::apply keeps names unique and indexed, if the name brought is free.
LEMMA ApplyKeepsIndex ==
  ASSUME NEW s \in Snapshots, IndexMatches(s), NEW x \in Actions, NameIsFree(s, x)
  PROVE  IndexMatches(Apply(s, x))
<1> DEFINE i == x.id
           z == Apply(s, x)
<1> SUFFICES ASSUME NEW n \in Name, NEW j \in Id
             PROVE  z.index[n] = j <=> z.rows[j] # NoRow /\ z.rows[j].name = n
  BY DEF IndexMatches
<1>i. i \in Id
  BY DEF Actions
<1>u. /\ Unindexed(s, i) \in [Name -> Id \cup {NoId}]
      /\ Unindexed(s, i)[n] = j <=> j # i /\ s.rows[j] # NoRow /\ s.rows[j].name = n
  <2>1. Unindexed(s, i) \in [Name -> Id \cup {NoId}]
    BY <1>i, SnapshotAssumption DEF Unindexed, Snapshots
  <2> QED BY <1>i, <2>1, UnindexedMatches
<1>1. CASE x.op = "remove"
  <2>1. z.index[n] = Unindexed(s, i)[n]
    BY <1>1 DEF Apply
  <2>2. z.rows[j] = IF j = i THEN NoRow ELSE s.rows[j]
    BY <1>1, <1>i DEF Apply, Snapshots, Rows
  <2> QED BY <1>u, <2>1, <2>2
<1>2. CASE x.op = "upsert"
  <2>r. x.row \in Row /\ x.row # NoRow
    BY <1>2, SnapshotAssumption DEF Actions
  <2>1. z.rows[j] = IF j = i THEN x.row ELSE s.rows[j]
    BY <1>2, <1>i DEF Apply, Snapshots, Rows
  <2>2. CASE x.row.name = NoName
    <3>1. z.index[n] = Unindexed(s, i)[n]
      BY <1>2, <2>2 DEF Apply
    <3>2. n # NoName
      BY SnapshotAssumption
    <3> QED BY <1>u, <2>1, <2>2, <2>r, <3>1, <3>2
  <2>3. CASE x.row.name # NoName
    <3>1. x.row.name \in Name
      BY <2>3, <2>r DEF Row
    <3>2. z.index[n] = IF n = x.row.name THEN i ELSE Unindexed(s, i)[n]
      BY <1>2, <1>u, <2>3, <3>1 DEF Apply
    <3>3. s.index[x.row.name] = NoId \/ s.index[x.row.name] = i
      BY <1>2, <2>3 DEF NameIsFree
    <3>4. n = x.row.name /\ s.rows[j] # NoRow /\ s.rows[j].name = n => j = i
      BY <3>1, <3>3, SnapshotAssumption DEF IndexMatches
    <3> QED BY <1>u, <2>1, <2>r, <3>1, <3>2, <3>4
  <2> QED BY <2>2, <2>3
<1> QED BY <1>1, <1>2 DEF Actions

\* Snapshot::get_by_natural_key finds the row that bears the name, if any.
LEMMA LookupFinds ==
  ASSUME NEW s \in Snapshots, IndexMatches(s), NEW n \in Name
  PROVE  /\ Lookup(s, n) = s.index[n]
         /\ Lookup(s, n) # NoId => /\ Lookup(s, n) \in Id
                                   /\ s.rows[Lookup(s, n)] \in Row
                                   /\ s.rows[Lookup(s, n)].name = n
<1>1. s.index[n] \in Id \cup {NoId}
  BY DEF Snapshots
<1>2. s.index[n] # NoId =>
        s.rows[s.index[n]] # NoRow /\ s.rows[s.index[n]].name = n
  BY <1>1 DEF IndexMatches
<1>3. s.index[n] # NoId => s.rows[s.index[n]] \in Row
  BY <1>1, <1>2 DEF Snapshots, Rows
<1> QED BY <1>1, <1>2, <1>3 DEF Lookup

\* A build closure that accepts a state writes an action the state can take.
LEMMA BuildSound ==
  ASSUME NEW s \in Snapshots, IndexMatches(s), NEW t \in Task,
         NEW q \in Request, WellFormed(q), Accepts(s, q)
  PROVE  Build(s, t, q) \in Actions /\ NameIsFree(s, Build(s, t, q))
<1>1. CASE q.op \in {"create", "init"}
  <2>1. Build(s, t, q) = Upsert(NewId[t], [name |-> q.name, merged |-> {}])
    BY <1>1 DEF Build
  <2>2. Build(s, t, q) \in Actions
    BY <2>1, OpsAssumption DEF Upsert, Actions, Row, Request
  <2>3. CASE q.op = "init"
    BY <2>1, <2>2, <2>3 DEF NameIsFree, WellFormed, Upsert
  <2>4. CASE q.op = "create"
    <3>1. q.name \in Name
      BY <2>4, SnapshotAssumption DEF Request, WellFormed
    <3>2. s.index[q.name] = NoId
      BY <2>4, <3>1, LookupFinds DEF Accepts, Rejects
    <3> QED BY <2>1, <2>2, <3>2 DEF NameIsFree, Upsert
  <2> QED BY <1>1, <2>3, <2>4
<1>2. CASE q.op = "update"
  <2> DEFINE i == Lookup(s, q.name)
  <2>1. q.name \in Name
    BY <1>2, SnapshotAssumption DEF Request, WellFormed
  <2>2. i # NoId
    BY <1>2 DEF Accepts, Rejects
  <2>3. i = s.index[q.name] /\ i \in Id /\ s.rows[i] \in Row /\ s.rows[i].name = q.name
    BY <2>1, <2>2, LookupFinds
  <2>4. Build(s, t, q) = Upsert(i, Updated(s, t, q))
    BY <1>2 DEF Build
  <2>5. /\ Updated(s, t, q) \in Row
        /\ Updated(s, t, q).name = IF q.new = NoName THEN q.name ELSE q.new
    BY <2>3, OpsAssumption DEF Updated, Row, Request
  <2>6. Build(s, t, q) \in Actions
    BY <2>3, <2>4, <2>5 DEF Upsert, Actions
  <2>7. CASE q.new \in {NoName, q.name}
    BY <2>3, <2>4, <2>5, <2>6, <2>7 DEF NameIsFree, Upsert
  <2>8. CASE q.new \notin {NoName, q.name}
    <3>1. q.new \in Name
      BY <2>8 DEF Request
    <3>2. s.index[q.new] = NoId
      BY <1>2, <2>8, <3>1, LookupFinds DEF Accepts, Rejects
    <3> QED BY <2>4, <2>5, <2>6, <2>8, <3>2 DEF NameIsFree, Upsert
  <2> QED BY <2>7, <2>8
<1>3. CASE q.op = "delete"
  <2>1. q.name \in Name
    BY <1>3, SnapshotAssumption DEF Request, WellFormed
  <2>2. Lookup(s, q.name) \in Id
    BY <1>3, <2>1, LookupFinds DEF Accepts, Rejects
  <2>3. Build(s, t, q) = Remove(Lookup(s, q.name))
    BY <1>3 DEF Build
  <2> QED BY <2>2, <2>3 DEF Remove, Actions, NameIsFree
<1> QED BY <1>1, <1>2, <1>3 DEF Request

\* An accepted closure never adds a second singleton: get_or_init inserts only
\* into a state without one, and no other closure writes an unnamed row.
LEMMA BuildKeepsSingleton ==
  ASSUME NEW s \in Snapshots, IndexMatches(s), NEW t \in Task,
         NEW q \in Request, WellFormed(q), Accepts(s, q),
         \A i, j \in Unnamed(s) : i = j
  PROVE  \A i, j \in Unnamed(Apply(s, Build(s, t, q))) : i = j
<1> DEFINE x == Build(s, t, q)
           z == Apply(s, x)
<1>1. x \in Actions /\ z \in Snapshots
  BY BuildSound, ApplyType
<1>2. \A i \in Id : z.rows[i] = IF i # x.id THEN s.rows[i]
                                 ELSE IF x.op = "remove" THEN NoRow ELSE x.row
  BY <1>1 DEF Apply, Actions, Snapshots, Rows
<1>3. CASE q.op = "init"
  <2>1. Unnamed(s) = {}
    BY <1>3 DEF Accepts, NothingToDo
  <2> QED BY <1>2, <2>1 DEF Unnamed
<1>4. CASE q.op = "create"
  <2>1. x.op = "upsert" /\ x.row.name = q.name /\ q.name # NoName
    BY <1>4 DEF Build, Upsert, WellFormed
  <2> QED BY <1>2, <2>1 DEF Unnamed
<1>5. CASE q.op = "update"
  <2>1. x.op = "upsert" /\ x.row = Updated(s, t, q)
    BY <1>5 DEF Build, Upsert
  <2>2. q.name \in Name /\ q.name # NoName
    BY <1>5, SnapshotAssumption DEF Request, WellFormed
  <2>3. s.rows[Lookup(s, q.name)].name = q.name
    BY <1>5, <2>2, LookupFinds DEF Accepts, Rejects
  <2>4. x.row.name # NoName
    BY <2>1, <2>2, <2>3 DEF Updated
  <2> QED BY <1>2, <2>1, <2>4 DEF Unnamed
<1>6. CASE q.op = "delete"
  <2>1. x.op = "remove"
    BY <1>6 DEF Build, Remove
  <2> QED BY <1>2, <2>1 DEF Unnamed
<1> QED BY <1>3, <1>4, <1>5, <1>6 DEF Request

\* Reading a checkpoint back gives the snapshot that was written.
LEMMA DecodeEncode ==
  ASSUME NEW s \in Snapshots, IndexMatches(s)
  PROVE  Decode(Encode(s)) = s
<1>1. ASSUME NEW n \in Name
      PROVE  Decode(Encode(s)).index[n] = s.index[n]
  <2>1. CASE s.index[n] = NoId
    <3>1. ASSUME NEW i \in Id
          PROVE  ~(s.rows[i] # NoRow /\ s.rows[i].name = n)
      BY <2>1, SnapshotAssumption DEF IndexMatches
    <3>2. Named(s.rows, n) = {}
      BY <3>1 DEF Named
    <3> QED BY <2>1, <3>2 DEF Decode, Encode
  <2>2. CASE s.index[n] # NoId
    <3>1. s.index[n] \in Id /\ s.index[n] \in Nat
      BY <2>2, SnapshotAssumption DEF Snapshots
    <3>2. Named(s.rows, n) = {s.index[n]}
      BY <3>1 DEF Named, IndexMatches
    <3>3. (CHOOSE i \in Named(s.rows, n) : \A j \in Named(s.rows, n) : j <= i) = s.index[n]
      BY <3>1, <3>2
    <3> QED BY <3>2, <3>3 DEF Decode, Encode
  <2> QED BY <2>1, <2>2
<1>2. Decode(Encode(s)).rows = s.rows
  BY DEF Decode, Encode
<1>3. Decode(Encode(s)).index = s.index
  <2>1. s.index \in [Name -> Id \cup {NoId}]
    BY DEF Snapshots
  <2>2. Decode(Encode(s)).index = [n \in Name |-> Decode(Encode(s)).index[n]]
    BY DEF Decode, Encode
  <2> QED BY <1>1, <2>1, <2>2
<1> QED BY <1>2, <1>3 DEF Decode, Encode, Snapshots

-----------------------------------------------------------------------------
(* The invariant                                                           *)

\* A fresh bucket and processes that are all down.
LEMMA InitIInv == Init => IInv
<1> SUFFICES ASSUME Init PROVE IInv
  OBVIOUS
<1> USE StoreAssumption, EmptySnapshotOK DEF Init
<1>1. TypeOK
  BY DEF TypeOK, Holder, Version
<1>2. Gapless /\ HistoryIsReplay
  BY DEF Gapless, HistoryIsReplay
<1>3. CallersKnown /\ PutsBuiltOnState /\ TasksRemember /\ DecidedOnPredecessor
  BY DEF CallersKnown, PutsBuiltOnState, TasksRemember, DecidedOnPredecessor
<1>4. SnapshotsArePrefixes /\ NamesUnique
  BY DEF SnapshotsArePrefixes, NamesUnique
<1>5. ListingsExist /\ BodiesEncodeStates /\ LocksHeld
  BY DEF ListingsExist, BodiesEncodeStates, LocksHeld
<1> QED BY <1>1, <1>2, <1>3, <1>4, <1>5 DEF IInv

\* A step that leaves the bucket alone keeps the invariant if replicas still
\* show prefixes and no task forgets what it was called with.
LEMMA QuietStep ==
  ASSUME IInv, TypeOK', SnapshotsArePrefixes', ListingsExist', LocksHeld', TasksRemember',
         UNCHANGED <<bucket, history>>,
         \A t \in Task :
           /\ pc[t] # "idle" => pc'[t] # "idle" /\ req'[t] = req[t]
           /\ pc'[t] # "idle" => req'[t] \in Workload
           /\ pc'[t] = "put" => pc[t] = "put" /\ target'[t] = target[t] /\ action'[t] = action[t]
  PROVE  IInv'
<1> USE DEF bucket
<1>1. Gapless' /\ HistoryIsReplay' /\ NamesUnique' /\ BodiesEncodeStates'
  BY DEF IInv, Gapless, HistoryIsReplay, NamesUnique, BodiesEncodeStates
<1>2. CallersKnown'
  BY DEF IInv, TypeOK, CallersKnown, Put, Commit
<1>3. DecidedOnPredecessor'
  BY DEF IInv, TypeOK, CallersKnown, DecidedOnPredecessor, Commit
<1>4. PutsBuiltOnState'
  BY DEF IInv, TypeOK, CallersKnown, PutsBuiltOnState, Waiting, Put
<1> QED BY <1>1, <1>2, <1>3, <1>4 DEF IInv

\* A step that takes no lock and frees none.
LEMMA LocksKept ==
  ASSUME IInv, UNCHANGED <<lock, stage>>,
         \A r \in Replica : stage[r] = "resolve" => ver'[r] = ver[r],
         \A t \in Task : pc[t] = "catchup" <=> pc'[t] = "catchup"
  PROVE  LocksHeld'
BY DEF IInv, LocksHeld

-----------------------------------------------------------------------------
(* Steps of a task                                                         *)

LEMMA CallInv ==
  ASSUME IInv, NEW t \in Task, NEW q \in Workload, Call(t, q)
  PROVE  IInv'
<1> USE DEF Call, Goto, replica, task, bucket
<1>1. TypeOK'
  BY DEF IInv, TypeOK, Running, AtAwait
<1>2. SnapshotsArePrefixes' /\ ListingsExist'
  BY DEF IInv, SnapshotsArePrefixes, ListingsExist
<1>3. TasksRemember'
  BY DEF IInv, TypeOK, TasksRemember
<1>4. LocksHeld'
  BY LocksKept DEF IInv, TypeOK
<1> QED BY <1>1, <1>2, <1>3, <1>4, QuietStep DEF IInv, TypeOK, CallersKnown

\* Any return of a call that only ends the task.
LEMMA ReturnInv ==
  ASSUME IInv, NEW t \in Task, NEW result \in {"ok", "rejected", "contention", "unknown"},
         pc[t] # "idle", Return(t, result), TypeOK', SnapshotsArePrefixes', ListingsExist',
         LocksHeld', UNCHANGED <<bucket, history>>
  PROVE  IInv'
<1> USE DEF Return, Goto, bucket
<1>1. TasksRemember'
  BY DEF IInv, TypeOK, TasksRemember
<1> QED BY <1>1, QuietStep DEF IInv, TypeOK, CallersKnown

LEMMA ReturnType ==
  ASSUME TypeOK, NEW t \in Task, NEW result \in {"ok", "rejected", "contention", "unknown"},
         Return(t, result)
  PROVE  /\ pc' \in [Task -> {"idle", "done"} \cup Running]
         /\ req' \in [Task -> Workload \cup {NoRequest}]
         /\ attempt' \in [Task -> 1..MaxCommitAttempts]
         /\ clashes' \in [Task -> Nat]
         /\ target' \in [Task -> Nat]
         /\ action' \in [Task -> Actions \cup {NoAction}]
         /\ body' \in [Task -> Rows \cup {NoBody}]
         /\ answer' \in [Task -> {"none", "ok", "rejected", "contention", "unknown"}]
BY DEF TypeOK, Return, Goto

LEMMA BuildReturnsInv ==
  ASSUME IInv, NEW t \in Task, BuildRejects(t) \/ BuildNothing(t)
  PROVE  IInv'
<1> USE DEF BuildRejects, BuildNothing, replica, bucket
<1> PICK result \in {"ok", "rejected"} : Return(t, result)
  OBVIOUS
<1>1. TypeOK'
  BY ReturnType DEF IInv, TypeOK
<1>2. SnapshotsArePrefixes' /\ ListingsExist'
  BY DEF IInv, SnapshotsArePrefixes, ListingsExist
<1>3. LocksHeld'
  BY LocksKept DEF IInv, TypeOK, Return, Goto
<1> QED BY <1>1, <1>2, <1>3, ReturnInv

\* A build that is accepted sends a PUT built on the snapshot's own version.
LEMMA BuildWritesInv ==
  ASSUME IInv, NEW t \in Task, BuildWrites(t)
  PROVE  IInv'
<1> DEFINE r == Home[t]
           x == Build(snap[r], t, req[t])
           m == [task |-> t, target |-> ver[r] + 1, action |-> x]
<1> USE DEF replica, bucket
<1>a. /\ r \in Replica /\ ver[r] \in Nat /\ snap[r] \in Snapshots
      /\ ver[r] \in DOMAIN history /\ snap[r] = history[ver[r]]
      /\ IndexMatches(snap[r])
      /\ req[t] \in Workload /\ req[t] \in Request /\ WellFormed(req[t])
  BY StoreAssumption
     DEF IInv, TypeOK, SnapshotsArePrefixes, NamesUnique, CallersKnown, BuildWrites
<1>b. x \in Actions
  BY <1>a, BuildSound DEF BuildWrites
<1>c. m \in Put
  BY <1>a, <1>b DEF Put, Version
<1>d. /\ target' = [target EXCEPT ![t] = ver[r] + 1]
      /\ action' = [action EXCEPT ![t] = x]
      /\ inflight' = inflight \cup {m}
      /\ pc' = [pc EXCEPT ![t] = "put"]
      /\ pc[t] = "build"
      /\ UNCHANGED <<log, bodies, pointer, unheard, replica, req, attempt, clashes, body, answer,
                     history, faults>>
  BY DEF BuildWrites, NextVersion, Goto
<1>1. TypeOK'
  BY <1>a, <1>b, <1>c, <1>d DEF IInv, TypeOK, Running, AtAwait
<1>2. Gapless' /\ HistoryIsReplay' /\ NamesUnique' /\ BodiesEncodeStates'
  BY <1>d DEF IInv, Gapless, HistoryIsReplay, NamesUnique, BodiesEncodeStates
<1>3. SnapshotsArePrefixes' /\ ListingsExist' /\ DecidedOnPredecessor'
  BY <1>d DEF IInv, SnapshotsArePrefixes, ListingsExist, DecidedOnPredecessor
<1>4. CallersKnown'
  BY <1>a, <1>d DEF IInv, TypeOK, CallersKnown, Put, Commit
<1>5. TasksRemember' /\ LocksHeld'
  BY <1>d, LocksKept DEF IInv, TypeOK, TasksRemember
<1>6. PutsBuiltOnState'
  <2> SUFFICES ASSUME NEW p \in inflight'
               PROVE  /\ p.target - 1 \in DOMAIN history
                      /\ Accepts(history[p.target - 1], req[p.task])
                      /\ p.action = Build(history[p.target - 1], p.task, req[p.task])
                      /\ Waiting(p)' => action'[p.task] = p.action
    BY <1>d DEF PutsBuiltOnState
  <2>1. CASE p = m
    <3>1. p.target - 1 = ver[r] /\ p.task = t /\ p.action = x
      BY <1>a, <2>1
    <3>2. action'[t] = x
      BY <1>d DEF IInv, TypeOK
    <3>3. Accepts(snap[r], req[t])
      BY DEF BuildWrites
    <3> QED BY <1>a, <3>1, <3>2, <3>3
  <2>2. CASE p \in inflight
    <3>1. CASE p.task = t
      <4>1. PICK u \in Nat : Waiting(p)' => u = p.target
        BY <2>2 DEF IInv, TypeOK, Put, Version
      <4>2. Waiting(p)' => p.target = ver[r] + 1
        BY <1>d, <3>1 DEF Waiting, IInv, TypeOK
      <4>3. /\ p.target - 1 \in DOMAIN history
            /\ Accepts(history[p.target - 1], req[p.task])
            /\ p.action = Build(history[p.target - 1], p.task, req[p.task])
        BY <2>2 DEF IInv, PutsBuiltOnState
      <4>4. Waiting(p)' => p.action = x
        BY <1>a, <3>1, <4>2, <4>3
      <4>5. action'[t] = x
        BY <1>d DEF IInv, TypeOK
      <4> QED BY <3>1, <4>3, <4>4, <4>5
    <3>2. CASE p.task # t
      BY <1>d, <2>2, <3>2 DEF IInv, TypeOK, PutsBuiltOnState, Waiting, Put
    <3> QED BY <3>1, <3>2
  <2> QED BY <1>d, <2>1, <2>2
<1> QED BY <1>1, <1>2, <1>3, <1>4, <1>5, <1>6 DEF IInv

\* Applying the own commit on its predecessor gives the state of its version.
LEMMA ApplyOwnInv ==
  ASSUME IInv, NEW t \in Task, ApplyOwn(t)
  PROVE  IInv'
<1> DEFINE r == Home[t]
<1> USE DEF replica, bucket
<1>a. /\ r \in Replica /\ ver[r] \in Nat /\ target[t] \in Nat
      /\ ver[r] \in DOMAIN history /\ snap[r] = history[ver[r]]
      /\ pc[t] = "created" /\ target[t] \in DOMAIN log
      /\ action[t] = log[target[t]].action /\ action[t] \in Actions
  BY StoreAssumption
     DEF ApplyOwn, IInv, TypeOK, SnapshotsArePrefixes, TasksRemember, Commit
<1>b. target[t] \in DOMAIN history
  BY <1>a DEF IInv, Gapless
<1>c. NextInLine(t) => /\ Apply(snap[r], action[t]) = history[target[t]]
                       /\ Apply(snap[r], action[t]) \in Snapshots
  <2> SUFFICES ASSUME NextInLine(t)
               PROVE  /\ Apply(snap[r], action[t]) = history[target[t]]
                      /\ Apply(snap[r], action[t]) \in Snapshots
    OBVIOUS
  <2>1. target[t] - 1 = ver[r]
    BY <1>a DEF NextInLine
  <2>2. Apply(snap[r], action[t]) = history[target[t]]
    BY <1>a, <2>1 DEF IInv, HistoryIsReplay
  <2> QED BY <1>b, <2>2 DEF IInv, TypeOK
<1>1. SnapshotsArePrefixes'
  <2> SUFFICES ASSUME NEW q \in Replica
               PROVE  ver'[q] \in DOMAIN history /\ snap'[q] = history[ver'[q]]
    BY DEF SnapshotsArePrefixes, ApplyOwn
  <2>1. CASE q = r
    BY <1>a, <1>b, <1>c, <2>1 DEF ApplyOwn, IInv, TypeOK
  <2>2. CASE q # r
    BY <2>2 DEF ApplyOwn, IInv, TypeOK, SnapshotsArePrefixes
  <2> QED BY <2>1, <2>2
<1>2. ListingsExist' /\ LocksHeld'
  <2>1. ListingsExist'
    BY DEF ApplyOwn, IInv, ListingsExist
  <2>2. \A q \in Replica : stage[q] = "resolve" => ver'[q] = ver[q]
    BY <1>a DEF ApplyOwn, IInv, TypeOK, LocksHeld
  <2>3. \A u \in Task : pc[u] = "catchup" <=> pc'[u] = "catchup"
    BY <1>a DEF ApplyOwn, Return, Goto, IInv, TypeOK
  <2> QED BY <2>1, <2>2, <2>3, LocksKept DEF ApplyOwn
<1>3. snap' \in [Replica -> Snapshots] /\ ver' \in [Replica -> Nat]
  BY <1>a, <1>c DEF ApplyOwn, IInv, TypeOK
<1>4. CASE Return(t, "ok")
  <2>1. TypeOK'
    BY <1>3, <1>4, ReturnType DEF ApplyOwn, IInv, TypeOK
  <2> QED BY <1>a, <1>1, <1>2, <1>4, <2>1, ReturnInv DEF ApplyOwn
<1>5. CASE Goto(t, "ckpt") /\ UNCHANGED <<req, attempt, clashes, target, action, body, answer>>
  <2>1. TypeOK'
    BY <1>3, <1>5 DEF ApplyOwn, Goto, IInv, TypeOK, Running, AtAwait
  <2>2. TasksRemember'
    BY <1>a, <1>5 DEF ApplyOwn, Goto, IInv, TypeOK, TasksRemember
  <2> QED BY <1>a, <1>1, <1>2, <1>5, <2>1, <2>2, QuietStep
          DEF ApplyOwn, Goto, IInv, TypeOK, CallersKnown
<1> QED BY <1>4, <1>5 DEF ApplyOwn

-----------------------------------------------------------------------------
(* Checkpoints                                                             *)

\* What is encoded is the state of the version the body will be named after.
LEMMA EncodeCheckpointInv ==
  ASSUME IInv, NEW t \in Task, EncodeCheckpoint(t)
  PROVE  IInv'
<1> USE DEF replica, bucket
<1>a. /\ Home[t] \in Replica /\ pc[t] = "ckpt" /\ target[t] \in DOMAIN log
      /\ snap[Home[t]] \in Snapshots /\ snap[Home[t]] = history[ver[Home[t]]]
  BY StoreAssumption
     DEF EncodeCheckpoint, IInv, TypeOK, SnapshotsArePrefixes, TasksRemember
<1>1. SnapshotsArePrefixes' /\ ListingsExist' /\ LocksHeld'
  <2>1. SnapshotsArePrefixes' /\ ListingsExist'
    BY DEF EncodeCheckpoint, IInv, SnapshotsArePrefixes, ListingsExist
  <2>2. \A u \in Task : pc[u] = "catchup" <=> pc'[u] = "catchup"
    BY <1>a DEF EncodeCheckpoint, Return, Goto, IInv, TypeOK
  <2> QED BY <2>1, <2>2, LocksKept DEF EncodeCheckpoint
<1>2. CASE Return(t, "ok")
  <2>1. TypeOK'
    BY <1>2, ReturnType DEF EncodeCheckpoint, IInv, TypeOK
  <2> QED BY <1>a, <1>1, <1>2, <2>1, ReturnInv DEF EncodeCheckpoint
<1>3. CASE ~Return(t, "ok")
  <2>1. /\ StillAtTarget(t)
        /\ body' = [body EXCEPT ![t] = Encode(snap[Home[t]])]
        /\ pc' = [pc EXCEPT ![t] = "ckptBody"]
        /\ UNCHANGED <<bucket, replica, history, faults, req, attempt, clashes, target, action, answer>>
    BY <1>3 DEF EncodeCheckpoint, Goto
  <2>2. TypeOK'
    BY <1>a, <2>1 DEF IInv, TypeOK, Running, AtAwait, Encode, Snapshots
  <2>3. TasksRemember'
    BY <1>a, <2>1 DEF IInv, TypeOK, TasksRemember, StillAtTarget
  <2> QED BY <1>a, <1>1, <2>1, <2>2, <2>3, QuietStep DEF IInv, TypeOK, CallersKnown
<1> QED BY <1>2, <1>3

\* The body lands under its version, or is already there.
LEMMA WriteBodyInv ==
  ASSUME IInv, NEW t \in Task, WriteBody(t)
  PROVE  IInv'
<1> USE DEF replica
<1>a. /\ pc[t] = "ckptBody" /\ target[t] \in DOMAIN log
      /\ body[t] = Encode(history[target[t]])
      /\ target[t] \in DOMAIN history /\ target[t] \in Version
      /\ history[target[t]] \in Snapshots
  BY DEF WriteBody, IInv, TypeOK, TasksRemember, Gapless
<1>b. body[t] \in Rows
  BY <1>a DEF Encode, Snapshots
<1>c. /\ DOMAIN bodies' = DOMAIN bodies \cup {target[t]}
      /\ \A v \in DOMAIN bodies : bodies'[v] = bodies[v]
      /\ target[t] \notin DOMAIN bodies => bodies'[target[t]] = body[t]
  BY DEF WriteBody, WithKey
<1>d. /\ pc' = [pc EXCEPT ![t] = "ckptPtr"]
      /\ UNCHANGED <<log, pointer, inflight, unheard, replica, req, attempt, clashes, target, action,
                     body, answer, history, faults>>
  BY DEF WriteBody, Goto
<1>1. TypeOK'
  BY <1>a, <1>b, <1>c, <1>d DEF IInv, TypeOK, Running, AtAwait
<1>2. Gapless' /\ HistoryIsReplay' /\ NamesUnique' /\ SnapshotsArePrefixes' /\ ListingsExist'
  BY <1>d DEF IInv, Gapless, HistoryIsReplay, NamesUnique, SnapshotsArePrefixes, ListingsExist
<1>3. CallersKnown' /\ DecidedOnPredecessor'
  BY <1>a, <1>d DEF IInv, TypeOK, CallersKnown, DecidedOnPredecessor, Put, Commit
<1>4. PutsBuiltOnState'
  BY <1>d DEF IInv, TypeOK, PutsBuiltOnState, Waiting, Put
<1>5. TasksRemember' /\ LocksHeld'
  BY <1>a, <1>c, <1>d, LocksKept DEF IInv, TypeOK, TasksRemember
<1>6. BodiesEncodeStates'
  BY <1>a, <1>c, <1>d DEF IInv, BodiesEncodeStates
<1> QED BY <1>1, <1>2, <1>3, <1>4, <1>5, <1>6 DEF IInv

\* The pointer names a body that is there.
LEMMA WritePointerInv ==
  ASSUME IInv, NEW t \in Task, WritePointer(t)
  PROVE  IInv'
<1> USE DEF replica
<1>a. target[t] \in DOMAIN bodies /\ target[t] \in Nat /\ pc[t] = "ckptPtr"
  BY DEF WritePointer, IInv, TypeOK, TasksRemember
<1>d. /\ pointer' = target[t] /\ Return(t, "ok")
      /\ UNCHANGED <<log, bodies, inflight, unheard, replica, history, faults>>
  BY DEF WritePointer
<1>1. TypeOK'
  BY <1>a, <1>d, ReturnType DEF IInv, TypeOK
<1> USE DEF Return, Goto
<1>2. Gapless' /\ HistoryIsReplay' /\ NamesUnique' /\ SnapshotsArePrefixes' /\ ListingsExist'
  BY <1>d DEF IInv, Gapless, HistoryIsReplay, NamesUnique, SnapshotsArePrefixes, ListingsExist
<1>3. CallersKnown' /\ DecidedOnPredecessor'
  BY <1>a, <1>d DEF IInv, TypeOK, CallersKnown, DecidedOnPredecessor, Put, Commit
<1>4. PutsBuiltOnState'
  BY <1>d DEF IInv, TypeOK, PutsBuiltOnState, Waiting, Put
<1>5. TasksRemember' /\ LocksHeld'
  BY <1>a, <1>d, LocksKept DEF IInv, TypeOK, TasksRemember
<1>6. BodiesEncodeStates'
  BY <1>a, <1>d DEF IInv, BodiesEncodeStates
<1> QED BY <1>1, <1>2, <1>3, <1>4, <1>5, <1>6 DEF IInv

\* A failed checkpoint is swallowed.
LEMMA CheckpointFailsInv ==
  ASSUME IInv, NEW t \in Task, CheckpointFails(t)
  PROVE  IInv'
<1> USE DEF CheckpointFails, replica, bucket, Fault
<1>1. TypeOK'
  BY ReturnType, StoreAssumption DEF IInv, TypeOK
<1>2. SnapshotsArePrefixes' /\ ListingsExist'
  BY DEF IInv, SnapshotsArePrefixes, ListingsExist
<1>3. LocksHeld'
  BY LocksKept DEF IInv, TypeOK, Return, Goto
<1> QED BY <1>1, <1>2, <1>3, ReturnInv

-----------------------------------------------------------------------------
(* catch_up                                                                *)

\* Taking the write lock changes nothing that is served.
LEMMA CatchUpAfterLossInv ==
  ASSUME IInv, NEW t \in Task, CatchUpAfterLoss(t)
  PROVE  IInv'
<1> USE DEF CatchUpAfterLoss, BeginCatchUp, FirstStage, Goto, replica, bucket
<1>1. TypeOK'
  BY DEF IInv, TypeOK, Running, AtAwait, Holder
<1>2. SnapshotsArePrefixes' /\ ListingsExist'
  BY DEF IInv, SnapshotsArePrefixes, ListingsExist
<1>3. TasksRemember'
  BY DEF IInv, TypeOK, TasksRemember
<1>4. LocksHeld'
  <2> DEFINE r == Home[t]
  <2>1. /\ r \in Replica /\ lock[r] = "free" /\ stage[r] = "idle"
        /\ \A u \in Task : Home[u] \in Replica
        /\ t # "free"
    BY StoreAssumption DEF IInv, LocksHeld
  <2>2. /\ lock'[r] = t /\ stage'[r] \in {"resolve", "list"} /\ pc'[t] = "catchup"
        /\ stage'[r] = "resolve" => ver[r] = 0
        /\ \A q \in Replica : q # r => lock'[q] = lock[q] /\ stage'[q] = stage[q]
        /\ \A u \in Task : u # t => pc'[u] = pc[u]
    BY <2>1 DEF IInv, TypeOK
  <2>3. ASSUME NEW q \in Replica
        PROVE  /\ lock'[q] = "free" <=> stage'[q] = "idle"
               /\ lock'[q] \in Task => pc'[lock'[q]] = "catchup" /\ Home[lock'[q]] = q
               /\ stage'[q] = "resolve" => ver'[q] = 0
    BY <2>1, <2>2 DEF IInv, LocksHeld
  <2>4. ASSUME NEW u \in Task, pc'[u] = "catchup"
        PROVE  lock'[Home[u]] = u
    <3>1. CASE u = t
      BY <2>2, <3>1
    <3>2. CASE u # t
      <4>1. lock[Home[u]] = u
        BY <2>2, <2>4, <3>2 DEF IInv, LocksHeld
      <4>2. u # "free"
        BY StoreAssumption
      <4> QED BY <2>1, <2>2, <4>1, <4>2
    <3> QED BY <3>1, <3>2
  <2> QED BY <2>3, <2>4 DEF LocksHeld
<1> QED BY <1>1, <1>2, <1>3, <1>4, QuietStep DEF IInv, TypeOK, CallersKnown

\* So does the refresh timer's catch_up, and the one under Store::open.
LEMMA TakeLockInv ==
  ASSUME IInv, NEW r \in Replica, Refresh(r) \/ Open(r)
  PROVE  IInv'
<1> USE DEF Refresh, Open, BeginCatchUp, FirstStage, replica, bucket, task
<1>1. TypeOK'
  BY DEF IInv, TypeOK, Holder
<1>2. SnapshotsArePrefixes' /\ ListingsExist' /\ TasksRemember'
  BY DEF IInv, SnapshotsArePrefixes, ListingsExist, TasksRemember
<1>3. LocksHeld'
  BY StoreAssumption DEF IInv, TypeOK, LocksHeld
<1> QED BY <1>1, <1>2, <1>3, QuietStep DEF IInv, TypeOK, CallersKnown

\* A checkpoint that resolves decodes to the state of its version.
LEMMA ResolveCheckpointInv ==
  ASSUME IInv, NEW r \in Replica, ResolveCheckpoint(r)
  PROVE  IInv'
<1> USE DEF replica, bucket, task
<1>a. pointer \in DOMAIN bodies =>
        /\ pointer \in DOMAIN history /\ pointer \in Nat
        /\ Decode(bodies[pointer]) = history[pointer]
        /\ Decode(bodies[pointer]) \in Snapshots
  BY DecodeEncode DEF IInv, TypeOK, BodiesEncodeStates, NamesUnique
<1>1. TypeOK'
  BY <1>a DEF ResolveCheckpoint, IInv, TypeOK
<1>2. SnapshotsArePrefixes'
  BY <1>a DEF ResolveCheckpoint, IInv, TypeOK, SnapshotsArePrefixes
<1>3. ListingsExist' /\ TasksRemember'
  BY DEF ResolveCheckpoint, IInv, ListingsExist, TasksRemember
<1>4. LocksHeld'
  BY StoreAssumption DEF ResolveCheckpoint, IInv, TypeOK, LocksHeld
<1> QED BY <1>1, <1>2, <1>3, <1>4, QuietStep DEF ResolveCheckpoint, IInv, TypeOK, CallersKnown

\* Only commits that exist are listed.
LEMMA ReadCommitsInv ==
  ASSUME IInv, NEW r \in Replica, ReadCommits(r)
  PROVE  IInv'
<1> USE DEF ReadCommits, AllPages, replica, bucket, task
<1>1. TypeOK'
  BY DEF IInv, TypeOK
<1>2. SnapshotsArePrefixes' /\ TasksRemember'
  BY DEF IInv, SnapshotsArePrefixes, TasksRemember
<1>3. ListingsExist'
  BY DEF IInv, TypeOK, ListingsExist
<1>4. LocksHeld'
  BY StoreAssumption DEF IInv, TypeOK, LocksHeld
<1> QED BY <1>1, <1>2, <1>3, <1>4, QuietStep DEF IInv, TypeOK, CallersKnown

\* Replaying the next commit moves a replica from one state of the log to the next.
LEMMA ReplayInv ==
  ASSUME IInv, NEW r \in Replica, Replay(r)
  PROVE  IInv'
<1> DEFINE next == ver[r] + 1
<1> USE DEF replica, bucket, task
<1>a. /\ next \in DOMAIN log /\ next \in DOMAIN history /\ next \in Nat /\ next - 1 = ver[r]
  BY DEF Replay, IInv, TypeOK, ListingsExist, Gapless
<1>b. Apply(snap[r], log[next].action) = history[next] /\ history[next] \in Snapshots
  BY <1>a DEF IInv, TypeOK, SnapshotsArePrefixes, HistoryIsReplay
<1>1. TypeOK'
  BY <1>a, <1>b DEF Replay, IInv, TypeOK
<1>2. SnapshotsArePrefixes'
  BY <1>a, <1>b DEF Replay, IInv, TypeOK, SnapshotsArePrefixes
<1>3. ListingsExist' /\ TasksRemember'
  BY DEF Replay, IInv, ListingsExist, TasksRemember
<1>4. LocksHeld'
  BY StoreAssumption DEF Replay, IInv, TypeOK, LocksHeld
<1> QED BY <1>1, <1>2, <1>3, <1>4, QuietStep DEF Replay, IInv, TypeOK, CallersKnown

\* The end of a catch_up frees the lock and sends a loser back to its build.
LEMMA EndCatchUpInv ==
  ASSUME IInv, NEW r \in Replica, EndCatchUp(r)
  PROVE  IInv'
<1> USE DEF replica, bucket
<1>1. /\ up' \in [Replica -> BOOLEAN] /\ snap' \in [Replica -> Snapshots]
      /\ ver' \in [Replica -> Nat] /\ lock' \in [Replica -> Holder]
      /\ stage' \in [Replica -> {"idle", "resolve", "list", "replay"}]
      /\ listing' \in [Replica -> SUBSET Version]
      /\ UNCHANGED <<bucket, history, faults>>
  BY DEF EndCatchUp, Unlock, IInv, TypeOK, Holder
<1>2. SnapshotsArePrefixes' /\ ListingsExist'
  BY DEF EndCatchUp, Unlock, IInv, TypeOK, SnapshotsArePrefixes, ListingsExist
<1>3. CASE lock[r] \notin Task
  <2>1. UNCHANGED task
    BY <1>3 DEF EndCatchUp
  <2>2. TypeOK' /\ TasksRemember'
    BY <1>1, <2>1 DEF task, IInv, TypeOK, TasksRemember
  <2>3. LocksHeld'
    BY <1>3, <2>1, StoreAssumption DEF EndCatchUp, Unlock, task, IInv, TypeOK, LocksHeld
  <2> QED BY <1>1, <1>2, <2>1, <2>2, <2>3, QuietStep DEF task, IInv, TypeOK, CallersKnown
<1>4. CASE lock[r] \in Task
  <2> PICK t \in Task : t = lock[r]
    BY <1>4
  <2>1. pc[t] = "catchup" /\ Home[t] = r /\ NextAttempt(t)
    BY <1>4 DEF EndCatchUp, IInv, LocksHeld
  <2>2. pc'[t] # "catchup" /\ \A u \in Task \ {t} : pc'[u] = pc[u]
    BY <2>1 DEF NextAttempt, TryAgain, Return, Goto, IInv, TypeOK
  <2>3. LocksHeld'
    <3>1. lock' = [lock EXCEPT ![r] = "free"] /\ stage' = [stage EXCEPT ![r] = "idle"]
          /\ UNCHANGED ver
      BY DEF EndCatchUp, Unlock
    <3>2. \A q \in Replica : q # r => lock'[q] = lock[q] /\ stage'[q] = stage[q]
      BY <3>1 DEF IInv, TypeOK
    <3>3. lock'[r] = "free" /\ stage'[r] = "idle"
      BY <3>1 DEF IInv, TypeOK
    <3>4. \A u \in Task \ {t} : pc[u] = "catchup" => Home[u] # r
      BY <2>1 DEF IInv, LocksHeld
    <3>5. \A u \in Task : Home[u] \in Replica
      BY StoreAssumption
    <3>6. ASSUME NEW q \in Replica
          PROVE  /\ lock'[q] = "free" <=> stage'[q] = "idle"
                 /\ lock'[q] \in Task => pc'[lock'[q]] = "catchup" /\ Home[lock'[q]] = q
                 /\ stage'[q] = "resolve" => ver'[q] = 0
      BY <2>1, <2>2, <3>1, <3>2, <3>3, StoreAssumption DEF IInv, LocksHeld
    <3>7. ASSUME NEW u \in Task, pc'[u] = "catchup"
          PROVE  lock'[Home[u]] = u
      BY <2>2, <3>2, <3>4, <3>5, <3>7 DEF IInv, LocksHeld
    <3> QED BY <3>6, <3>7 DEF LocksHeld
  <2>4. CASE Return(t, "contention")
    <3>1. TypeOK'
      BY <1>1, <2>4, ReturnType DEF IInv, TypeOK
    <3> QED BY <1>1, <1>2, <2>1, <2>3, <2>4, <3>1, ReturnInv
  <2>5. CASE attempt[t] # MaxCommitAttempts /\ TryAgain(t)
    <3>1. attempt[t] + 1 \in 1..MaxCommitAttempts
      BY <2>5, StoreAssumption DEF IInv, TypeOK
    <3>2. TypeOK'
      BY <1>1, <2>5, <3>1 DEF TryAgain, Goto, IInv, TypeOK, Running
    <3>3. TasksRemember'
      BY <1>1, <2>5 DEF TryAgain, Goto, IInv, TypeOK, TasksRemember
    <3> QED BY <1>1, <1>2, <2>1, <2>3, <2>5, <3>2, <3>3, QuietStep
            DEF TryAgain, Goto, IInv, TypeOK, CallersKnown
  <2> QED BY <2>1, <2>4, <2>5 DEF NextAttempt
<1> QED BY <1>3, <1>4

\* A failed catch_up leaves the snapshot as it was, or the process down.
LEMMA CatchUpFailsInv ==
  ASSUME IInv, NEW r \in Replica, CatchUpFails(r)
  PROVE  IInv'
<1> USE DEF CatchUpFails, Unlock, Fault, replica, bucket, task
<1>1. TypeOK'
  BY EmptySnapshotOK, StoreAssumption DEF IInv, TypeOK, Holder
<1>2. SnapshotsArePrefixes'
  <2>1. 0 \in DOMAIN history /\ history[0] = EmptySnapshot
    BY DEF IInv, Gapless, HistoryIsReplay
  <2> QED BY <2>1 DEF IInv, TypeOK, SnapshotsArePrefixes
<1>3. ListingsExist' /\ TasksRemember'
  BY DEF IInv, TypeOK, ListingsExist, TasksRemember
<1>4. LocksHeld'
  <2>1. /\ lock'[r] = "free" /\ stage'[r] = "idle"
        /\ \A q \in Replica : q # r =>
             lock'[q] = lock[q] /\ stage'[q] = stage[q] /\ ver'[q] = ver[q]
    BY DEF IInv, TypeOK
  <2>2. lock[r] \notin Task
    BY StoreAssumption
  <2> QED BY <2>1, <2>2, StoreAssumption DEF IInv, LocksHeld
<1> QED BY <1>1, <1>2, <1>3, <1>4, QuietStep DEF IInv, TypeOK, CallersKnown

-----------------------------------------------------------------------------
(* The object store                                                        *)

\* What one conditional PUT does to the log, whoever hears of it.
LEMMA CreatedExtends ==
  ASSUME IInv, NEW m \in inflight, Created(m)
  PROVE  /\ m \in Put /\ m.target \notin DOMAIN history
         /\ m.target - 1 \in DOMAIN history
         /\ DOMAIN log' = DOMAIN log \cup {m.target}
         /\ DOMAIN history' = DOMAIN history \cup {m.target}
         /\ \A v \in DOMAIN log : v # m.target /\ log'[v] = log[v]
         /\ \A v \in DOMAIN history : v # m.target /\ history'[v] = history[v]
         /\ log'[m.target] = [by |-> m.task, action |-> m.action]
         /\ history'[m.target] = Apply(history[m.target - 1], m.action)
<1>1. m \in Put /\ m.target \notin DOMAIN log /\ m.target # 0
  BY DEF Created, KeyIsFree, IInv, TypeOK, Put, Version
<1>2. m.target \notin DOMAIN history
  BY <1>1 DEF IInv, Gapless
<1>3. m.target - 1 \in DOMAIN history
  BY DEF IInv, PutsBuiltOnState
<1>4. /\ DOMAIN log' = DOMAIN log \cup {m.target}
      /\ \A v \in DOMAIN log : v # m.target /\ log'[v] = log[v]
      /\ log'[m.target] = [by |-> m.task, action |-> m.action]
  BY <1>1 DEF Created, WithKey
<1>5. /\ DOMAIN history' = DOMAIN history \cup {m.target}
      /\ \A v \in DOMAIN history : v # m.target /\ history'[v] = history[v]
      /\ history'[m.target] = Apply(StateBefore(m.target), m.action)
  BY <1>2 DEF Created, WithKey
<1>6. StateBefore(m.target) = history[m.target - 1]
  <2>1. DOMAIN history \subseteq Nat /\ m.target \in Nat /\ m.target - 1 \in Nat
    BY <1>1, <1>3 DEF IInv, TypeOK, Put, Version
  <2>2. \A u \in DOMAIN history :
          (u < m.target /\ \A w \in DOMAIN history : w < m.target => w <= u)
            <=> u = m.target - 1
    BY <1>3, <2>1
  <2> QED BY <1>3, <2>2 DEF StateBefore
<1> QED BY <1>1, <1>2, <1>3, <1>4, <1>5, <1>6

\* The state a commit makes is a snapshot with unique names.
LEMMA CreatedState ==
  ASSUME IInv, NEW m \in inflight, Created(m)
  PROVE  /\ history'[m.target] \in Snapshots /\ IndexMatches(history'[m.target])
         /\ log'[m.target] \in Commit
<1> DEFINE before == history[m.target - 1]
<1>1. /\ m \in Put /\ m.target - 1 \in DOMAIN history
      /\ log'[m.target] = [by |-> m.task, action |-> m.action]
      /\ history'[m.target] = Apply(before, m.action)
  BY CreatedExtends
<1>2. before \in Snapshots /\ IndexMatches(before)
  BY <1>1 DEF IInv, TypeOK, NamesUnique
<1>3. /\ Accepts(before, req[m.task])
      /\ m.action = Build(before, m.task, req[m.task])
  BY DEF IInv, PutsBuiltOnState
<1>4. m.task \in Task /\ m.action \in Actions
  BY <1>1 DEF Put
<1>5. req[m.task] \in Request /\ WellFormed(req[m.task])
  BY <1>4, StoreAssumption DEF IInv, CallersKnown
<1>6. NameIsFree(before, m.action)
  BY <1>2, <1>3, <1>4, <1>5, BuildSound
<1>7. history'[m.target] \in Snapshots
  BY <1>1, <1>2, <1>4, ApplyType
<1>8. IndexMatches(history'[m.target])
  BY <1>1, <1>2, <1>4, <1>6, ApplyKeepsIndex
<1> QED BY <1>1, <1>4, <1>7, <1>8 DEF Commit

\* The parts of the invariant that speak of the log alone survive a commit,
\* whether or not its writer hears of it.
LEMMA CreatedInv ==
  ASSUME IInv, NEW m \in inflight, Created(m),
         UNCHANGED <<bodies, pointer, replica, req, target, action, body>>
  PROVE  /\ Gapless' /\ HistoryIsReplay' /\ SnapshotsArePrefixes' /\ NamesUnique'
         /\ DecidedOnPredecessor' /\ BodiesEncodeStates' /\ ListingsExist'
         /\ \A v \in DOMAIN log' : log'[v] \in Commit
         /\ \A v \in DOMAIN history' : history'[v] \in Snapshots
<1> DEFINE k == m.target
<1>f. /\ m \in Put /\ k \notin DOMAIN history /\ k - 1 \in DOMAIN history
      /\ DOMAIN log' = DOMAIN log \cup {k}
      /\ DOMAIN history' = DOMAIN history \cup {k}
      /\ \A v \in DOMAIN log : v # k /\ log'[v] = log[v]
      /\ \A v \in DOMAIN history : v # k /\ history'[v] = history[v]
      /\ log'[k] = [by |-> m.task, action |-> m.action]
      /\ history'[k] = Apply(history[k - 1], m.action)
      /\ history'[k] \in Snapshots /\ IndexMatches(history'[k])
      /\ log'[k] \in Commit
  BY CreatedExtends, CreatedState
<1> HIDE DEF k
<1>k. k \in Nat /\ k # 0 /\ k - 1 \in Nat
  BY <1>f DEF Put, Version, k
<1>p. \A v \in DOMAIN log : v \in DOMAIN history /\ v - 1 \in DOMAIN history
  BY DEF IInv, TypeOK, Version, Gapless
<1>1. Gapless'
  <2>1. \A u \in 1..k : u \in DOMAIN log'
    <3> SUFFICES ASSUME NEW u \in 1..k, u # k PROVE u \in DOMAIN log
      BY <1>f
    <3>1. k - 1 \in DOMAIN log /\ u \in 1..(k - 1)
      BY <1>f, <1>k DEF IInv, Gapless
    <3> QED BY <3>1 DEF IInv, Gapless
  <2>2. \A v \in DOMAIN log : \A u \in 1..v : u \in DOMAIN log
    BY DEF IInv, Gapless
  <2>3. DOMAIN history = DOMAIN log \cup {0}
    BY DEF IInv, Gapless
  <2> QED BY <1>f, <2>1, <2>2, <2>3 DEF Gapless
<1>2. HistoryIsReplay'
  <2>1. history'[0] = EmptySnapshot
    BY <1>f DEF IInv, Gapless, HistoryIsReplay
  <2>2. ASSUME NEW v \in DOMAIN log'
        PROVE  history'[v] = Apply(history'[v - 1], log'[v].action)
    <3>1. CASE v = k
      BY <1>f, <3>1
    <3>2. CASE v \in DOMAIN log
      BY <1>f, <1>p, <3>2 DEF IInv, HistoryIsReplay
    <3> QED BY <1>f, <3>1, <3>2
  <2> QED BY <2>1, <2>2 DEF HistoryIsReplay
<1>3. SnapshotsArePrefixes' /\ ListingsExist'
  BY <1>f DEF IInv, SnapshotsArePrefixes, ListingsExist, replica
<1>4. NamesUnique'
  BY <1>f DEF IInv, NamesUnique
<1>5. DecidedOnPredecessor'
  <2> SUFFICES ASSUME NEW v \in DOMAIN log'
               PROVE  /\ Accepts(history'[v - 1], req[log'[v].by])
                      /\ log'[v].action = Build(history'[v - 1], log'[v].by, req[log'[v].by])
    BY DEF DecidedOnPredecessor
  <2>1. CASE v = k
    BY <1>f, <2>1 DEF IInv, PutsBuiltOnState, k
  <2>2. CASE v \in DOMAIN log
    BY <1>f, <1>p, <2>2 DEF IInv, DecidedOnPredecessor
  <2> QED BY <1>f, <2>1, <2>2
<1>6. BodiesEncodeStates'
  BY <1>f DEF IInv, BodiesEncodeStates
<1>7. \A v \in DOMAIN log' : log'[v] \in Commit
  BY <1>f DEF IInv, TypeOK
<1>8. \A v \in DOMAIN history' : history'[v] \in Snapshots
  BY <1>f DEF IInv, TypeOK
<1> QED BY <1>1, <1>2, <1>3, <1>4, <1>5, <1>6, <1>7, <1>8

\* What tasks and callers know is not disturbed by a commit.
LEMMA CreatedKnown ==
  ASSUME IInv, NEW m \in inflight, Created(m),
         UNCHANGED <<bodies, pointer, replica, req, attempt, clashes, target, action, body, answer>>,
         inflight' \subseteq inflight,
         pc' \in [Task -> {"idle", "done"} \cup Running],
         faults' \in 0..MaxFaults, unheard' \subseteq DOMAIN log',
         \A u \in Task :
           \/ pc'[u] = pc[u]
           \/ u = m.task /\ Waiting(m) /\ pc'[u] = "created"
  PROVE  IInv'
<1>f. /\ m \in Put /\ m.target \notin DOMAIN history
      /\ DOMAIN log' = DOMAIN log \cup {m.target}
      /\ DOMAIN history' = DOMAIN history \cup {m.target}
      /\ \A v \in DOMAIN log : v # m.target /\ log'[v] = log[v]
      /\ \A v \in DOMAIN history : v # m.target /\ history'[v] = history[v]
      /\ log'[m.target] = [by |-> m.task, action |-> m.action]
      /\ m.task \in Task /\ m.target \in Version
      /\ DOMAIN history = DOMAIN log \cup {0}
  BY CreatedExtends DEF Put, IInv, Gapless
<1>1. /\ Gapless' /\ HistoryIsReplay' /\ SnapshotsArePrefixes' /\ NamesUnique'
      /\ DecidedOnPredecessor' /\ BodiesEncodeStates' /\ ListingsExist'
      /\ \A v \in DOMAIN log' : log'[v] \in Commit
      /\ \A v \in DOMAIN history' : history'[v] \in Snapshots
  BY CreatedInv
<1>2. TypeOK'
  <2>1. DOMAIN log' \subseteq Version /\ DOMAIN history' \subseteq Nat
    BY <1>f DEF IInv, TypeOK, Version
  <2> QED BY <1>1, <2>1 DEF IInv, TypeOK, replica
<1>3. CallersKnown'
  <2>1. \A u \in Task : pc[u] # "idle" <=> pc'[u] # "idle"
    BY DEF Waiting
  <2>2. \A p \in inflight' : p.task \in Task /\ pc[p.task] # "idle"
    BY DEF IInv, TypeOK, CallersKnown, Put
  <2>3. \A v \in DOMAIN log' : log'[v].by \in Task /\ pc[log'[v].by] # "idle"
    BY <1>f DEF IInv, TypeOK, CallersKnown, Commit
  <2> QED BY <2>1, <2>2, <2>3 DEF IInv, CallersKnown
<1>4. PutsBuiltOnState'
  <2> SUFFICES ASSUME NEW p \in inflight'
               PROVE  /\ p.target - 1 \in DOMAIN history'
                      /\ Accepts(history'[p.target - 1], req[p.task])
                      /\ p.action = Build(history'[p.target - 1], p.task, req[p.task])
                      /\ Waiting(p)' => action'[p.task] = p.action
    BY DEF PutsBuiltOnState
  <2>1. p \in inflight /\ p.task \in Task
    BY DEF IInv, TypeOK, Put
  <2>2. Waiting(p)' => Waiting(p)
    BY <2>1 DEF Waiting
  <2> QED BY <1>f, <2>1, <2>2 DEF IInv, PutsBuiltOnState
<1>5. TasksRemember'
  <2> SUFFICES ASSUME NEW u \in Task
               PROVE  /\ pc'[u] \in {"created", "ckpt", "ckptBody", "ckptPtr"} =>
                           target[u] \in DOMAIN log'
                      /\ pc'[u] = "created" => action[u] = log'[target[u]].action
                      /\ pc'[u] = "ckptBody" => body[u] = Encode(history'[target[u]])
                      /\ pc'[u] = "ckptPtr" => target[u] \in DOMAIN bodies
    BY DEF TasksRemember
  <2>1. CASE pc'[u] = pc[u]
    BY <1>f, <2>1 DEF IInv, TasksRemember
  <2>2. CASE u = m.task /\ Waiting(m) /\ pc'[u] = "created"
    <3>1. action[u] = m.action
      BY <2>2 DEF IInv, PutsBuiltOnState
    <3> QED BY <1>f, <2>2, <3>1 DEF Waiting
  <2> QED BY <2>1, <2>2
<1>6. LocksHeld'
  <2>1. \A u \in Task : pc[u] = "catchup" <=> pc'[u] = "catchup"
    BY DEF Waiting
  <2> QED BY <2>1, LocksKept DEF replica
<1> QED BY <1>1, <1>2, <1>3, <1>4, <1>5, <1>6 DEF IInv

\* A PUT that creates its object, answered or not.
LEMMA LandInv ==
  ASSUME IInv, NEW m \in inflight, Land(m) \/ LandUnheard(m)
  PROVE  IInv'
<1>1. m.task \in Task
  BY DEF IInv, TypeOK, Put
<1>2. CASE Land(m)
  <2>1. \A u \in Task :
          \/ pc'[u] = pc[u]
          \/ u = m.task /\ Waiting(m) /\ pc'[u] = "created"
    BY <1>1, <1>2 DEF Land, Goto, IInv, TypeOK
  <2>2. pc' \in [Task -> {"idle", "done"} \cup Running]
    BY <1>1, <1>2 DEF Land, Goto, IInv, TypeOK, Running, AtAwait
  <2>3. /\ Created(m) /\ inflight' \subseteq inflight /\ faults' \in 0..MaxFaults
        /\ UNCHANGED <<bodies, pointer, replica, req, attempt, clashes, target, action, body, answer>>
    BY <1>2 DEF Land, IInv, TypeOK
  <2>4. unheard' \subseteq DOMAIN log'
    BY <1>2 DEF Land, Created, WithKey, IInv, TypeOK
  <2> QED BY <2>1, <2>2, <2>3, <2>4, CreatedKnown
<1>3. CASE LandUnheard(m)
  <2>1. /\ Created(m) /\ inflight' \subseteq inflight /\ faults' \in 0..MaxFaults
        /\ UNCHANGED <<bodies, pointer, replica, task>>
    BY <1>3, StoreAssumption DEF LandUnheard, Fault, IInv, TypeOK
  <2>2. pc' \in [Task -> {"idle", "done"} \cup Running] /\ pc' = pc
    BY <2>1 DEF IInv, TypeOK, task
  <2>3. unheard' \subseteq DOMAIN log'
    BY <1>3 DEF LandUnheard, Created, WithKey, IInv, TypeOK
  <2> QED BY <2>1, <2>2, <2>3, CreatedKnown DEF task
<1> QED BY <1>2, <1>3

\* A refused PUT changes nothing but its own call.
LEMMA RefuseInv ==
  ASSUME IInv, NEW m \in inflight, Refuse(m) \/ Collide(m)
  PROVE  IInv'
<1>1. /\ m.task \in Task /\ inflight' \subseteq inflight
      /\ UNCHANGED <<log, bodies, pointer, unheard, replica, req, attempt, target, action, body,
                     answer, history>>
      /\ clashes' \in [Task -> Nat] /\ faults' \in 0..MaxFaults
  BY StoreAssumption DEF Refuse, Collide, Fault, IInv, TypeOK, Put
<1>2. \A u \in Task : pc'[u] = pc[u] \/ (pc[u] = "put" /\ pc'[u] = "exists")
  BY <1>1 DEF Refuse, Collide, Waiting, Goto, IInv, TypeOK
<1>3. pc' \in [Task -> {"idle", "done"} \cup Running]
  BY <1>1 DEF Refuse, Collide, Goto, IInv, TypeOK, Running, AtAwait
<1>4. TypeOK'
  BY <1>1, <1>3 DEF IInv, TypeOK, replica
<1>5. Gapless' /\ HistoryIsReplay' /\ NamesUnique' /\ BodiesEncodeStates'
  BY <1>1 DEF IInv, Gapless, HistoryIsReplay, NamesUnique, BodiesEncodeStates
<1>6. SnapshotsArePrefixes' /\ ListingsExist' /\ DecidedOnPredecessor'
  BY <1>1 DEF IInv, SnapshotsArePrefixes, ListingsExist, DecidedOnPredecessor, replica
<1>7. CallersKnown'
  BY <1>1, <1>2 DEF IInv, TypeOK, CallersKnown, Put, Commit
<1>8. PutsBuiltOnState'
  BY <1>1, <1>2 DEF IInv, TypeOK, PutsBuiltOnState, Waiting, Put
<1>9. TasksRemember'
  BY <1>1, <1>2 DEF IInv, TasksRemember
<1>10. LocksHeld'
  BY <1>1, <1>2, LocksKept DEF replica
<1> QED BY <1>4, <1>5, <1>6, <1>7, <1>8, <1>9, <1>10 DEF IInv

-----------------------------------------------------------------------------
(* Abandoned calls and crashes                                             *)

\* A dropped future takes its write lock with it.
LEMMA AbandonInv ==
  ASSUME IInv, NEW t \in Task, Abandon(t)
  PROVE  IInv'
<1> DEFINE r == Home[t]
<1>1. /\ r \in Replica /\ pc[t] \in AtAwait /\ Return(t, "unknown")
      /\ faults' \in 0..MaxFaults
      /\ UNCHANGED <<bucket, up, snap, ver, history>>
  BY StoreAssumption DEF Abandon, Fault, IInv, TypeOK
<1>2. \/ lock[r] = t /\ Unlock(r)
      \/ lock[r] # t /\ UNCHANGED <<lock, stage, listing>>
  BY DEF Abandon, ReleaseLock
<1>3. /\ lock' \in [Replica -> Holder]
      /\ stage' \in [Replica -> {"idle", "resolve", "list", "replay"}]
      /\ listing' \in [Replica -> SUBSET Version]
  BY <1>1, <1>2 DEF Unlock, IInv, TypeOK, Holder
<1>4. TypeOK'
  BY <1>1, <1>3, ReturnType DEF IInv, TypeOK, bucket
<1>5. SnapshotsArePrefixes'
  BY <1>1 DEF IInv, SnapshotsArePrefixes
<1>6. ListingsExist'
  BY <1>1, <1>2 DEF Unlock, IInv, TypeOK, ListingsExist, bucket
<1>7. LocksHeld'
  <2>1. pc'[t] # "catchup" /\ \A u \in Task \ {t} : pc'[u] = pc[u]
    BY <1>1 DEF Return, Goto, IInv, TypeOK
  <2>2. \A q \in Replica : q # r => lock'[q] = lock[q] /\ stage'[q] = stage[q]
    BY <1>1, <1>2 DEF Unlock, IInv, TypeOK
  <2>3. \/ lock[r] = t /\ lock'[r] = "free" /\ stage'[r] = "idle"
        \/ lock[r] # t /\ lock'[r] = lock[r] /\ stage'[r] = stage[r]
    BY <1>1, <1>2 DEF Unlock, IInv, TypeOK
  <2>4. "free" \notin Task /\ \A u \in Task : Home[u] \in Replica
    BY StoreAssumption
  <2>5. ASSUME NEW q \in Replica
        PROVE  /\ lock'[q] = "free" <=> stage'[q] = "idle"
               /\ lock'[q] \in Task => pc'[lock'[q]] = "catchup" /\ Home[lock'[q]] = q
               /\ stage'[q] = "resolve" => ver'[q] = 0
    <3>1. CASE q = r
      BY <1>1, <2>1, <2>3, <2>4, <3>1 DEF IInv, LocksHeld
    <3>2. CASE q # r
      BY <1>1, <2>1, <2>2, <2>4, <3>2 DEF IInv, LocksHeld
    <3> QED BY <3>1, <3>2
  <2>6. ASSUME NEW u \in Task, pc'[u] = "catchup"
        PROVE  lock'[Home[u]] = u
    <3>1. u # t /\ pc[u] = "catchup" /\ lock[Home[u]] = u
      BY <2>1, <2>6 DEF IInv, LocksHeld
    <3> QED BY <2>2, <2>3, <2>4, <3>1
  <2> QED BY <2>5, <2>6 DEF LocksHeld
<1>8. pc[t] # "idle"
  BY <1>1 DEF AtAwait
<1> QED BY <1>1, <1>4, <1>5, <1>6, <1>7, <1>8, ReturnInv

\* A process that ends forgets its snapshot and its calls.
LEMMA CrashInv ==
  ASSUME IInv, NEW r \in Replica, Crash(r)
  PROVE  IInv'
<1> DEFINE lost == {t \in Task : Home[t] = r /\ pc[t] \in Running}
<1>1. \A t \in Task :
        /\ t \in lost => pc'[t] = "done" /\ pc[t] # "idle"
        /\ t \notin lost => pc'[t] = pc[t]
  BY DEF Crash, Running, AtAwait
<1>2. TypeOK'
  <2>1. /\ pc' \in [Task -> {"idle", "done"} \cup Running]
        /\ answer' \in [Task -> {"none", "ok", "rejected", "contention", "unknown"}]
        /\ action' \in [Task -> Actions \cup {NoAction}]
        /\ body' \in [Task -> Rows \cup {NoBody}]
    BY DEF Crash, IInv, TypeOK
  <2>2. /\ up' \in [Replica -> BOOLEAN] /\ snap' \in [Replica -> Snapshots]
        /\ ver' \in [Replica -> Nat] /\ lock' \in [Replica -> Holder]
        /\ stage' \in [Replica -> {"idle", "resolve", "list", "replay"}]
        /\ listing' \in [Replica -> SUBSET Version]
    BY EmptySnapshotOK DEF Crash, Unlock, IInv, TypeOK, Holder
  <2>3. faults' \in 0..MaxFaults
    BY StoreAssumption DEF Crash, Fault, IInv, TypeOK
  <2> QED BY <2>1, <2>2, <2>3 DEF Crash, IInv, TypeOK, bucket
<1>3. SnapshotsArePrefixes'
  <2>1. 0 \in DOMAIN history /\ history[0] = EmptySnapshot
    BY DEF IInv, Gapless, HistoryIsReplay
  <2> QED BY <2>1 DEF Crash, IInv, TypeOK, SnapshotsArePrefixes
<1>4. ListingsExist'
  BY DEF Crash, Unlock, IInv, TypeOK, ListingsExist, bucket
<1>5. TasksRemember'
  BY <1>1 DEF Crash, IInv, TypeOK, TasksRemember, bucket
<1>6. LocksHeld'
  <2>1. /\ lock'[r] = "free" /\ stage'[r] = "idle"
        /\ \A q \in Replica : q # r =>
             lock'[q] = lock[q] /\ stage'[q] = stage[q] /\ ver'[q] = ver[q]
    BY DEF Crash, Unlock, IInv, TypeOK
  <2>2. "free" \notin Task /\ \A u \in Task : Home[u] \in Replica
    BY StoreAssumption
  <2>3. ASSUME NEW q \in Replica, q # r, lock[q] \in Task
        PROVE  pc'[lock[q]] = "catchup" /\ Home[lock[q]] = q
    BY <1>1, <2>3 DEF IInv, LocksHeld
  <2>4. ASSUME NEW u \in Task, pc'[u] = "catchup"
        PROVE  Home[u] # r /\ lock[Home[u]] = u
    BY <1>1, <2>4 DEF IInv, LocksHeld, Running, AtAwait
  <2> QED BY <2>1, <2>2, <2>3, <2>4 DEF IInv, LocksHeld
<1>7. UNCHANGED <<bucket, history, req>>
  BY DEF Crash
<1>8. \A t \in Task : pc'[t] = "put" => target'[t] = target[t] /\ action'[t] = action[t]
  BY <1>1 DEF Crash, IInv, TypeOK
<1> QED BY <1>1, <1>2, <1>3, <1>4, <1>5, <1>6, <1>7, <1>8, QuietStep DEF IInv, CallersKnown

-----------------------------------------------------------------------------
(* The theorems                                                            *)

\* Every step keeps the invariant.
LEMMA NextInv == IInv /\ [Next]_vars => IInv'
<1> SUFFICES ASSUME IInv, [Next]_vars PROVE IInv'
  OBVIOUS
<1>1. ASSUME NEW t \in Task, NEW q \in Workload, Call(t, q) PROVE IInv'
  BY <1>1, CallInv
<1>2. ASSUME NEW t \in Task, Step(t) PROVE IInv'
  BY <1>2, BuildReturnsInv, BuildWritesInv, ApplyOwnInv, EncodeCheckpointInv, WriteBodyInv,
     WritePointerInv, CatchUpAfterLossInv DEF Step
<1>3. ASSUME NEW t \in Task, CheckpointFails(t) \/ Abandon(t) PROVE IInv'
  BY <1>3, CheckpointFailsInv, AbandonInv
<1>4. ASSUME NEW r \in Replica, Open(r) \/ Refresh(r) PROVE IInv'
  BY <1>4, TakeLockInv
<1>5. ASSUME NEW r \in Replica, CatchUpStep(r) PROVE IInv'
  BY <1>5, ResolveCheckpointInv, ReadCommitsInv, ReplayInv, EndCatchUpInv DEF CatchUpStep
<1>6. ASSUME NEW r \in Replica, CatchUpFails(r) \/ Crash(r) PROVE IInv'
  BY <1>6, CatchUpFailsInv, CrashInv
<1>7. ASSUME NEW m \in inflight, Land(m) \/ LandUnheard(m) \/ Refuse(m) \/ Collide(m)
      PROVE  IInv'
  BY <1>7, LandInv, RefuseInv
<1>8. CASE UNCHANGED vars
  BY <1>8 DEF vars, bucket, replica, task, IInv, TypeOK, Gapless, HistoryIsReplay, CallersKnown,
     SnapshotsArePrefixes, NamesUnique, DecidedOnPredecessor, PutsBuiltOnState, Waiting,
     TasksRemember, BodiesEncodeStates, ListingsExist, LocksHeld
<1> QED BY <1>1, <1>2, <1>3, <1>4, <1>5, <1>6, <1>7, <1>8 DEF Next

\* The invariant of the store: log, replicas, checkpoints, PUTs in flight and
\* calls under way agree in every reachable state of StoreInner::commit,
\* write_checkpoint and catch_up.
THEOREM StoreInvariant == Spec => []IInv
BY InitIInv, NextInv, PTL DEF Spec

\* Every variable of the store keeps its type.
THEOREM TypeCorrect == Spec => []TypeOK
<1>1. IInv => TypeOK
  BY DEF IInv
<1> QED BY <1>1, StoreInvariant, PTL

\* What a replica serves, after any mix of own applies, catch_ups, checkpoint
\* reads and restarts, is the state of the log at the version it names.
THEOREM ReplicasServePrefixes == Spec => []SnapshotsArePrefixes
<1>1. IInv => SnapshotsArePrefixes
  BY DEF IInv
<1> QED BY <1>1, StoreInvariant, PTL

\* The optimistic commit loop is serialisable: each commit's closure has seen
\* the very state it is appended to, however late the PUT landed.
THEOREM CommitsAreSerial == Spec => []DecidedOnPredecessor
<1>1. IInv => DecidedOnPredecessor
  BY DEF IInv
<1> QED BY <1>1, StoreInvariant, PTL

\* The UNIQUE constraints survive every race, also between replicas.
THEOREM UniqueNames == Spec => []NamesUnique
<1>1. IInv => NamesUnique
  BY DEF IInv
<1> QED BY <1>1, StoreInvariant, PTL

\* The log has no hole: read_commits_after never meets a gap.
THEOREM LogHasNoGap == Spec => []Gapless
<1>1. IInv => Gapless
  BY DEF IInv
<1> QED BY <1>1, StoreInvariant, PTL

\* A checkpoint that resolve_checkpoint reads is the state of its version,
\* whoever wrote it and however late.
THEOREM CheckpointsFaithful == Spec => []CheckpointsAreStates
<1>1. IInv => CheckpointsAreStates
  BY DecodeEncode DEF IInv, TypeOK, NamesUnique, BodiesEncodeStates, CheckpointsAreStates
<1> QED BY <1>1, StoreInvariant, PTL

\* Only a landing PUT changes the log, and only at a key that was free
\* (put_if_absent): a commit object is never rewritten or removed.
THEOREM LogOnlyGrows == Spec => LogAppendOnly
<1>1. ASSUME IInv, [Next]_vars
      PROVE  [\A v \in DOMAIN log : v \in DOMAIN log' /\ log'[v] = log[v]]_log
  <2>1. ASSUME NEW m \in inflight, Created(m)
        PROVE  \A v \in DOMAIN log : v \in DOMAIN log' /\ log'[v] = log[v]
    BY <1>1, <2>1, CreatedExtends
  <2>2. ASSUME NEW t \in Task, NEW q \in Workload, Call(t, q) PROVE UNCHANGED log
    BY <2>2 DEF Call, bucket
  <2>3. ASSUME NEW t \in Task, Step(t) \/ CheckpointFails(t) \/ Abandon(t)
        PROVE  UNCHANGED log
    BY <2>3 DEF Step, BuildRejects, BuildNothing, BuildWrites, ApplyOwn, EncodeCheckpoint,
       WriteBody, WritePointer, CatchUpAfterLoss, BeginCatchUp, CheckpointFails, Abandon, bucket
  <2>4. ASSUME NEW r \in Replica,
               Open(r) \/ Refresh(r) \/ CatchUpStep(r) \/ CatchUpFails(r) \/ Crash(r)
        PROVE  UNCHANGED log
    BY <2>4 DEF Open, Refresh, BeginCatchUp, CatchUpStep, ResolveCheckpoint, ReadCommits, Replay,
       EndCatchUp, CatchUpFails, Crash, bucket
  <2>5. ASSUME NEW m \in inflight, Refuse(m) \/ Collide(m) PROVE UNCHANGED log
    BY <2>5 DEF Refuse, Collide
  <2>6. ASSUME NEW m \in inflight, Land(m) \/ LandUnheard(m) PROVE Created(m)
    BY <2>6 DEF Land, LandUnheard
  <2>7. CASE UNCHANGED vars
    BY <2>7 DEF vars, bucket
  <2> QED BY <1>1, <2>1, <2>2, <2>3, <2>4, <2>5, <2>6, <2>7 DEF Next
<1> QED BY <1>1, StoreInvariant, PTL DEF Spec, LogAppendOnly

\* A serving replica never goes back: own applies and replays are next in line,
\* and a checkpoint, which may be old, is read by an empty snapshot only.
THEOREM ReplicasAdvance == Spec => VersionsAdvance
<1> DEFINE Advance == \A r \in Replica : up[r] /\ up'[r] => ver'[r] >= ver[r]
<1>1. ASSUME IInv, [Next]_vars
      PROVE  Advance \/ UNCHANGED <<up, ver>>
  <2>v. ver \in [Replica -> Nat] /\ \A r \in Replica : ver[r] >= ver[r]
    BY <1>1 DEF IInv, TypeOK
  <2>1. ASSUME NEW t \in Task, NEW q \in Workload, Call(t, q) PROVE UNCHANGED ver
    BY <2>1 DEF Call, replica
  <2>2. ASSUME NEW t \in Task, ApplyOwn(t) PROVE Advance
    <3>1. NextInLine(t) => target[t] >= ver[Home[t]]
      BY <2>v, StoreAssumption DEF NextInLine
    <3> QED BY <2>2, <2>v, <3>1 DEF ApplyOwn
  <2>3. ASSUME NEW t \in Task, Step(t) \/ CheckpointFails(t) \/ Abandon(t), ~ApplyOwn(t)
        PROVE  UNCHANGED ver
    BY <2>3 DEF Step, BuildRejects, BuildNothing, BuildWrites, EncodeCheckpoint, WriteBody,
       WritePointer, CatchUpAfterLoss, BeginCatchUp, CheckpointFails, Abandon, replica
  <2>4. ASSUME NEW r \in Replica, Open(r) \/ Refresh(r) \/ ReadCommits(r) \/ EndCatchUp(r)
        PROVE  UNCHANGED ver
    BY <2>4 DEF Open, Refresh, BeginCatchUp, ReadCommits, EndCatchUp
  <2>5. ASSUME NEW r \in Replica, ResolveCheckpoint(r) PROVE Advance
    <3>1. ver[r] = 0 /\ pointer >= 0
      BY <1>1, <2>5 DEF ResolveCheckpoint, IInv, TypeOK, LocksHeld
    <3> QED BY <2>5, <2>v, <3>1 DEF ResolveCheckpoint
  <2>6. ASSUME NEW r \in Replica, Replay(r) PROVE Advance
    <3>1. ver[r] + 1 >= ver[r]
      BY <2>v
    <3> QED BY <2>6, <2>v, <3>1 DEF Replay
  <2>7. ASSUME NEW r \in Replica, CatchUpFails(r) \/ Crash(r) PROVE Advance
    BY <1>1, <2>7, <2>v DEF CatchUpFails, Crash, IInv, TypeOK
  <2>8. ASSUME NEW m \in inflight, Land(m) \/ LandUnheard(m) \/ Refuse(m) \/ Collide(m)
      PROVE  UNCHANGED ver
    BY <2>8 DEF Land, LandUnheard, Refuse, Collide, replica
  <2>9. CASE UNCHANGED vars
    BY <2>9 DEF vars, replica
  <2>10. UNCHANGED ver => Advance
    BY <2>v
  <2> HIDE DEF Advance
  <2> QED BY <1>1, <2>1, <2>2, <2>3, <2>4, <2>5, <2>6, <2>7, <2>8, <2>9, <2>10
          DEF Next, CatchUpStep
<1> QED BY <1>1, StoreInvariant, PTL DEF Spec, VersionsAdvance

\* Replicas and calls that initialise the metastore together leave one row:
\* the losers' get_or_init runs again on the winner's state.
THEOREM SingleMetastore == Spec => []OneMetastore
<1>1. Init => OneMetastore
  BY DEF Init, OneMetastore, Unnamed, EmptySnapshot
<1>2. ASSUME IInv, OneMetastore, [Next]_vars PROVE OneMetastore'
  <2>1. ASSUME NEW m \in inflight, Created(m) PROVE OneMetastore'
    <3> DEFINE before == history[m.target - 1]
    <3>1. /\ m \in Put /\ m.target - 1 \in DOMAIN history
          /\ DOMAIN history' = DOMAIN history \cup {m.target}
          /\ \A v \in DOMAIN history : history'[v] = history[v]
          /\ history'[m.target] = Apply(before, m.action)
      BY <1>2, <2>1, CreatedExtends
    <3>2. before \in Snapshots /\ IndexMatches(before) /\ \A i, j \in Unnamed(before) : i = j
      BY <1>2, <3>1 DEF IInv, TypeOK, NamesUnique, OneMetastore
    <3>3. Accepts(before, req[m.task]) /\ m.action = Build(before, m.task, req[m.task])
      BY <1>2 DEF IInv, PutsBuiltOnState
    <3>4. m.task \in Task /\ req[m.task] \in Request /\ WellFormed(req[m.task])
      BY <1>2, <3>1, StoreAssumption DEF IInv, CallersKnown, Put
    <3>5. \A i, j \in Unnamed(history'[m.target]) : i = j
      BY <3>1, <3>2, <3>3, <3>4, BuildKeepsSingleton
    <3> QED BY <1>2, <3>1, <3>5 DEF OneMetastore
  <2>2. CASE UNCHANGED history
    BY <1>2, <2>2 DEF OneMetastore
  <2>3. UNCHANGED history \/ \E m \in inflight : Created(m)
    BY <1>2 DEF Next, vars, Call, Step, BuildRejects, BuildNothing, BuildWrites, ApplyOwn,
       EncodeCheckpoint, WriteBody, WritePointer, CatchUpAfterLoss, BeginCatchUp, CheckpointFails,
       Abandon, Open, Refresh, CatchUpStep, ResolveCheckpoint, ReadCommits, Replay, EndCatchUp,
       CatchUpFails, Crash, Land, LandUnheard, Refuse, Collide
  <2> QED BY <2>1, <2>2, <2>3
<1> QED BY <1>1, <1>2, StoreInvariant, PTL DEF Spec

=============================================================================
