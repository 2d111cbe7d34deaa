--------------------------- MODULE DeltaLog_proofs ---------------------------
(***************************************************************************)
(* The Delta logs for any number of tables, processes, requests, updates   *)
(* and faults and any page size: hints never run ahead of the log and only *)
(* advance, a commit is written once.  The facts about pages say when a    *)
(* paged listing has seen all there is.                                    *)
(***************************************************************************)
EXTENDS DeltaLog, FiniteSetTheorems, TLAPS

-----------------------------------------------------------------------------
(* Pages and maxima                                                        *)

\* A set of versions has a largest one, and MaxOf is it.
LEMMA MaxOfIs ==
  ASSUME NEW S \in SUBSET Version, S # {}
  PROVE  MaxOf(S) \in S /\ \A u \in S : u <= MaxOf(S)
BY VersionsBounded DEF MaxOf

LEMMA PageInLog ==
  ASSUME NEW b, NEW c
  PROVE  Page(b, c) \subseteq Versions(b)
BY DEF Page

\* Without negative versions the keys are in the order of the versions.
LEMMA KeyOrder ==
  ASSUME NEW u \in Nat, NEW v \in Nat
  PROVE  KeyBefore(u, v) <=> u < v
BY DEF KeyBefore

\* An empty page means that nothing lies beyond the cursor.
LEMMA EmptyPage ==
  ASSUME Version \subseteq Nat, NEW b, Versions(b) \subseteq Version,
         NEW c \in Nat \cup {NoVersion}, Page(b, c) = {}
  PROVE  \A v \in Versions(b) : c # NoVersion /\ v <= c
<1> DEFINE beyond == {v \in Versions(b) : c = NoVersion \/ KeyBefore(c, v)}
<1> SUFFICES ASSUME NEW x \in Versions(b), ~(c # NoVersion /\ x <= c)
             PROVE  FALSE
  OBVIOUS
<1>b. x \in Nat
  OBVIOUS
<1>0. c # NoVersion => c \in Nat /\ c < x
  BY <1>b
<1>1. x \in beyond
  BY <1>0, <1>b, KeyOrder
<1>2. PICK w \in beyond : \A u \in beyond : w <= u
  BY <1>1, VersionsBounded
<1>a. \A u \in beyond : u \in Nat
  OBVIOUS
<1>3. \A u \in beyond : ~KeyBefore(u, w)
  BY <1>2, <1>a, KeyOrder
<1>4. w \in Page(b, c)
  BY <1>2, <1>3, FS_EmptySet, DeltaAssumption DEF Page
<1> QED BY <1>4

\* A page is a first part of what lies beyond the cursor.
LEMMA PageIsPrefix ==
  ASSUME Version \subseteq Nat, NEW b, Versions(b) \subseteq Version, IsFiniteSet(Versions(b)),
         NEW c \in Nat \cup {NoVersion}, NEW w \in Page(b, c),
         NEW v \in Versions(b), c = NoVersion \/ c < v, v <= w
  PROVE  v \in Page(b, c)
<1> DEFINE beyond == {x \in Versions(b) : c = NoVersion \/ KeyBefore(c, x)}
           Below(x) == {u \in beyond : KeyBefore(u, x)}
<1>1. w \in beyond /\ Cardinality(Below(w)) < PageSize
  BY DEF Page
<1>2. v \in beyond
  BY KeyOrder, DeltaAssumption
<1>a. \A u \in beyond : u \in Nat
  OBVIOUS
<1>3. \A u \in beyond : KeyBefore(u, v) => KeyBefore(u, w)
  BY <1>1, <1>2, <1>a, KeyOrder
<1>4. IsFiniteSet(Below(w))
  BY FS_Subset
<1>b. Below(v) \subseteq Below(w)
  BY <1>3
<1>5. Cardinality(Below(v)) <= Cardinality(Below(w))
  BY <1>b, <1>4, FS_Subset
<1>6. Cardinality(Below(v)) \in Nat /\ Cardinality(Below(w)) \in Nat
  BY <1>b, <1>4, FS_Subset, FS_CardinalityType
<1> HIDE DEF Below, beyond
<1>7. Cardinality(Below(v)) < PageSize
  BY <1>1, <1>5, <1>6, DeltaAssumption
<1> QED BY <1>2, <1>7 DEF Page, Below, beyond

\* The last key of a page exists; it is the least version of a page that has
\* negative ones only.
LEMMA LastKeyExists ==
  ASSUME NEW S \in SUBSET Version, S # {}
  PROVE  LastKey(S) \in S
<1>0. \A u \in S : u \in Int
  BY DeltaAssumption
<1>1. PICK high \in S : \A u \in S : u <= high
  BY VersionsBounded
<1>2. PICK low \in S : \A u \in S : low <= u
  BY VersionsBounded
<1>3. CASE high < 0
  <2>1. \A u \in S \ {low} : KeyBefore(u, low)
    BY <1>0, <1>1, <1>2, <1>3 DEF KeyBefore
  <2> QED BY <2>1 DEF LastKey
<1>4. CASE high >= 0
  <2>1. \A u \in S \ {high} : KeyBefore(u, high)
    BY <1>0, <1>1, <1>4 DEF KeyBefore
  <2> QED BY <2>1 DEF LastKey
<1> QED BY <1>0, <1>3, <1>4

LEMMA LastKeyIs ==
  ASSUME Version \subseteq Nat, NEW S \in SUBSET Version, S # {}
  PROVE  LastKey(S) \in S /\ \A u \in S : u <= LastKey(S)
<1>1. PICK v \in S : \A u \in S : u <= v
  BY VersionsBounded
<1>2. \A u \in S \ {v} : KeyBefore(u, v)
  BY <1>1, KeyOrder
<1>a. \A u \in S : u \in Nat
  OBVIOUS
<1>3. LastKey(S) \in S /\ \A u \in S \ {LastKey(S)} : KeyBefore(u, LastKey(S))
  BY <1>1, <1>2 DEF LastKey
<1>4. ASSUME NEW u \in S \ {LastKey(S)} PROVE u <= LastKey(S)
  <2>1. u \in Nat /\ LastKey(S) \in Nat /\ KeyBefore(u, LastKey(S))
    BY <1>a, <1>3
  <2> QED BY <2>1, KeyOrder
<1> QED BY <1>a, <1>3, <1>4

-----------------------------------------------------------------------------
(* The log                                                                 *)

LEMMA InitLogInv == Init => LogInv
<1> SUFFICES ASSUME Init PROVE LogInv
  OBVIOUS
<1> USE DeltaAssumption DEF Init, Versions
<1>1. TypeOK
  BY DEF TypeOK, Maybe
<1>2. RequestsKnown
  BY FS_EmptySet DEF RequestsKnown
<1>3. WritesSound /\ ListingsInLog /\ HintsInLog
  BY DEF WritesSound, ListingsInLog, HintsInLog
<1> QED BY <1>1, <1>2, <1>3 DEF LogInv

\* A request that is under way has a table and well-formed updates.
LEMMA RequestType ==
  ASSUME NEW q \in Workload
  PROVE  /\ q.api \in {"update", "commit", "load", "get"}
         /\ q.table \in Table
         /\ q.starting \in Maybe /\ q.ending \in Maybe
         /\ q.updates \in Seq(Update)
         /\ \A i \in DOMAIN q.updates :
              /\ i \in Nat \ {0}
              /\ q.updates[i].op \in {"add", "mark", "meta"}
              /\ q.updates[i].op \in {"add", "mark"} => q.updates[i].version \in Version
<1>1. q \in Request
  BY DeltaAssumption
<1>2. \A i \in DOMAIN q.updates : i \in Nat \ {0} /\ q.updates[i] \in Update
  BY <1>1 DEF Request
<1> QED BY <1>1, <1>2 DEF Request, Update

LEMMA ReturnType ==
  ASSUME TypeOK, NEW t \in Task, NEW how \in {"ok", "conflict", "requirement", "unknown"},
         NEW v \in Maybe \cup {-1, 0}, Return(t, how, v)
  PROVE  /\ pc' \in [Task -> {"idle", "done"} \cup Running]
         /\ answer' \in [Task -> {"none", "ok", "conflict", "requirement", "unknown"}]
         /\ reply' \in [Task -> Maybe \cup {-1, 0}]
         /\ latest' \in [Task -> Maybe \cup {-1, 0}]
         /\ cursor' \in [Task -> Int \cup {NoVersion}]
         /\ found' \in [Task -> SUBSET Version]
BY DEF TypeOK, Return, Goto, Maybe

\* A step that sends nothing and that the log does not see.
LEMMA QuietStep ==
  ASSUME LogInv, TypeOK', ListingsInLog', HintsInLog', UNCHANGED log, inflight' \subseteq inflight,
         \A t \in Task :
           /\ pc[t] # "idle" => pc'[t] # "idle" /\ req'[t] = req[t]
           /\ pc'[t] # "idle" => req'[t] \in Workload
           /\ pc'[t] \in {"sent", "created"} => pc'[t] = pc[t] /\ at'[t] = at[t]
  PROVE  LogInv'
<1> USE DEF LogInv, RequestsKnown, Versions
<1>1. \A m \in inflight : m.task \in Task /\ req'[m.task] = req[m.task] /\ pc'[m.task] # "idle"
  BY DEF TypeOK
<1>2. \A b \in Table : \A v \in Versions(b) : log[b][v].by \in Task
  BY DEF TypeOK, Body
<1>3. RequestsKnown'
  BY <1>1, <1>2
<1>4. \A m \in inflight : UpdateOf(m)' = UpdateOf(m) /\ TableOf(m.task)' = TableOf(m.task)
  BY <1>1 DEF UpdateOf, TableOf
<1>5. \A t \in Task : pc'[t] = "created" =>
        pc[t] = "created" /\ Current(t)' = Current(t) /\ TableOf(t)' = TableOf(t)
  BY DEF Current, TableOf
<1>6. WritesSound'
  BY <1>4, <1>5 DEF WritesSound
<1> QED BY <1>3, <1>6

LEMMA CallLogInv ==
  ASSUME LogInv, NEW t \in Task, NEW q \in Workload, Call(t, q)
  PROVE  LogInv'
<1> USE DEF Call, Goto, bucket, outcome
<1>0. TypeOK /\ q.api \in {"update", "commit", "load", "get"} /\ q.table \in Table
      /\ q.starting \in Maybe
  BY RequestType DEF LogInv
<1>1. FirstStep(q) \in {"hint", "updates", "range"}
  BY <1>0 DEF FirstStep
<1>2. StartAfter(q) \in Int \cup {NoVersion}
  <2>1. q.starting # NoVersion => q.starting \in Int
    BY <1>0, DeltaAssumption DEF Maybe
  <2> QED BY <2>1 DEF StartAfter
<1>3. TypeOK'
  BY <1>0, <1>1, <1>2 DEF TypeOK, Running, Versions
<1>4. ListingsInLog'
  BY <1>0, <1>1 DEF LogInv, ListingsInLog, TypeOK, Versions, TableOf
<1>5. HintsInLog'
  BY DEF LogInv, HintsInLog, Versions
<1> QED BY <1>0, <1>1, <1>3, <1>4, <1>5, QuietStep DEF TypeOK, LogInv, RequestsKnown

\* Facts about a request that is under way.
LEMMA UnderWay ==
  ASSUME LogInv, NEW t \in Task, pc[t] # "idle"
  PROVE  /\ TypeOK /\ req[t] \in Workload
         /\ TableOf(t) \in Table /\ Home[t] \in Replica
         /\ Versions(TableOf(t)) \subseteq Version
         /\ req[t].api \in {"update", "commit", "load", "get"}
BY RequestType, DeltaAssumption DEF LogInv, RequestsKnown, TypeOK, TableOf, Versions

LEMMA ReadHintLogInv ==
  ASSUME LogInv, NEW t \in Task, ReadHint(t)
  PROVE  LogInv'
<1> USE DEF ReadHint, Goto, bucket, outcome
<1>0. /\ TypeOK /\ pc[t] # "idle" /\ TableOf(t) \in Table /\ Home[t] \in Replica
      /\ hint[Home[t]][TableOf(t)] \in Versions(TableOf(t)) \cup {NoVersion}
      /\ Versions(TableOf(t)) \subseteq Version
  BY UnderWay DEF LogInv, HintsInLog
<1>1. TypeOK'
  BY <1>0, DeltaAssumption DEF TypeOK, Running
<1>2. ListingsInLog'
  BY <1>0 DEF LogInv, ListingsInLog, TypeOK, Versions, TableOf
<1>3. HintsInLog'
  BY DEF LogInv, HintsInLog, Versions
<1> QED BY <1>0, <1>1, <1>2, <1>3, QuietStep DEF TypeOK, LogInv, RequestsKnown

\* What a step of a listing finds is in the log.
LEMMA ListOnLogInv ==
  ASSUME LogInv, NEW t \in Task, pc[t] \in {"beyond", "range"},
         NEW page, page = Page(TableOf(t), cursor[t]), page # {},
         ListOn(t, page),
         UNCHANGED <<bucket, hint, req, at, rows, outcome, present, faults>>
  PROVE  LogInv'
<1> USE DEF ListOn, bucket, outcome
<1>0. /\ TypeOK /\ pc[t] # "idle" /\ Versions(TableOf(t)) \subseteq Version
      /\ page \subseteq Versions(TableOf(t))
  BY UnderWay, PageInLog
<1>1. NextCursor(t, page) \in Int
  <2>1. page \in SUBSET Version /\ Version \subseteq Int
    BY <1>0, DeltaAssumption
  <2> QED BY <2>1, <1>0, LastKeyExists DEF NextCursor
<1>2. TypeOK'
  BY <1>0, <1>1 DEF TypeOK
<1>3. ListingsInLog'
  BY <1>0 DEF LogInv, ListingsInLog, TypeOK, Versions, TableOf
<1>4. HintsInLog'
  BY DEF LogInv, HintsInLog, Versions
<1> QED BY <1>0, <1>2, <1>3, <1>4, QuietStep DEF TypeOK, LogInv, RequestsKnown

LEMMA ListBeyondLogInv ==
  ASSUME LogInv, NEW t \in Task, ListBeyond(t)
  PROVE  LogInv'
<1> DEFINE page == Page(TableOf(t), cursor[t])
           all == found[t] \cup page
           result == IF all = {} THEN cursor[t] ELSE MaxOf(all)
<1> USE DEF Goto, bucket, outcome
<1>0. /\ TypeOK /\ pc[t] = "beyond" /\ Versions(TableOf(t)) \subseteq Version
      /\ page \subseteq Versions(TableOf(t)) /\ all \subseteq Versions(TableOf(t))
  BY UnderWay, PageInLog DEF ListBeyond, LogInv, ListingsInLog
<1>1. CASE page # {}
  BY <1>0, <1>1, ListOnLogInv DEF ListBeyond, IsLast
<1>2. CASE page = {}
  <2>1. /\ latest' = [latest EXCEPT ![t] = result]
        /\ top' = [top EXCEPT ![t] = result]
        /\ found' = [found EXCEPT ![t] = {}]
        /\ cursor' = [cursor EXCEPT ![t] = NoVersion]
        /\ pc' = [pc EXCEPT ![t] = "keep"]
        /\ UNCHANGED <<bucket, hint, req, at, rows, outcome, present, faults>>
    BY <1>2 DEF ListBeyond, IsLast
  <2>2. result \in Versions(TableOf(t)) \cup {NoVersion}
    <3>1. CASE all = {}
      BY <1>0, <3>1 DEF LogInv, ListingsInLog
    <3>2. CASE all # {}
      BY <1>0, <3>2, MaxOfIs
    <3> QED BY <3>1, <3>2
  <2> HIDE DEF result
  <2>3. TypeOK'
    BY <1>0, <2>1, <2>2 DEF TypeOK, Running, Maybe
  <2>4. ListingsInLog'
    BY <1>0, <2>1, <2>2 DEF LogInv, ListingsInLog, TypeOK, Versions, TableOf
  <2>5. HintsInLog'
    BY <2>1 DEF LogInv, HintsInLog, Versions
  <2> QED BY <1>0, <2>1, <2>3, <2>4, <2>5, QuietStep DEF TypeOK, LogInv, RequestsKnown
<1> QED BY <1>1, <1>2

\* Raising a hint to a version of the log keeps the hints in it.
LEMMA RaiseHintInLog ==
  ASSUME LogInv, NEW r \in Replica, NEW b \in Table, NEW v \in Versions(b),
         RaiseHint(r, b, v)
  PROVE  /\ hint' \in [Replica -> [Table -> Maybe]]
         /\ \A s \in Replica, c \in Table : hint'[s][c] \in Versions(c) \cup {NoVersion}
BY DEF LogInv, HintsInLog, TypeOK, RaiseHint, Raise, HintsOf, Versions, Maybe

\* A request that ends.
LEMMA ReturnLogInv ==
  ASSUME LogInv, NEW t \in Task, pc[t] # "idle",
         NEW how \in {"ok", "conflict", "requirement", "unknown"},
         NEW v \in Maybe \cup {-1, 0}, Return(t, how, v),
         inflight' \subseteq inflight,
         UNCHANGED <<log, metadata, unheard, req, at, rows, top, present>>,
         hint' \in [Replica -> [Table -> Maybe]], HintsInLog',
         faults' \in 0..MaxFaults
  PROVE  LogInv'
<1>0. TypeOK /\ req[t] \in Workload
  BY UnderWay
<1>1. TypeOK'
  BY <1>0, ReturnType DEF TypeOK
<1>2. pc' = [pc EXCEPT ![t] = "done"] /\ answer' = [answer EXCEPT ![t] = how]
      /\ latest' = [latest EXCEPT ![t] = NoVersion]
      /\ cursor' = [cursor EXCEPT ![t] = NoVersion]
      /\ found' = [found EXCEPT ![t] = {}]
  BY DEF Return, Goto
<1>3. ListingsInLog'
  BY <1>0, <1>2 DEF LogInv, ListingsInLog, TypeOK, Versions, TableOf
<1> QED BY <1>0, <1>1, <1>2, <1>3, QuietStep DEF TypeOK, LogInv, RequestsKnown

LEMMA KeepHintLogInv ==
  ASSUME LogInv, NEW t \in Task, KeepHint(t)
  PROVE  LogInv'
<1> DEFINE known == IF latest[t] = NoVersion THEN WhenEmpty(t) ELSE latest[t]
<1> USE DEF bucket
<1>0. /\ TypeOK /\ pc[t] = "keep" /\ TableOf(t) \in Table /\ Home[t] \in Replica
      /\ latest[t] \in Versions(TableOf(t)) \cup {NoVersion}
      /\ Versions(TableOf(t)) \subseteq Version
  BY UnderWay DEF KeepHint, LogInv, ListingsInLog
<1>1. known \in Maybe \cup {-1, 0}
  BY <1>0 DEF Maybe, WhenEmpty
<1>2. /\ hint' \in [Replica -> [Table -> Maybe]]
      /\ \A s \in Replica, c \in Table : hint'[s][c] \in Versions(c) \cup {NoVersion}
  BY <1>0, RaiseHintInLog DEF KeepHint, LogInv, TypeOK, HintsInLog
<1>3. HintsInLog'
  BY <1>2 DEF KeepHint, HintsInLog, Versions
<1> HIDE DEF known
<1>4. CASE req[t].api = "update" /\ RequirementsMet(t)
  <2>1. /\ latest' = [latest EXCEPT ![t] = known]
        /\ pc' = [pc EXCEPT ![t] = "updates"]
        /\ UNCHANGED <<bucket, req, at, cursor, found, rows, top, outcome, present, faults>>
    BY <1>4 DEF KeepHint, Goto, known
  <2>2. TypeOK'
    BY <1>0, <1>1, <1>2, <2>1 DEF TypeOK, Running, outcome
  <2>3. ListingsInLog'
    BY <1>0, <2>1 DEF LogInv, ListingsInLog, TypeOK, Versions, TableOf, outcome
  <2> QED BY <1>0, <1>3, <2>1, <2>2, <2>3, QuietStep DEF TypeOK, LogInv, RequestsKnown
<1>5. CASE ~(req[t].api = "update" /\ RequirementsMet(t))
  <2>1. PICK how \in {"ok", "requirement"}, v \in {NoVersion, known} : Return(t, how, v)
    BY <1>5 DEF KeepHint, known
  <2>2. v \in Maybe \cup {-1, 0} /\ faults' \in 0..MaxFaults
    BY <1>0, <1>1 DEF KeepHint, TypeOK, Maybe
  <2>3. UNCHANGED <<log, inflight, metadata, unheard, req, at, rows, top, present>>
    BY DEF KeepHint
  <2> QED BY <1>0, <1>2, <1>3, <2>1, <2>2, <2>3, ReturnLogInv
<1> QED BY <1>4, <1>5

LEMMA ListRangeLogInv ==
  ASSUME LogInv, NEW t \in Task, ListRange(t)
  PROVE  LogInv'
<1> DEFINE page == Page(TableOf(t), cursor[t])
           past == {v \in page : req[t].ending # NoVersion /\ KeyBefore(req[t].ending, v)}
           all == found[t] \cup (page \ past)
<1> USE DEF Goto, bucket, outcome
<1>0. /\ TypeOK /\ pc[t] = "range" /\ Versions(TableOf(t)) \subseteq Version
      /\ page \subseteq Versions(TableOf(t)) /\ all \subseteq Versions(TableOf(t))
  BY UnderWay, PageInLog DEF ListRange, LogInv, ListingsInLog
<1>1. CASE ~(page = {} \/ past # {})
  BY <1>0, <1>1, ListOnLogInv DEF ListRange, IsLast
<1>2. CASE page = {} \/ past # {}
  <2>1. PICK result \in SUBSET all :
          /\ rows' = [rows EXCEPT ![t] = result]
          /\ found' = [found EXCEPT ![t] = {}]
          /\ cursor' = [cursor EXCEPT ![t] = NoVersion]
          /\ pc' = [pc EXCEPT ![t] = "hint"]
          /\ UNCHANGED <<bucket, hint, req, at, latest, top, outcome, present, faults>>
    BY <1>2 DEF ListRange, IsLast
  <2> HIDE DEF all
  <2>2. result \in SUBSET Version /\ result \subseteq Versions(TableOf(t))
    BY <1>0, <2>1
  <2>3. TypeOK'
    BY <1>0, <2>1, <2>2 DEF TypeOK, Running
  <2>4. ListingsInLog'
    BY <1>0, <2>1, <2>2 DEF LogInv, ListingsInLog, TypeOK, Versions, TableOf
  <2>5. HintsInLog'
    BY <2>1 DEF LogInv, HintsInLog, Versions
  <2> QED BY <1>0, <2>1, <2>3, <2>4, <2>5, QuietStep DEF TypeOK, LogInv, RequestsKnown
<1> QED BY <1>1, <1>2

\* The update a handler is at is one of its request's.
LEMMA AtUpdateType ==
  ASSUME LogInv, NEW t \in Task, NEW op \in {"add", "mark", "meta"}, AtUpdate(t, op)
  PROVE  /\ pc[t] = "updates" /\ at[t] \in DOMAIN req[t].updates
         /\ Current(t) = req[t].updates[at[t]] /\ Current(t).op = op
         /\ op # "meta" => Current(t).version \in Version
<1>1. req[t] \in Workload /\ TypeOK /\ pc[t] = "updates"
  BY UnderWay DEF AtUpdate
<1>2. /\ req[t].updates \in Seq(Update)
      /\ \A i \in DOMAIN req[t].updates :
           req[t].updates[i].op \in {"add", "mark"} => req[t].updates[i].version \in Version
  BY <1>1, RequestType
<1>3. at[t] \in DOMAIN req[t].updates
  BY <1>1, <1>2 DEF AtUpdate, TypeOK
<1> QED BY <1>1, <1>2, <1>3 DEF AtUpdate, Current

\* Steps that only move a handler on to its next update or to its listing.
LEMMA MoveOnLogInv ==
  ASSUME LogInv, NEW t \in Task, pc[t] # "idle",
         NEW label \in {"updates", "hint"}, pc' = [pc EXCEPT ![t] = label],
         at' = at \/ at' = [at EXCEPT ![t] = @ + 1],
         latest' \in [Task -> Maybe \cup {-1, 0}],
         \A s \in Task \ {t} : latest'[s] = latest[s],
         inflight' \subseteq inflight, metadata' \subseteq Task \X (Nat \ {0}),
         UNCHANGED <<log, unheard, req, cursor, found, rows, top, outcome, present, faults>>,
         hint' \in [Replica -> [Table -> Maybe]], HintsInLog'
  PROVE  LogInv'
<1> USE DEF outcome
<1>0. TypeOK /\ req[t] \in Workload
  BY UnderWay
<1>1. TypeOK'
  BY <1>0 DEF TypeOK, Running
<1>2. ListingsInLog'
  BY <1>0 DEF LogInv, ListingsInLog, TypeOK, Versions, TableOf
<1> QED BY <1>0, <1>1, <1>2, QuietStep DEF TypeOK, LogInv, RequestsKnown

LEMMA MarkNothingLogInv ==
  ASSUME LogInv, NEW t \in Task, MarkNothing(t)
  PROVE  LogInv'
<1>1. HintsInLog' /\ hint' \in [Replica -> [Table -> Maybe]] /\ latest' \in [Task -> Maybe \cup {-1, 0}]
  BY DEF MarkNothing, bucket, LogInv, HintsInLog, Versions, TypeOK
<1>2. metadata' \subseteq Task \X (Nat \ {0}) /\ inflight' \subseteq inflight
  BY DEF MarkNothing, bucket, LogInv, TypeOK
<1> QED BY <1>1, <1>2, MoveOnLogInv DEF MarkNothing, NextUpdate, Goto, AtUpdate, bucket

LEMMA AppendedLogInv ==
  ASSUME LogInv, NEW t \in Task, Appended(t)
  PROVE  LogInv'
<1>0. /\ TypeOK /\ pc[t] = "created" /\ TableOf(t) \in Table /\ Home[t] \in Replica
      /\ Current(t).version \in Versions(TableOf(t))
      /\ Current(t).version \in Version
  BY UnderWay DEF Appended, LogInv, WritesSound
<1>1. /\ hint' \in [Replica -> [Table -> Maybe]]
      /\ \A s \in Replica, c \in Table : hint'[s][c] \in Versions(c) \cup {NoVersion}
  BY <1>0, RaiseHintInLog DEF Appended
<1>2. HintsInLog'
  BY <1>1 DEF Appended, HintsInLog, Versions, bucket
<1>3. latest' \in [Task -> Maybe \cup {-1, 0}] /\ \A s \in Task \ {t} : latest'[s] = latest[s]
  BY <1>0 DEF Appended, TypeOK, Maybe
<1>4. metadata' \subseteq Task \X (Nat \ {0}) /\ inflight' \subseteq inflight
  BY <1>0 DEF Appended, bucket, TypeOK
<1> QED BY <1>0, <1>1, <1>2, <1>3, <1>4, MoveOnLogInv DEF Appended, NextUpdate, Goto, bucket

LEMMA UpdatesDoneLogInv ==
  ASSUME LogInv, NEW t \in Task, UpdatesDone(t)
  PROVE  LogInv'
<1>0. TypeOK /\ pc[t] = "updates" /\ latest[t] \in Maybe \cup {-1, 0}
  BY DEF UpdatesDone, LogInv, TypeOK
<1>1. /\ HintsInLog' /\ hint' \in [Replica -> [Table -> Maybe]] /\ faults' \in 0..MaxFaults
      /\ UNCHANGED <<log, inflight, metadata, unheard, req, at, rows, top, present>>
  BY <1>0 DEF UpdatesDone, bucket, LogInv, HintsInLog, Versions, TypeOK
<1>2. CASE req[t].api = "update"
  BY <1>0, <1>1, <1>2, ReturnLogInv DEF UpdatesDone
<1>3. CASE req[t].api # "update"
  BY <1>0, <1>1, <1>3, MoveOnLogInv DEF UpdatesDone, Goto, TypeOK
<1> QED BY <1>2, <1>3

\* A refused or abandoned request.
LEMMA RejectAddLogInv ==
  ASSUME LogInv, NEW t \in Task, RejectAdd(t)
  PROVE  LogInv'
<1>1. /\ HintsInLog' /\ hint' \in [Replica -> [Table -> Maybe]] /\ faults' \in 0..MaxFaults
      /\ UNCHANGED <<log, inflight, metadata, unheard, req, at, rows, top, present>>
      /\ pc[t] # "idle" /\ NoVersion \in Maybe
  BY DEF RejectAdd, AtUpdate, bucket, LogInv, HintsInLog, Versions, TypeOK, Maybe
<1> QED BY <1>1, ReturnLogInv DEF RejectAdd

LEMMA AbandonLogInv ==
  ASSUME LogInv, NEW t \in Task, Abandon(t)
  PROVE  LogInv'
<1>1. /\ HintsInLog' /\ hint' \in [Replica -> [Table -> Maybe]] /\ faults' \in 0..MaxFaults
      /\ UNCHANGED <<log, inflight, metadata, unheard, req, at, rows, top, present>>
      /\ pc[t] # "idle" /\ NoVersion \in Maybe
  BY DeltaAssumption
     DEF Abandon, Running, Fault, bucket, LogInv, HintsInLog, Versions, TypeOK, Maybe
<1> QED BY <1>1, ReturnLogInv DEF Abandon

LEMMA RestartLogInv ==
  ASSUME LogInv, NEW r \in Replica, Restart(r)
  PROVE  LogInv'
<1> DEFINE lost == {t \in Task : Home[t] = r /\ pc[t] \in Running}
<1>0. /\ TypeOK
      /\ faults' \in 0..MaxFaults
      /\ hint' = [hint EXCEPT ![r] = [b \in Table |-> NoVersion]]
      /\ pc' = [t \in Task |-> IF t \in lost THEN "done" ELSE pc[t]]
      /\ answer' = [t \in Task |-> IF t \in lost THEN "unknown" ELSE answer[t]]
      /\ latest' = [t \in Task |-> IF t \in lost THEN NoVersion ELSE latest[t]]
      /\ cursor' = [t \in Task |-> IF t \in lost THEN NoVersion ELSE cursor[t]]
      /\ found' = [t \in Task |-> IF t \in lost THEN {} ELSE found[t]]
      /\ UNCHANGED <<log, inflight, metadata, unheard, req, at, rows, top, reply, present>>
  BY DeltaAssumption DEF Restart, Fault, LogInv, TypeOK, bucket
<1>a. \A t \in lost : pc[t] \notin {"idle", "done"}
  BY DEF Running
<1> HIDE DEF lost
<1>1. TypeOK'
  BY <1>0 DEF TypeOK, Maybe
<1>2. ListingsInLog'
  BY <1>0, <1>a DEF LogInv, ListingsInLog, TypeOK, Versions, TableOf
<1>3. HintsInLog'
  BY <1>0 DEF LogInv, HintsInLog, TypeOK, Versions
<1> QED BY <1>0, <1>a, <1>1, <1>2, <1>3, QuietStep DEF TypeOK, LogInv, RequestsKnown

\* A handler sends the write of the update it is at.
LEMMA SendLogInv ==
  ASSUME LogInv, NEW t \in Task, NEW op \in {"add", "mark", "meta"}, AtUpdate(t, op),
         NEW body \in Body \cup {NoBody}, Send(t, body),
         op = "add" => body = [by |-> t, step |-> at[t], flag |-> FALSE],
         op = "mark" => /\ Current(t).version \in Versions(TableOf(t))
                        /\ body = [log[TableOf(t)][Current(t).version] EXCEPT !.flag = TRUE]
  PROVE  LogInv'
<1> DEFINE m == [task |-> t, step |-> at[t], body |-> body]
<1>0. /\ TypeOK /\ pc[t] = "updates" /\ at[t] \in DOMAIN req[t].updates
      /\ Current(t) = req[t].updates[at[t]] /\ Current(t).op = op
      /\ at[t] \in Nat \ {0}
  BY AtUpdateType DEF LogInv, TypeOK
<1>1. /\ inflight' = inflight \cup {m}
      /\ pc' = [pc EXCEPT ![t] = "sent"]
      /\ UNCHANGED <<log, metadata, unheard, hint, req, at, latest, cursor, found, rows, top,
                     outcome, present, faults>>
  BY DEF Send, Goto, locals
<1>2. TypeOK'
  BY <1>0, <1>1 DEF TypeOK, Running, outcome
<1>3. RequestsKnown'
  BY <1>0, <1>1 DEF LogInv, RequestsKnown, TypeOK, Versions, Body
<1>4. WritesSound'
  <2>1. ASSUME NEW n \in inflight'
        PROVE  /\ UpdateOf(n).op = "add" =>
                    n.body = [by |-> n.task, step |-> n.step, flag |-> FALSE]
               /\ UpdateOf(n).op = "mark" =>
                    /\ UpdateOf(n).version \in Versions(TableOf(n.task))
                    /\ n.body = [log[TableOf(n.task)][UpdateOf(n).version] EXCEPT !.flag = TRUE]
    <3>1. CASE n \in inflight
      BY <3>1 DEF LogInv, WritesSound
    <3>2. CASE n = m
      BY <1>0, <3>2 DEF UpdateOf
    <3> QED BY <1>1, <2>1, <3>1, <3>2
  <2>2. \A n : UpdateOf(n)' = UpdateOf(n) /\ TableOf(n.task)' = TableOf(n.task)
    BY <1>1 DEF UpdateOf, TableOf
  <2>3. \A s \in Task : pc'[s] = "created" =>
          pc[s] = "created" /\ Current(s)' = Current(s) /\ TableOf(s)' = TableOf(s)
    BY <1>0, <1>1 DEF Current, TableOf, TypeOK
  <2> QED BY <1>1, <2>1, <2>2, <2>3 DEF LogInv, WritesSound, Versions
<1>5. ListingsInLog'
  BY <1>0, <1>1 DEF LogInv, ListingsInLog, TypeOK, Versions, TableOf, outcome
<1>6. HintsInLog'
  BY <1>1 DEF LogInv, HintsInLog, Versions
<1> QED BY <1>2, <1>3, <1>4, <1>5, <1>6 DEF LogInv

LEMMA SendsLogInv ==
  ASSUME LogInv, NEW t \in Task, SendAdd(t) \/ SendMark(t) \/ SendMeta(t)
  PROVE  LogInv'
<1>1. CASE SendAdd(t)
  <2>1. [by |-> t, step |-> at[t], flag |-> FALSE] \in Body
    BY DEF LogInv, TypeOK, Body
  <2> QED BY <1>1, <2>1, SendLogInv DEF SendAdd
<1>2. CASE SendMark(t)
  <2>1. /\ TableOf(t) \in Table /\ Current(t).version \in Versions(TableOf(t))
        /\ AtUpdate(t, "mark")
    BY <1>2, UnderWay DEF SendMark, AtUpdate
  <2>2. log[TableOf(t)][Current(t).version] \in Body
    BY <2>1 DEF LogInv, TypeOK, Versions
  <2>3. Latch(log[TableOf(t)][Current(t).version]) \in Body
    BY <2>2 DEF Latch, Body
  <2> QED BY <1>2, <2>1, <2>3, SendLogInv DEF SendMark, Latch
<1>3. CASE SendMeta(t)
  BY <1>3, SendLogInv DEF SendMeta
<1> QED BY <1>1, <1>2, <1>3

\* Facts about a write in flight.
LEMMA InFlight ==
  ASSUME LogInv, NEW m \in inflight
  PROVE  /\ TypeOK /\ m.task \in Task /\ m.step \in Nat \ {0} /\ m.body \in Body \cup {NoBody}
         /\ req[m.task] \in Workload /\ pc[m.task] # "idle" /\ TableOf(m.task) \in Table
         /\ UpdateOf(m).op \in {"add", "mark", "meta"}
         /\ UpdateOf(m).op \in {"add", "mark"} => UpdateOf(m).version \in Version
         /\ UpdateOf(m).op = "add" => m.body = [by |-> m.task, step |-> m.step, flag |-> FALSE]
         /\ UpdateOf(m).op = "mark" =>
              /\ UpdateOf(m).version \in Versions(TableOf(m.task))
              /\ m.body = [log[TableOf(m.task)][UpdateOf(m).version] EXCEPT !.flag = TRUE]
<1>1. m.task \in Task /\ m.step \in Nat \ {0} /\ m.body \in Body \cup {NoBody} /\ TypeOK
  BY DEF LogInv, TypeOK
<1>2. pc[m.task] # "idle" /\ req[m.task] \in Workload /\ m.step \in DOMAIN req[m.task].updates
  BY <1>1 DEF LogInv, RequestsKnown
<1>3. /\ UpdateOf(m).op \in {"add", "mark", "meta"} /\ TableOf(m.task) \in Table
      /\ UpdateOf(m).op \in {"add", "mark"} => UpdateOf(m).version \in Version
  BY <1>2, RequestType DEF UpdateOf, TableOf
<1> QED BY <1>1, <1>2, <1>3 DEF LogInv, WritesSound

LEMMA BodyType ==
  /\ \A t \in Task, i \in Nat \ {0} : [by |-> t, step |-> i, flag |-> FALSE] \in Body
  /\ \A x \in Body : [x EXCEPT !.flag = TRUE] \in Body
BY DEF Body

\* A write that lands adds its version, or sets the latch of one that is there.
LEMMA WriteIs ==
  ASSUME LogInv, NEW m \in inflight, UpdateOf(m).op \in {"add", "mark"},
         UpdateOf(m).op = "add" => KeyIsFree(m), Write(m)
  PROVE  /\ DOMAIN log' = Table
         /\ \A b \in Table :
              /\ Versions(b)' = IF b = TableOf(m.task) THEN Versions(b) \cup {UpdateOf(m).version}
                                ELSE Versions(b)
              /\ \A u \in Versions(b) :
                   log'[b][u] \in {log[b][u], [log[b][u] EXCEPT !.flag = TRUE]}
              /\ \A u \in Versions(b)' \ Versions(b) : log'[b][u] = m.body
              /\ \A u \in Versions(b)' : log'[b][u] \in Body
              /\ IsFiniteSet(Versions(b)')
         /\ \A b \in Table : \A u \in Versions(b) :
              [log'[b][u] EXCEPT !.flag = TRUE] = [log[b][u] EXCEPT !.flag = TRUE]
<1> DEFINE b0 == TableOf(m.task)
           v0 == UpdateOf(m).version
<1>0. /\ TypeOK /\ b0 \in Table /\ v0 \in Version /\ DOMAIN log = Table
      /\ m.task \in Task /\ m.step \in Nat \ {0}
      /\ \A b \in Table : \A u \in Versions(b) : log[b][u] \in Body
      /\ \A b \in Table : IsFiniteSet(Versions(b))
  BY InFlight DEF TypeOK, Versions, LogInv, RequestsKnown
<1>1. log' = [log EXCEPT ![b0] =
                [u \in Versions(b0) \cup {v0} |-> IF u = v0 THEN m.body ELSE log[b0][u]]]
  BY DEF Write
<1>2. v0 \in Versions(b0) => UpdateOf(m).op = "mark" /\ m.body = [log[b0][v0] EXCEPT !.flag = TRUE]
  BY InFlight DEF KeyIsFree
<1>3. v0 \notin Versions(b0) => m.body = [by |-> m.task, step |-> m.step, flag |-> FALSE]
  BY InFlight
<1>4. m.body \in Body
  <2>1. CASE v0 \in Versions(b0)
    <3>1. log[b0][v0] \in Body
      BY <1>0, <2>1
    <3> QED BY <3>1, <1>2, <2>1, BodyType
  <2>2. CASE v0 \notin Versions(b0)
    <3>1. m.task \in Task /\ m.step \in Nat \ {0}
      BY <1>0
    <3> QED BY <3>1, <1>3, <2>2, BodyType
  <2> QED BY <2>1, <2>2
<1>5. \A b \in Table : Versions(b)' = IF b = b0 THEN Versions(b) \cup {v0} ELSE Versions(b)
  BY <1>0, <1>1 DEF Versions
<1>6. /\ \A b \in Table \ {b0} : \A u \in Versions(b) : log'[b][u] = log[b][u]
      /\ \A u \in Versions(b0) \ {v0} : log'[b0][u] = log[b0][u]
      /\ log'[b0][v0] = m.body
  BY <1>0, <1>1
<1>7. ASSUME NEW b \in Table PROVE IsFiniteSet(Versions(b)')
  <2>1. IsFiniteSet(Versions(b))
    BY <1>0
  <2>2. IsFiniteSet(Versions(b) \cup {v0})
    BY <2>1, FS_AddElement
  <2>3. Versions(b)' \in {Versions(b), Versions(b) \cup {v0}}
    BY <1>5
  <2> HIDE DEF v0
  <2> QED BY <2>1, <2>2, <2>3
<1>8. \A b \in Table : \A u \in Versions(b) :
        log'[b][u] \in {log[b][u], [log[b][u] EXCEPT !.flag = TRUE]}
  BY <1>0, <1>2, <1>6
<1>9. \A b \in Table : \A u \in Versions(b)' \ Versions(b) : log'[b][u] = m.body
  BY <1>0, <1>5, <1>6
<1>10. \A b \in Table : \A u \in Versions(b) :
        [log'[b][u] EXCEPT !.flag = TRUE] = [log[b][u] EXCEPT !.flag = TRUE]
  BY <1>0, <1>8 DEF Body
<1>11. \A b \in Table : \A u \in Versions(b)' : log'[b][u] \in Body
  <2> SUFFICES ASSUME NEW b \in Table, NEW u \in Versions(b)' PROVE log'[b][u] \in Body
    OBVIOUS
  <2>1. CASE u \in Versions(b)
    <3>1. log[b][u] \in Body /\ log'[b][u] \in {log[b][u], [log[b][u] EXCEPT !.flag = TRUE]}
      BY <1>0, <1>8, <2>1
    <3> QED BY <3>1, BodyType
  <2>2. CASE u \notin Versions(b)
    BY <1>4, <1>9, <2>2
  <2> QED BY <2>1, <2>2
<1>12. DOMAIN log' = Table
  BY <1>0, <1>1
<1> HIDE DEF b0, v0
<1> QED BY <1>5, <1>7, <1>8, <1>9, <1>10, <1>11, <1>12 DEF b0, v0

LEMMA WriteLogInv ==
  ASSUME LogInv, NEW m \in inflight, UpdateOf(m).op \in {"add", "mark"},
         UpdateOf(m).op = "add" => KeyIsFree(m), Write(m),
         inflight' \subseteq inflight, faults' \in 0..MaxFaults,
         unheard' \subseteq Task \X (Nat \ {0}),
         UNCHANGED <<metadata, hint, req, latest, cursor, found, rows, top, outcome, present>>,
         \/ UNCHANGED <<pc, at>>
         \/ /\ Waiting(m) /\ UpdateOf(m).op = "add"
            /\ pc' = [pc EXCEPT ![m.task] = "created"] /\ at' = at
         \/ /\ Waiting(m)
            /\ pc' = [pc EXCEPT ![m.task] = "updates"]
            /\ at' = [at EXCEPT ![m.task] = @ + 1]
  PROVE  LogInv'
<1> USE DEF outcome
<1>0. /\ TypeOK /\ m.task \in Task /\ req[m.task] \in Workload /\ pc[m.task] # "idle"
      /\ TableOf(m.task) \in Table /\ UpdateOf(m).version \in Version
      /\ UpdateOf(m).op = "add" => m.body = [by |-> m.task, step |-> m.step, flag |-> FALSE]
      /\ UpdateOf(m).op = "mark" => UpdateOf(m).version \in Versions(TableOf(m.task))
  BY InFlight
<1>1. /\ \A b \in Table : /\ Versions(b) \subseteq Versions(b)' /\ Versions(b)' \subseteq Version
                          /\ \A u \in Versions(b)' : log'[b][u] \in Body
      /\ DOMAIN log' = Table
  <2>1. \A b \in Table : Versions(b) \subseteq Version
    BY <1>0 DEF TypeOK, Versions
  <2> QED BY <1>0, <2>1, WriteIs
<1>2. TypeOK'
  BY <1>0, <1>1 DEF TypeOK, Running, Versions
<1>3. \A t \in Task : pc[t] # "idle" => pc'[t] # "idle"
  BY <1>0 DEF TypeOK
<1>4. RequestsKnown'
  <2>1. \A b \in Table : \A u \in Versions(b)' : pc'[log'[b][u].by] # "idle"
    <3> SUFFICES ASSUME NEW b \in Table, NEW u \in Versions(b)'
                 PROVE  pc'[log'[b][u].by] # "idle"
      OBVIOUS
    <3>1. CASE u \in Versions(b)
      <4>1. log[b][u] \in Body /\ pc[log[b][u].by] # "idle"
        BY <1>0, <3>1 DEF LogInv, RequestsKnown, TypeOK, Versions
      <4>2. log'[b][u].by = log[b][u].by /\ log[b][u].by \in Task
        BY <4>1, <3>1, WriteIs DEF Body
      <4> QED BY <4>1, <4>2, <1>3
    <3>2. CASE u \notin Versions(b)
      <4>1. UpdateOf(m).op = "add" /\ log'[b][u] = m.body
        BY <1>0, <3>2, WriteIs
      <4> QED BY <1>0, <1>3, <4>1
    <3> QED BY <3>1, <3>2
  <2>2. \A b \in Table : IsFiniteSet(Versions(b)')
    BY WriteIs
  <2>3. \A t \in Task : /\ pc'[t] # "idle" => req'[t] \in Workload
                        /\ pc'[t] \in {"sent", "created"} => at'[t] \in DOMAIN req'[t].updates
    BY <1>0 DEF LogInv, RequestsKnown, TypeOK, Waiting
  <2>4. \A n \in inflight' : pc'[n.task] # "idle" /\ n.step \in DOMAIN req'[n.task].updates
    BY <1>0, <1>3 DEF LogInv, RequestsKnown, TypeOK
  <2> QED BY <2>1, <2>2, <2>3, <2>4 DEF RequestsKnown, Versions
<1>5. WritesSound'
  <2>1. \A n : UpdateOf(n)' = UpdateOf(n) /\ TableOf(n.task)' = TableOf(n.task)
    BY DEF UpdateOf, TableOf
  <2>2. ASSUME NEW n \in inflight'
        PROVE  /\ UpdateOf(n).op = "add" =>
                    n.body = [by |-> n.task, step |-> n.step, flag |-> FALSE]
               /\ UpdateOf(n).op = "mark" =>
                    /\ UpdateOf(n).version \in DOMAIN log'[TableOf(n.task)]
                    /\ n.body = [log'[TableOf(n.task)][UpdateOf(n).version] EXCEPT !.flag = TRUE]
    <3>1. /\ n \in inflight /\ TableOf(n.task) \in Table
          /\ UpdateOf(n).op = "add" =>
               n.body = [by |-> n.task, step |-> n.step, flag |-> FALSE]
      BY InFlight
    <3>2. ASSUME UpdateOf(n).op = "mark"
          PROVE  /\ UpdateOf(n).version \in DOMAIN log'[TableOf(n.task)]
                 /\ n.body = [log'[TableOf(n.task)][UpdateOf(n).version] EXCEPT !.flag = TRUE]
      <4> DEFINE b == TableOf(n.task)
                 u == UpdateOf(n).version
      <4>1. u \in Versions(b) /\ n.body = [log[b][u] EXCEPT !.flag = TRUE] /\ b \in Table
        BY <3>1, <3>2, InFlight
      <4> HIDE DEF b, u
      <4>2. [log'[b][u] EXCEPT !.flag = TRUE] = [log[b][u] EXCEPT !.flag = TRUE]
        BY <4>1, WriteIs
      <4>3. u \in DOMAIN log'[b]
        BY <1>1, <4>1 DEF Versions
      <4> QED BY <4>1, <4>2, <4>3 DEF b, u
    <3> QED BY <3>1, <3>2
  <2>3. ASSUME NEW t \in Task, pc'[t] = "created"
        PROVE  /\ Current(t)' = Current(t)
               /\ Current(t).op = "add"
               /\ Current(t).version \in DOMAIN log'[TableOf(t)]
    <3>1. CASE pc[t] = "created"
      <4>1. /\ Current(t).op = "add" /\ Current(t).version \in Versions(TableOf(t))
            /\ TableOf(t) \in Table
        BY <3>1, UnderWay DEF LogInv, WritesSound
      <4>2. at'[t] = at[t]
        BY <1>0, <2>3, <3>1 DEF Waiting, TypeOK
      <4>3. Current(t).version \in DOMAIN log'[TableOf(t)]
        BY <1>1, <4>1 DEF Versions
      <4> QED BY <4>1, <4>2, <4>3 DEF Current
    <3>2. CASE pc[t] # "created"
      <4>1. t = m.task /\ Waiting(m) /\ at' = at /\ UpdateOf(m).op = "add"
        BY <1>0, <2>3, <3>2 DEF TypeOK
      <4>2. Current(t) = UpdateOf(m)
        BY <4>1 DEF Current, UpdateOf, Waiting
      <4>3. PICK b \in Table : b = TableOf(m.task)
        BY <1>0
      <4>4. Versions(b)' = Versions(b) \cup {UpdateOf(m).version}
        BY <4>3, WriteIs
      <4>5. UpdateOf(m).version \in DOMAIN log'[b]
        BY <4>4 DEF Versions
      <4> QED BY <4>1, <4>2, <4>3, <4>5 DEF Current
    <3> QED BY <3>1, <3>2
  <2>4. \A t \in Task : TableOf(t)' = TableOf(t)
    BY DEF TableOf
  <2> QED BY <2>1, <2>2, <2>3, <2>4 DEF WritesSound, Versions
<1>6. ListingsInLog'
  <2>1. \A t \in Task : pc'[t] = pc[t] \/ (pc[t] # "idle" /\ pc'[t] \in {"created", "updates"})
    BY <1>0 DEF TypeOK
  <2>2. \A t \in Task : pc[t] # "idle" => Versions(TableOf(t)) \subseteq Versions(TableOf(t))'
    <3> SUFFICES ASSUME NEW t \in Task, pc[t] # "idle"
                 PROVE  Versions(TableOf(t)) \subseteq Versions(TableOf(t))'
      OBVIOUS
    <3>1. TableOf(t) \in Table /\ TableOf(t)' = TableOf(t)
      BY UnderWay DEF TableOf
    <3> QED BY <1>1, <3>1 DEF Versions
  <2>3. \A t \in Task : pc'[t] = "idle" => pc[t] = "idle"
    BY <1>3
  <2> QED BY <2>1, <2>2, <2>3 DEF LogInv, ListingsInLog
<1>7. HintsInLog'
  BY <1>1 DEF LogInv, HintsInLog
<1> QED BY <1>2, <1>4, <1>5, <1>6, <1>7 DEF LogInv

\* A write that changes nothing in the log ends: refused, or of the metastore.
LEMMA RefuseLogInv ==
  ASSUME LogInv, NEW m \in inflight, Refuse(m)
  PROVE  LogInv'
<1>0. /\ TypeOK /\ m.task \in Task /\ pc[m.task] # "idle"
      /\ inflight' \subseteq inflight /\ HintsInLog'
      /\ UNCHANGED <<log, metadata, unheard, hint, req, rows, top, present>>
      /\ faults' \in 0..MaxFaults
  <2>1. TypeOK /\ m.task \in Task /\ pc[m.task] # "idle"
    BY InFlight
  <2>2. /\ inflight' \subseteq inflight
        /\ UNCHANGED <<log, metadata, unheard, hint, req, rows, top, present>>
    BY DEF Refuse, Answered
  <2>3. HintsInLog'
    BY <2>2 DEF LogInv, HintsInLog, Versions
  <2>4. faults' \in 0..MaxFaults
    BY <2>1, DeltaAssumption DEF Refuse, TakenOrContended, Fault, TypeOK
  <2> QED BY <2>1, <2>2, <2>3, <2>4
<1>1. CASE Waiting(m)
  <2>1. Return(m.task, "conflict", NoVersion) /\ at' = at /\ NoVersion \in Maybe
    BY <1>1 DEF Refuse, EndInConflict, Maybe
  <2>2. hint' \in [Replica -> [Table -> Maybe]]
    BY <1>0 DEF TypeOK
  <2> QED BY <1>0, <2>1, <2>2, ReturnLogInv
<1>2. CASE ~Waiting(m)
  <2>1. UNCHANGED <<pc, at, latest, cursor, found, outcome>>
    BY <1>2 DEF Refuse
  <2>2. TypeOK'
    BY <1>0, <2>1 DEF TypeOK, outcome
  <2>3. ListingsInLog'
    BY <1>0, <2>1 DEF LogInv, ListingsInLog, Versions, TableOf, outcome
  <2> QED BY <1>0, <2>1, <2>2, <2>3, QuietStep DEF LogInv, RequestsKnown
<1> QED BY <1>1, <1>2

LEMMA LandMetaLogInv ==
  ASSUME LogInv, NEW m \in inflight, LandMeta(m)
  PROVE  LogInv'
<1>0. /\ TypeOK /\ m.task \in Task /\ m.step \in Nat \ {0} /\ pc[m.task] # "idle"
  BY InFlight
<1>1. /\ inflight' \subseteq inflight /\ HintsInLog' /\ metadata' \subseteq Task \X (Nat \ {0})
      /\ UNCHANGED <<log, unheard, hint, req, latest, cursor, found, rows, top, outcome, present,
                     faults>>
  BY <1>0 DEF LandMeta, Acknowledge, Answered, LogInv, HintsInLog, Versions, TypeOK
<1>2. CASE Waiting(m)
  <2>1. pc' = [pc EXCEPT ![m.task] = "updates"] /\ at' = [at EXCEPT ![m.task] = @ + 1]
    BY <1>2 DEF LandMeta, Acknowledge, NextUpdate, Goto
  <2>2. hint' \in [Replica -> [Table -> Maybe]] /\ latest' \in [Task -> Maybe \cup {-1, 0}]
    BY <1>0, <1>1 DEF TypeOK
  <2> QED BY <1>0, <1>1, <2>1, <2>2, MoveOnLogInv
<1>3. CASE ~Waiting(m)
  <2>1. UNCHANGED <<pc, at>>
    BY <1>3 DEF LandMeta, Acknowledge
  <2>2. TypeOK'
    BY <1>0, <1>1, <2>1 DEF TypeOK, outcome
  <2>3. ListingsInLog'
    BY <1>1, <2>1 DEF LogInv, ListingsInLog, Versions, TableOf, outcome
  <2> QED BY <1>1, <2>1, <2>2, <2>3, QuietStep DEF LogInv, RequestsKnown
<1> QED BY <1>2, <1>3

LEMMA LandLogInv ==
  ASSUME LogInv, NEW m \in inflight, Land(m) \/ LandAddUnheard(m)
  PROVE  LogInv'
<1>0. TypeOK
  BY DEF LogInv
<1>1. CASE LandAdd(m)
  <2>1. /\ UpdateOf(m).op = "add" /\ KeyIsFree(m) /\ Write(m) /\ inflight' \subseteq inflight
        /\ faults' \in 0..MaxFaults /\ unheard' \subseteq Task \X (Nat \ {0})
        /\ UNCHANGED <<metadata, hint, req, at, latest, cursor, found, rows, top, outcome, present>>
        /\ \/ UNCHANGED pc
           \/ Waiting(m) /\ pc' = [pc EXCEPT ![m.task] = "created"]
    BY <1>0, <1>1 DEF LandAdd, Answered, Goto, locals, TypeOK
  <2> QED BY <2>1, WriteLogInv
<1>2. CASE LandAddUnheard(m)
  <2>1. /\ UpdateOf(m).op = "add" /\ KeyIsFree(m) /\ Write(m) /\ inflight' \subseteq inflight
        /\ faults' \in 0..MaxFaults /\ unheard' \subseteq Task \X (Nat \ {0})
        /\ UNCHANGED <<pc, metadata, hint, req, at, latest, cursor, found, rows, top, outcome, present>>
    BY <1>0, <1>2, InFlight, DeltaAssumption DEF LandAddUnheard, Fault, locals, TypeOK
  <2> QED BY <2>1, WriteLogInv
<1>3. CASE LandMark(m)
  <2>1. /\ UpdateOf(m).op = "mark" /\ Write(m) /\ inflight' \subseteq inflight
        /\ faults' \in 0..MaxFaults /\ unheard' \subseteq Task \X (Nat \ {0})
        /\ UNCHANGED <<metadata, hint, req, latest, cursor, found, rows, top, outcome, present>>
        /\ \/ UNCHANGED <<pc, at>>
           \/ /\ Waiting(m)
              /\ pc' = [pc EXCEPT ![m.task] = "updates"]
              /\ at' = [at EXCEPT ![m.task] = @ + 1]
    BY <1>0, <1>3 DEF LandMark, Acknowledge, Answered, NextUpdate, Goto, TypeOK
  <2> QED BY <2>1, WriteLogInv
<1>4. CASE Refuse(m)
  BY <1>4, RefuseLogInv
<1>5. CASE LandMeta(m)
  BY <1>5, LandMetaLogInv
<1> QED BY <1>1, <1>2, <1>3, <1>4, <1>5 DEF Land

LEMMA StutterLogInv ==
  ASSUME LogInv, UNCHANGED vars
  PROVE  LogInv'
<1>1. TypeOK'
  BY DEF LogInv, TypeOK, vars, bucket, locals, outcome
<1>2. ListingsInLog' /\ HintsInLog'
  BY DEF LogInv, ListingsInLog, HintsInLog, Versions, TableOf, vars, bucket, locals, outcome
<1> QED BY <1>1, <1>2, QuietStep DEF LogInv, RequestsKnown, vars, bucket, locals

LEMMA NextLogInv ==
  ASSUME LogInv, [Next]_vars
  PROVE  LogInv'
<1>1. ASSUME NEW t \in Task, NEW q \in Workload, Call(t, q) PROVE LogInv'
  BY <1>1, CallLogInv
<1>2. ASSUME NEW t \in Task, Step(t) PROVE LogInv'
  BY <1>2, ReadHintLogInv, ListBeyondLogInv, KeepHintLogInv, ListRangeLogInv, RejectAddLogInv,
     SendsLogInv, MarkNothingLogInv, AppendedLogInv, UpdatesDoneLogInv DEF Step
<1>3. ASSUME NEW t \in Task, Abandon(t) PROVE LogInv'
  BY <1>3, AbandonLogInv
<1>4. ASSUME NEW r \in Replica, Restart(r) PROVE LogInv'
  BY <1>4, RestartLogInv
<1>5. ASSUME NEW m \in inflight, Land(m) \/ LandAddUnheard(m) PROVE LogInv'
  BY <1>5, LandLogInv
<1> QED BY <1>1, <1>2, <1>3, <1>4, <1>5, StutterLogInv DEF Next

\* The log, the hints, the writes on the wire and the listings under way agree in
\* every reachable state.  (DeltaLog, repos/delta.rs, update_table)
THEOREM LogInvariant == Spec => []LogInv
BY InitLogInv, NextLogInv, PTL DEF Spec

\* Every variable keeps its type.
THEOREM TypeCorrect == Spec => []TypeOK
BY LogInvariant, PTL DEF LogInv

\* No replica's hint is ever ahead of the log.  (DeltaLog::latest_hint)
THEOREM HintsBehindLog == Spec => []HintsInLog
BY LogInvariant, PTL DEF LogInv

-----------------------------------------------------------------------------
(* What a step may never do                                                *)

\* Only a write that lands changes the log.
LEMMA LogChanges ==
  ASSUME [Next]_vars, log' # log
  PROVE  \E m \in inflight : LandAdd(m) \/ LandAddUnheard(m) \/ LandMark(m)
<1>1. ASSUME NEW t \in Task, NEW q \in Workload, Call(t, q) PROVE FALSE
  BY <1>1 DEF Call, bucket
<1>2. ASSUME NEW t \in Task, Step(t) PROVE FALSE
  BY <1>2
     DEF Step, ReadHint, ListBeyond, KeepHint, ListRange, RejectAdd, SendAdd, MarkNothing,
         SendMark, SendMeta, Send, Appended, UpdatesDone, bucket
<1>3. ASSUME NEW t \in Task, Abandon(t) PROVE FALSE
  BY <1>3 DEF Abandon, bucket
<1>4. ASSUME NEW r \in Replica, Restart(r) PROVE FALSE
  BY <1>4 DEF Restart, bucket
<1>5. ASSUME NEW m \in inflight, Refuse(m) \/ LandMeta(m) PROVE FALSE
  BY <1>5 DEF Refuse, LandMeta
<1> QED BY <1>1, <1>2, <1>3, <1>4, <1>5 DEF Next, Land, vars, bucket

\* Such a write creates a free key, or sets a latch.
LEMMA StepWritesOnce ==
  ASSUME LogInv, [Next]_vars
  PROVE  \A b \in Table : \A v \in Versions(b) :
           /\ v \in DOMAIN log'[b]
           /\ log'[b][v] \in {log[b][v], [log[b][v] EXCEPT !.flag = TRUE]}
<1> DEFINE Kept == \A b \in Table : \A v \in Versions(b) :
                     /\ v \in DOMAIN log'[b]
                     /\ log'[b][v] \in {log[b][v], [log[b][v] EXCEPT !.flag = TRUE]}
<1>1. CASE log' = log
  BY <1>1 DEF Versions
<1>2. ASSUME NEW m \in inflight, LandAdd(m) \/ LandAddUnheard(m) \/ LandMark(m) PROVE Kept
  <2>1. /\ UpdateOf(m).op \in {"add", "mark"} /\ Write(m)
        /\ UpdateOf(m).op = "add" => KeyIsFree(m)
    BY <1>2 DEF LandAdd, LandAddUnheard, LandMark
  <2>2. \A b \in Table : \A v \in Versions(b) : v \in Versions(b)'
    BY <2>1, WriteIs
  <2> QED BY <2>1, <2>2, WriteIs DEF Versions
<1> QED BY <1>1, <1>2, LogChanges

\* Of two appends of one version one wins for good, whatever crashes, is resent or
\* lands late, and marking a commit never loses it.  (DeltaLog::append, mutate_commit)
THEOREM CommitsOnce == Spec => CommitsWriteOnce
<1>1. LogInv /\ [Next]_vars =>
        [\A b \in Table : \A v \in Versions(b) :
           /\ v \in DOMAIN log'[b]
           /\ log'[b][v] \in {log[b][v], [log[b][v] EXCEPT !.flag = TRUE]}]_log
  BY StepWritesOnce
<1> QED BY <1>1, LogInvariant, PTL DEF Spec, CommitsWriteOnce

LEMMA HintType ==
  ASSUME LogInv
  PROVE  /\ hint \in [Replica -> [Table -> Maybe]]
         /\ \A r \in Replica, b \in Table : hint[r][b] \in Int \cup {NoVersion}
         /\ \A b \in Table : Versions(b) \subseteq Int
<1>1. Version \subseteq Int
  BY DeltaAssumption
<1>2. \A b \in Table : Versions(b) \subseteq Version
  BY DEF LogInv, TypeOK, Versions
<1>3. hint \in [Replica -> [Table -> Maybe]]
  BY DEF LogInv, TypeOK
<1>4. \A r \in Replica, b \in Table : hint[r][b] \in Maybe
  BY <1>3
<1> QED BY <1>1, <1>2, <1>3, <1>4 DEF Maybe

LEMMA RaiseAdvances ==
  ASSUME LogInv, NEW r \in Replica, NEW b \in Table, NEW v \in Versions(b), RaiseHint(r, b, v)
  PROVE  \A s \in Replica, c \in Table :
           NoVersion \in {hint[s][c], hint'[s][c]} \/ hint'[s][c] >= hint[s][c]
<1>1. /\ \A s \in Replica, c \in Table : hint[s][c] \in Int \cup {NoVersion}
      /\ hint \in [Replica -> [Table -> Maybe]]
      /\ v \in Int
  BY HintType
<1>2. \A s \in Replica, c \in Table : hint'[s][c] \in {hint[s][c], Raise(hint[s][c], v)}
  BY <1>1 DEF RaiseHint
<1>3. \A old \in Int \cup {NoVersion} : NoVersion \in {old, Raise(old, v)} \/ Raise(old, v) >= old
  BY <1>1 DEF Raise
<1> QED BY <1>1, <1>2, <1>3

\* Only a listing's end and an append move a hint, and only a restart clears it.
LEMMA StepAdvancesHints ==
  ASSUME LogInv, [Next]_vars
  PROVE  \A r \in Replica, b \in Table :
           NoVersion \in {hint[r][b], hint'[r][b]} \/ hint'[r][b] >= hint[r][b]
<1> DEFINE Advance == \A r \in Replica, b \in Table :
                        NoVersion \in {hint[r][b], hint'[r][b]} \/ hint'[r][b] >= hint[r][b]
<1>1. CASE hint' = hint
  <2>1. \A r \in Replica, b \in Table : hint[r][b] \in Int \cup {NoVersion}
    BY HintType
  <2> QED BY <1>1, <2>1
<1>2. ASSUME NEW t \in Task, KeepHint(t) PROVE Advance
  <2>1. /\ TableOf(t) \in Table /\ Home[t] \in Replica
        /\ latest[t] \in Versions(TableOf(t)) \cup {NoVersion}
    BY <1>2, UnderWay DEF KeepHint, LogInv, ListingsInLog
  <2>2. hint' = hint \/ (latest[t] \in Versions(TableOf(t)) /\ RaiseHint(Home[t], TableOf(t), latest[t]))
    BY <1>2, <2>1 DEF KeepHint
  <2> QED BY <1>1, <2>1, <2>2, RaiseAdvances
<1>3. ASSUME NEW t \in Task, Appended(t) PROVE Advance
  <2>1. /\ TableOf(t) \in Table /\ Home[t] \in Replica
        /\ Current(t).version \in Versions(TableOf(t))
    BY <1>3, UnderWay DEF Appended, LogInv, WritesSound
  <2> QED BY <1>3, <2>1, RaiseAdvances DEF Appended
<1>4. ASSUME NEW r \in Replica, Restart(r) PROVE Advance
  <2>1. hint' = [hint EXCEPT ![r] = [b \in Table |-> NoVersion]] /\ hint \in [Replica -> [Table -> Maybe]]
    BY <1>4 DEF Restart, LogInv, TypeOK
  <2>2. \A s \in Replica, b \in Table : hint[s][b] \in Int \cup {NoVersion}
    BY HintType
  <2> QED BY <2>1, <2>2
<1>5. ASSUME hint' # hint
      PROVE  \/ \E t \in Task : KeepHint(t) \/ Appended(t)
             \/ \E r \in Replica : Restart(r)
  <2>1. ASSUME NEW t \in Task, NEW q \in Workload, Call(t, q) PROVE FALSE
    BY <1>5, <2>1 DEF Call
  <2>2. ASSUME NEW t \in Task, Step(t), ~KeepHint(t), ~Appended(t) PROVE FALSE
    BY <1>5, <2>2
       DEF Step, ReadHint, ListBeyond, ListRange, RejectAdd, SendAdd, MarkNothing,
           SendMark, SendMeta, Send, UpdatesDone
  <2>3. ASSUME NEW t \in Task, Abandon(t) PROVE FALSE
    BY <1>5, <2>3 DEF Abandon
  <2>4. ASSUME NEW m \in inflight, Land(m) \/ LandAddUnheard(m) PROVE FALSE
    BY <1>5, <2>4 DEF Land, LandAdd, LandAddUnheard, Refuse, LandMark, LandMeta, Acknowledge
  <2> QED BY <1>5, <2>1, <2>2, <2>3, <2>4 DEF Next, vars
<1> QED BY <1>1, <1>2, <1>3, <1>4, <1>5

\* A hint moves forward in whatever order requests finish, until its process
\* restarts.  (DeltaLog::latest_version, append)
THEOREM HintsOnlyAdvance == Spec => HintsAdvance
<1>1. LogInv /\ [Next]_vars =>
        [\A r \in Replica, b \in Table :
           NoVersion \in {hint[r][b], hint'[r][b]} \/ hint'[r][b] >= hint[r][b]]_hint
  BY StepAdvancesHints
<1> QED BY <1>1, LogInvariant, PTL DEF Spec, HintsAdvance

=============================================================================
