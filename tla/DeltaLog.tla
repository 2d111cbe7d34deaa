------------------------------ MODULE DeltaLog ------------------------------
(***************************************************************************)
(* The per-table Delta commit logs (crates/uc-db/src/store/delta_log.rs,   *)
(* repos/delta.rs) and the four handlers that use them: update_table and   *)
(* load_table of the Delta API, commit and get_commits of the catalog API. *)
(*                                                                         *)
(* A commit is one object whose key is its version, created by one         *)
(* conditional PUT.  Clients choose the versions.  Each process keeps a    *)
(* hint of the latest version per table, which a listing corrects.         *)
(*                                                                         *)
(* A request starts with the id its table name stands for: finding it is   *)
(* the metastore's business (CommitStore), as is a change of the table's   *)
(* properties or columns, here one write that lands in one step.           *)
(***************************************************************************)
EXTENDS Integers, Sequences, FiniteSets

CONSTANTS Table, Replica,
          Task,            \* HTTP requests
          Home,            \* the replica that serves each of them
          Version,         \* the versions clients use, an i64 each
          Workload,        \* what they may ask for
          PageSize,        \* keys in one page of a listing
          FollowAnswers,   \* clients commit right above a version they were told
          SdkRetry,        \* the S3 client resends a PUT whose answer was lost
          MaxFaults,       \* bound: restarts, abandoned requests, lost answers, collisions
          NoVersion, NoTable, NoBody, NoRequest

Maybe == Version \cup {NoVersion}

Body == [by : Task, step : Nat \ {0}, flag : BOOLEAN]

Update == [op : {"add", "mark"}, version : Version] \cup [op : {"meta"}]

Request ==
  [api : {"update", "commit", "load", "get"},
   table : Table,
   asserts : Table \cup {NoTable},      \* assert-table-uuid, assert-etag
   updates : Seq(Update),
   starting : Maybe, ending : Maybe]    \* get_commits' bounds

ASSUME DeltaAssumption ==
  /\ Home \in [Task -> Replica]
  /\ Version \subseteq Int
  /\ Workload \subseteq Request
  /\ \A q \in Workload : q.api = "commit" =>
       Len(q.updates) = 1 /\ q.updates[1].op = "add"
  /\ \A q \in Workload : q.api \in {"load", "get"} => q.updates = <<>>
  /\ PageSize \in Nat \ {0}
  /\ FollowAnswers \in BOOLEAN
  /\ SdkRetry \in BOOLEAN
  /\ MaxFaults \in Nat
  /\ NoVersion \notin Int
  /\ NoTable \notin Table
  /\ NoBody \notin Body
  /\ NoRequest \notin Request

\* i64 has a least and a greatest value, so a set of versions has both, too.
ASSUME VersionsBounded ==
  \A S \in SUBSET Version : S # {} =>
    /\ \E v \in S : \A u \in S : u <= v
    /\ \E v \in S : \A u \in S : v <= u

VARIABLES
  log,        \* table -> version -> commit object
  inflight,   \* writes sent and not yet answered
  metadata,   \* the table updates that went to the metastore, as <<task, step>>
  unheard,    \* ghost: the commits whose requester was not told Created, as <<task, step>>
  hint,       \* replica -> table -> latest_hint
  pc,         \* task: next step of its handler
  req,        \* task: what it was asked
  at,         \* task: index of the update it is at
  latest,     \* task: the handler's `latest`
  cursor,     \* task: where its listing is
  found,      \* task: what its listing has found
  rows,       \* task: the versions get_commits reports
  top,        \* task: what latest_version returned
  answer,     \* task: how the request ended
  reply,      \* task: latest-table-version in the response
  present,    \* ghost: the table's versions when the request came in
  faults      \* bound: faults so far

bucket == <<log, inflight, metadata, unheard>>
locals == <<req, at, latest, cursor, found, rows, top>>
outcome == <<answer, reply>>
vars == <<bucket, hint, pc, locals, outcome, present, faults>>

-----------------------------------------------------------------------------

Running == {"hint", "beyond", "keep", "range", "updates", "sent", "created"}

TypeOK ==
  /\ DOMAIN log = Table
  /\ \A b \in Table : DOMAIN log[b] \subseteq Version /\ \A v \in DOMAIN log[b] : log[b][v] \in Body
  /\ inflight \subseteq [task : Task, step : Nat \ {0}, body : Body \cup {NoBody}]
  /\ metadata \subseteq Task \X (Nat \ {0})
  /\ unheard \subseteq Task \X (Nat \ {0})
  /\ hint \in [Replica -> [Table -> Maybe]]
  /\ pc \in [Task -> {"idle", "done"} \cup Running]
  /\ req \in [Task -> Workload \cup {NoRequest}]
  /\ at \in [Task -> Nat \ {0}]
  /\ latest \in [Task -> Maybe \cup {-1, 0}]
  /\ cursor \in [Task -> Int \cup {NoVersion}]
  /\ found \in [Task -> SUBSET Version]
  /\ rows \in [Task -> SUBSET Version]
  /\ top \in [Task -> Maybe]
  /\ answer \in [Task -> {"none", "ok", "conflict", "requirement", "unknown"}]
  /\ reply \in [Task -> Maybe \cup {-1, 0}]
  /\ present \in [Task -> SUBSET Version]
  /\ faults \in 0..MaxFaults

Init ==
  /\ log = [b \in Table |-> [v \in {} |-> NoBody]]
  /\ inflight = {}
  /\ metadata = {}
  /\ unheard = {}
  /\ hint = [r \in Replica |-> [b \in Table |-> NoVersion]]
  /\ pc = [t \in Task |-> "idle"]
  /\ req = [t \in Task |-> NoRequest]
  /\ at = [t \in Task |-> 1]
  /\ latest = [t \in Task |-> NoVersion]
  /\ cursor = [t \in Task |-> NoVersion]
  /\ found = [t \in Task |-> {}]
  /\ rows = [t \in Task |-> {}]
  /\ top = [t \in Task |-> NoVersion]
  /\ answer = [t \in Task |-> "none"]
  /\ reply = [t \in Task |-> NoVersion]
  /\ present = [t \in Task |-> {}]
  /\ faults = 0

Goto(t, label) == pc' = [pc EXCEPT ![t] = label]

Fault == faults < MaxFaults /\ faults' = faults + 1

TableOf(t) == req[t].table

Versions(b) == DOMAIN log[b]

\* The update a handler is at.
Current(t) == req[t].updates[at[t]]

MaxOf(S) == CHOOSE v \in S : \A u \in S : u <= v

\* The handler returns; its locals go.
Return(t, how, version) ==
  /\ Goto(t, "done")
  /\ answer' = [answer EXCEPT ![t] = how]
  /\ reply' = [reply EXCEPT ![t] = version]
  /\ latest' = [latest EXCEPT ![t] = NoVersion]
  /\ cursor' = [cursor EXCEPT ![t] = NoVersion]
  /\ found' = [found EXCEPT ![t] = {}]

-----------------------------------------------------------------------------
(* Keys                                                                    *)

\* The order of the object keys: `{version:020}` puts '-' before the digits and
\* does not turn the order of what follows it.
KeyBefore(u, v) == IF u < 0 /\ v < 0 THEN v < u ELSE u < v

\* One page of list_after: the first keys beyond the cursor.
Page(b, c) ==
  LET beyond == {v \in Versions(b) : c = NoVersion \/ KeyBefore(c, v)}
  IN  {v \in beyond : Cardinality({u \in beyond : KeyBefore(u, v)}) < PageSize}

LastKey(S) == CHOOSE v \in S : \A u \in S \ {v} : KeyBefore(u, v)

-----------------------------------------------------------------------------
(* Requests                                                                *)

Adds(q) == {i \in DOMAIN q.updates : q.updates[i].op = "add"}

\* A Delta client commits the versions that follow one it was told.
Follows(q) ==
  \E s \in Task :
    /\ answer[s] = "ok" /\ TableOf(s) = q.table
    /\ \A i \in Adds(q) :
         q.updates[i].version = reply[s] + Cardinality({j \in Adds(q) : j <= i})

FirstStep(q) ==
  CASE q.api \in {"update", "load"} -> "hint"
    [] q.api = "commit" -> "updates"
    [] q.api = "get" -> "range"

\* Mutant: start_after is exclusive, but is given the first version itself.
StartAtFirst(q) == IF q.starting = NoVersion THEN NoVersion ELSE q.starting

\* DeltaLog::versions: the key just before `starting`, or the bare prefix.
StartAfter(q) ==
  IF q.starting = NoVersion \/ q.starting <= 0 THEN NoVersion ELSE q.starting - 1

Call(t, q) ==
  /\ pc[t] = "idle"
  /\ FollowAnswers => Adds(q) = {} \/ Follows(q)
  /\ req' = [req EXCEPT ![t] = q]
  /\ present' = [present EXCEPT ![t] = Versions(q.table)]
  /\ Goto(t, FirstStep(q))
  /\ cursor' = [cursor EXCEPT ![t] = IF q.api = "get" THEN StartAfter(q) ELSE NoVersion]
  /\ UNCHANGED <<bucket, hint, at, latest, found, rows, top, outcome, faults>>

-----------------------------------------------------------------------------
(* DeltaLog::latest_version                                                *)

\* Under the hint's read lock.
ReadHint(t) ==
  /\ pc[t] = "hint"
  /\ cursor' = [cursor EXCEPT ![t] = hint[Home[t]][TableOf(t)]]
  /\ Goto(t, "beyond")
  /\ UNCHANGED <<bucket, hint, req, at, latest, found, rows, top, outcome, present, faults>>

\* Mutant: one page is taken for all.
FirstPageIsLast(page) == TRUE

\* list_all_in_range goes on until a page comes back empty.
IsLast(page) == page = {}

\* Mutant: the cursor stays where it is.
SameCursor(t, page) == cursor[t]

NextCursor(t, page) == LastKey(page)

ListOn(t, page) ==
  /\ found' = [found EXCEPT ![t] = @ \cup page]
  /\ cursor' = [cursor EXCEPT ![t] = NextCursor(t, page)]
  /\ UNCHANGED <<pc, latest, top>>

\* The largest version found, else the hint that the listing started at.
ListBeyond(t) ==
  LET page == Page(TableOf(t), cursor[t])
      all == found[t] \cup page
      result == IF all = {} THEN cursor[t] ELSE MaxOf(all)
  IN  /\ pc[t] = "beyond"
      /\ IF IsLast(page)
         THEN /\ latest' = [latest EXCEPT ![t] = result]
              /\ top' = [top EXCEPT ![t] = result]
              /\ found' = [found EXCEPT ![t] = {}]
              /\ cursor' = [cursor EXCEPT ![t] = NoVersion]
              /\ Goto(t, "keep")
         ELSE ListOn(t, page)
      /\ UNCHANGED <<bucket, hint, req, at, rows, outcome, present, faults>>

\* `*entry = (*entry).max(v)`
Raise(old, v) == IF old = NoVersion \/ old < v THEN v ELSE old

HintsOf(b) == {b}

\* Under the hint's write lock.
RaiseHint(r, b, v) ==
  hint' = [hint EXCEPT ![r] = [c \in Table |-> IF c \in HintsOf(b) THEN Raise(@[c], v) ELSE @[c]]]

\* Mutant: what MAX over no rows used to give.
AlwaysZero(t) == 0

\* unwrap_or(0) in load_table, unwrap_or(-1) elsewhere.
WhenEmpty(t) == IF req[t].api = "load" THEN 0 ELSE -1

\* assert-table-uuid and assert-etag: the etag is the table's id.
RequirementsMet(t) == req[t].asserts \in {NoTable, TableOf(t)}

\* latest_version keeps what it found and returns; its caller goes on.
KeepHint(t) ==
  LET known == IF latest[t] = NoVersion THEN WhenEmpty(t) ELSE latest[t]
  IN  /\ pc[t] = "keep"
      /\ IF latest[t] = NoVersion THEN UNCHANGED hint
         ELSE RaiseHint(Home[t], TableOf(t), latest[t])
      /\ IF req[t].api = "update" /\ RequirementsMet(t)
         THEN /\ latest' = [latest EXCEPT ![t] = known]
              /\ Goto(t, "updates")
              /\ UNCHANGED <<cursor, found, outcome>>
         ELSE IF req[t].api = "update" THEN Return(t, "requirement", NoVersion)
         ELSE Return(t, "ok", known)
      /\ UNCHANGED <<bucket, req, at, rows, top, present, faults>>

-----------------------------------------------------------------------------
(* DeltaLog::versions and list_for_table                                   *)

\* One page of the range; the listing ends at an empty page or past `ending`.
\* Every version listed is then read: commit objects are never removed, so the
\* "delta log hole" error cannot arise.
ListRange(t) ==
  LET page == Page(TableOf(t), cursor[t])
      stop == req[t].ending
      past == {v \in page : stop # NoVersion /\ KeyBefore(stop, v)}
      all == found[t] \cup (page \ past)
  IN  /\ pc[t] = "range"
      /\ IF IsLast(page) \/ past # {}
         THEN /\ rows' = [rows EXCEPT ![t] = {v \in all : stop = NoVersion \/ v <= stop}]
              /\ found' = [found EXCEPT ![t] = {}]
              /\ cursor' = [cursor EXCEPT ![t] = NoVersion]
              /\ Goto(t, "hint")
              /\ UNCHANGED <<latest, top>>
         ELSE ListOn(t, page) /\ UNCHANGED rows
      /\ UNCHANGED <<bucket, hint, req, at, outcome, present, faults>>

-----------------------------------------------------------------------------
(* The updates of a request                                                *)

Send(t, body) ==
  /\ inflight' = inflight \cup {[task |-> t, step |-> at[t], body |-> body]}
  /\ Goto(t, "sent")
  /\ UNCHANGED <<log, metadata, unheard, hint, locals, outcome, present, faults>>

\* update_table refuses a version that is not above the latest it knows of; the
\* catalog API's commit does not look.
TooOld(t) == req[t].api = "update" /\ Current(t).version <= latest[t]

AtUpdate(t, op) == pc[t] = "updates" /\ at[t] <= Len(req[t].updates) /\ Current(t).op = op

RejectAdd(t) ==
  /\ AtUpdate(t, "add")
  /\ TooOld(t)
  /\ Return(t, "conflict", NoVersion)
  /\ UNCHANGED <<bucket, hint, req, at, rows, top, present, faults>>

\* DeltaLog::append sends its conditional PUT.
SendAdd(t) ==
  /\ AtUpdate(t, "add")
  /\ ~TooOld(t)
  /\ Send(t, [by |-> t, step |-> at[t], flag |-> FALSE])

NextUpdate(t) ==
  /\ at' = [at EXCEPT ![t] = @ + 1]
  /\ Goto(t, "updates")

\* mutate_commit on a commit that is not there.
MarkNothing(t) ==
  /\ AtUpdate(t, "mark")
  /\ Current(t).version \notin Versions(TableOf(t))
  /\ NextUpdate(t)
  /\ UNCHANGED <<bucket, hint, req, latest, cursor, found, rows, top, outcome, present, faults>>

\* Mutant: mark_backfilled sets the opposite of what is there.
Toggle(body) == [body EXCEPT !.flag = ~@]

\* mark_backfilled's edit: a latch.
Latch(body) == [body EXCEPT !.flag = TRUE]

\* mutate_commit reads the object, edits it and writes it back, unconditionally.
SendMark(t) ==
  /\ AtUpdate(t, "mark")
  /\ Current(t).version \in Versions(TableOf(t))
  /\ Send(t, Latch(log[TableOf(t)][Current(t).version]))

\* Properties, columns, comment, protocol: one commit of the metastore.  An update
\* of several (a protocol has two) stands as often in `updates`: nothing lies
\* between them but the `?` of each.
SendMeta(t) ==
  /\ AtUpdate(t, "meta")
  /\ Send(t, NoBody)

\* append's last step, under the hint's write lock.
Appended(t) ==
  /\ pc[t] = "created"
  /\ RaiseHint(Home[t], TableOf(t), Current(t).version)
  /\ latest' = [latest EXCEPT ![t] = Current(t).version]
  /\ NextUpdate(t)
  /\ UNCHANGED <<bucket, req, cursor, found, rows, top, outcome, present, faults>>

\* All updates are done: update_table answers, commit asks for the latest version.
UpdatesDone(t) ==
  /\ pc[t] = "updates"
  /\ at[t] > Len(req[t].updates)
  /\ IF req[t].api = "update"
     THEN Return(t, "ok", latest[t])
     ELSE Goto(t, "hint") /\ UNCHANGED <<latest, cursor, found, outcome>>
  /\ UNCHANGED <<bucket, hint, req, at, rows, top, present, faults>>

-----------------------------------------------------------------------------
(* The object store and the network                                        *)

UpdateOf(m) == req[m.task].updates[m.step]

Waiting(m) == pc[m.task] = "sent" /\ at[m.task] = m.step

KeyIsFree(m) == UpdateOf(m).version \notin Versions(TableOf(m.task))

\* The object under the version of m's update becomes m's body.
Write(m) ==
  LET b == TableOf(m.task)
      v == UpdateOf(m).version
  IN  log' = [log EXCEPT ![b] =
                [u \in Versions(b) \cup {v} |-> IF u = v THEN m.body ELSE log[b][u]]]

Answered(m) == inflight' = inflight \ {m}

\* The conditional PUT creates its object.
LandAdd(m) ==
  /\ UpdateOf(m).op = "add"
  /\ KeyIsFree(m)
  /\ Write(m)
  /\ Answered(m)
  /\ IF Waiting(m) THEN Goto(m.task, "created") ELSE UNCHANGED pc
  /\ UNCHANGED <<metadata, unheard, hint, locals, outcome, present, faults>>

\* It does, the answer is lost, and the SDK sends it again.
LandAddUnheard(m) ==
  /\ SdkRetry
  /\ UpdateOf(m).op = "add"
  /\ Waiting(m)
  /\ KeyIsFree(m)
  /\ Fault
  /\ Write(m)
  /\ unheard' = unheard \cup {<<m.task, m.step>>}
  /\ UNCHANGED <<inflight, metadata, hint, pc, locals, outcome, present>>

\* Mutant: the conflict is taken for success.
SwallowConflict(t) == NextUpdate(t) /\ UNCHANGED <<latest, cursor, found, outcome>>

\* AlreadyExists becomes CommitVersionConflict and ends the request.
EndInConflict(t) == Return(t, "conflict", NoVersion) /\ UNCHANGED at

\* 412, and 409, which says that another PUT for the key is under way, whose
\* object is not there yet, and may never be.
TakenOrContended(m) ==
  \/ ~KeyIsFree(m) /\ UNCHANGED faults
  \/ /\ KeyIsFree(m)
     /\ \E l \in inflight : /\ l.task # m.task /\ TableOf(l.task) = TableOf(m.task)
                            /\ UpdateOf(l) = UpdateOf(m)
     /\ Fault

Refuse(m) ==
  /\ UpdateOf(m).op = "add"
  /\ TakenOrContended(m)
  /\ Answered(m)
  /\ IF Waiting(m) THEN EndInConflict(m.task)
     ELSE UNCHANGED <<pc, at, latest, cursor, found, outcome>>
  /\ UNCHANGED <<log, metadata, unheard, hint, req, rows, top, present>>

Acknowledge(m) ==
  /\ Answered(m)
  /\ IF Waiting(m) THEN NextUpdate(m.task) ELSE UNCHANGED <<pc, at>>
  /\ UNCHANGED <<unheard, hint, req, latest, cursor, found, rows, top, outcome, present, faults>>

LandMark(m) ==
  /\ UpdateOf(m).op = "mark"
  /\ Write(m)
  /\ UNCHANGED metadata
  /\ Acknowledge(m)

LandMeta(m) ==
  /\ UpdateOf(m).op = "meta"
  /\ metadata' = metadata \cup {<<m.task, m.step>>}
  /\ UNCHANGED log
  /\ Acknowledge(m)

Land(m) == LandAdd(m) \/ Refuse(m) \/ LandMark(m) \/ LandMeta(m)

\* A transport error, or the client drops the request.
Abandon(t) ==
  /\ pc[t] \in Running
  /\ Fault
  /\ Return(t, "unknown", NoVersion)
  /\ UNCHANGED <<bucket, hint, req, at, rows, top, present>>

\* The process restarts without its hints and without its requests.
Restart(r) ==
  LET lost == {t \in Task : Home[t] = r /\ pc[t] \in Running}
      Cleared(f, x) == [t \in Task |-> IF t \in lost THEN x ELSE f[t]]
  IN  /\ Fault
      /\ hint' = [hint EXCEPT ![r] = [b \in Table |-> NoVersion]]
      /\ pc' = Cleared(pc, "done")
      /\ answer' = Cleared(answer, "unknown")
      /\ latest' = Cleared(latest, NoVersion)
      /\ cursor' = Cleared(cursor, NoVersion)
      /\ found' = Cleared(found, {})
      /\ UNCHANGED <<bucket, req, at, rows, top, reply, present>>

-----------------------------------------------------------------------------

Step(t) ==
  \/ ReadHint(t) \/ ListBeyond(t) \/ KeepHint(t) \/ ListRange(t)
  \/ RejectAdd(t) \/ SendAdd(t) \/ MarkNothing(t) \/ SendMark(t) \/ SendMeta(t)
  \/ Appended(t) \/ UpdatesDone(t)

Served(t) == \E m \in inflight : m.task = t /\ Land(m)

Next ==
  \/ \E t \in Task : (\E q \in Workload : Call(t, q)) \/ Step(t) \/ Abandon(t)
  \/ \E r \in Replica : Restart(r)
  \/ \E m \in inflight : Land(m) \/ LandAddUnheard(m)

Spec == Init /\ [][Next]_vars

-----------------------------------------------------------------------------
(* Safety                                                                  *)

\* A hint names a commit that exists: it may be behind the log, on any replica
\* and after any restart, never ahead of it.  (DeltaLog::latest_hint)
HintsInLog ==
  \A r \in Replica, b \in Table : hint[r][b] \in Versions(b) \cup {NoVersion}

\* The version a response names is no lower than any that was there when the
\* request came in.  (latest_version: "Highest committed version")
LatestIsHighest ==
  \A t \in Task : answer[t] = "ok" => \A v \in present[t] : v <= reply[t]

\* What update_table accepted lies above all that was there when the request
\* came in, although it looks at the latest version only once.
AcceptedAboveKnown ==
  \A b \in Table : \A v \in Versions(b) :
    LET t == log[b][v].by
    IN  req[t].api = "update" => \A u \in present[t] : u < v

\* However stale the process's hint was and whatever landed while the listing
\* was paged: the version a response names is one of the table's, no lower than
\* any that was there when the request came in, and what was accepted on the
\* strength of it lies above them.
FreshAnswers ==
  /\ LatestIsHighest /\ AcceptedAboveKnown
  /\ \A t \in Task : answer[t] = "ok" =>
       reply[t] \in Versions(TableOf(t)) \/ (present[t] = {} /\ reply[t] \in {-1, 0})

InRange(q, v) ==
  /\ q.starting # NoVersion => q.starting <= v
  /\ q.ending # NoVersion => v <= q.ending

\* get_commits skips nothing that was there when the request came in, invents
\* nothing, and names a latest version that covers what it lists.
RangesComplete ==
  \A t \in Task : answer[t] = "ok" /\ req[t].api = "get" =>
    /\ {v \in present[t] : InRange(req[t], v)} \subseteq rows[t]
    /\ \A v \in rows[t] : v \in Versions(TableOf(t)) /\ InRange(req[t], v) /\ v <= reply[t]

Writes(q) == {i \in DOMAIN q.updates : q.updates[i].op # "mark"}

\* The updates of t's request that are in the log or in the metastore.
Effects(t) ==
  {i \in Writes(req[t]) :
     \/ <<t, i>> \in metadata
     \/ \E v \in Versions(TableOf(t)) :
          log[TableOf(t)][v].by = t /\ log[TableOf(t)][v].step = i}

\* Another request came to a commit of the same version.
Contended(t) ==
  \E s \in Task \ {t} :
    /\ pc[s] # "idle" /\ TableOf(s) = TableOf(t)
    /\ \E i \in Adds(req[s]) : i <= at[s] /\ req[s].updates[i].version = Current(t).version

\* Of the updates in one request a first part takes effect: all of it when the
\* answer is Ok, what precedes the refused commit on a conflict, nothing on a
\* failed requirement; also when a write lands after its request is gone.  The
\* refused commit itself is there only if the network lost the answer that it
\* was created: the S3 client sent it again, and it was refused by itself.
AnswersMatchEffects ==
  \A t \in Task : pc[t] # "idle" =>
    /\ \A i \in Effects(t), j \in Writes(req[t]) : j < i => j \in Effects(t)
    /\ answer[t] = "ok" => Effects(t) = Writes(req[t])
    /\ answer[t] = "conflict" =>
         /\ Effects(t) \ {at[t]} = {i \in Writes(req[t]) : i < at[t]}
         /\ at[t] \in Effects(t) => <<t, at[t]>> \in unheard
         /\ Contended(t) \/ \E v \in Versions(TableOf(t)) : v >= Current(t).version
    /\ answer[t] = "requirement" => Effects(t) = {}

\* A commit that was there and that an Ok answer says is backfilled stays
\* backfilled, whoever else rewrites the object.  (mark_backfilled: "concurrent
\* setters converge")
MarksStick ==
  \A t \in Task : answer[t] = "ok" =>
    \A i \in DOMAIN req[t].updates :
      LET u == req[t].updates[i]
      IN  u.op = "mark" /\ u.version \in present[t] => log[TableOf(t)][u.version].flag

\* load_table answered 0 for a table without commits.
ToldZero(b) ==
  \E t \in Task : answer[t] = "ok" /\ req[t].api = "load" /\ TableOf(t) = b /\ reply[t] = 0

\* The versions that a table has, or that somebody was told it has.
Known(b) == Versions(b) \cup {v \in {0} : ToldZero(b)}

\* While clients commit right above a version they were told, a table's history
\* starts at 0 and has no hole, but for 0 itself, and that only where load_table
\* said 0 of a table without commits: a client that takes its word commits 1.
HistoryContiguous ==
  \A b \in Table : \A v \in Versions(b) : v >= 0 /\ 0..v \subseteq Known(b)

-----------------------------------------------------------------------------
(* The inductive invariants behind the safety properties.                  *)

RequestsKnown ==
  /\ \A t \in Task : /\ pc[t] # "idle" => req[t] \in Workload
                     /\ pc[t] \in {"sent", "created"} => at[t] \in DOMAIN req[t].updates
  /\ \A m \in inflight : pc[m.task] # "idle" /\ m.step \in DOMAIN req[m.task].updates
  /\ \A b \in Table : \A v \in Versions(b) : pc[log[b][v].by] # "idle"
  /\ \A b \in Table : IsFiniteSet(Versions(b))

\* A write in flight creates its own commit, or rewrites one as it stands now
\* but for the latch.
WritesSound ==
  /\ \A m \in inflight :
       LET u == UpdateOf(m)
           b == TableOf(m.task)
       IN  /\ u.op = "add" => m.body = [by |-> m.task, step |-> m.step, flag |-> FALSE]
           /\ u.op = "mark" => /\ u.version \in Versions(b)
                               /\ m.body = [log[b][u.version] EXCEPT !.flag = TRUE]
  /\ \A t \in Task : pc[t] = "created" =>
       Current(t).op = "add" /\ Current(t).version \in Versions(TableOf(t))

ListingsInLog ==
  \A t \in Task :
    LET here == Versions(TableOf(t))
    IN  IF pc[t] = "idle" THEN found[t] = {} /\ rows[t] = {} /\ answer[t] = "none"
        ELSE /\ present[t] \cup found[t] \cup rows[t] \subseteq here
             /\ pc[t] = "beyond" /\ found[t] = {} => cursor[t] \in here \cup {NoVersion}
             /\ pc[t] = "keep" => latest[t] \in here \cup {NoVersion}

\* What a process remembers and what is on the wire agrees with the log.
LogInv == TypeOK /\ RequestsKnown /\ WritesSound /\ ListingsInLog /\ HintsInLog

-----------------------------------------------------------------------------
(* What a step may never do                                                *)

\* A version has one claimant for good; of its object only the latch changes,
\* and only from false to true.  (DeltaLog::append, mutate_commit)
CommitsWriteOnce ==
  [][\A b \in Table : \A v \in Versions(b) :
       /\ v \in DOMAIN log'[b]
       /\ log'[b][v] \in {log[b][v], [log[b][v] EXCEPT !.flag = TRUE]}]_log

\* A process's hint moves forward until the process restarts, in whatever order
\* its requests finish.  ("there is no reason to allow it")
HintsAdvance ==
  [][\A r \in Replica, b \in Table :
       NoVersion \in {hint[r][b], hint'[r][b]} \/ hint'[r][b] >= hint[r][b]]_hint

-----------------------------------------------------------------------------
(* Liveness.  The hint's lock is never held across an await, so a handler  *)
(* goes on whenever it can; a write in flight is answered.                 *)

Fairness == \A t \in Task : WF_vars(Step(t)) /\ WF_vars(Served(t))

FairSpec == Spec /\ Fairness

\* Every request ends, also the listings that others keep writing into.
EveryRequestEnds == \A t \in Task : pc[t] \in Running ~> pc[t] = "done"

=============================================================================
