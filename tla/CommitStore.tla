---------------------------- MODULE CommitStore -----------------------------
(***************************************************************************)
(* The log-structured store: crates/uc-db/src/store (mod.rs, log.rs,       *)
(* s3.rs) as one bucket, several server processes (replicas) and several   *)
(* concurrent API calls (tasks) in each of them.                           *)
(*                                                                         *)
(* The bucket holds one object per commit, checkpoint bodies and the       *)
(* checkpoint pointer.  A replica holds a snapshot behind a read-write     *)
(* lock.  A task runs StoreInner::commit: build under the read lock, a     *)
(* conditional PUT with no lock at all, then either apply under the write  *)
(* lock or catch up under the write lock and build again.                  *)
(*                                                                         *)
(* The network is the environment: a PUT lands at any moment after it was  *)
(* sent, also when nobody waits for it any more; a call may be abandoned   *)
(* at any await (a transport error, or a request the client dropped); a    *)
(* process may crash at any step.                                          *)
(***************************************************************************)
EXTENDS MetadataOps, FiniteSets

CONSTANTS Replica,
          Home,                \* the replica each task runs on
          Workload,            \* the requests a task may be called with
          MaxCommitAttempts,   \* MAX_COMMIT_ATTEMPTS (8)
          CheckpointInterval,  \* CHECKPOINT_INTERVAL (100)
          RefreshTimer,        \* --refresh-interval-secs is not 0
          SdkRetry,            \* the S3 client resends a PUT whose answer was lost
          MaxFaults,           \* bound: crashes, abandoned calls, lost answers, collisions
          NoAction, NoRequest, NoBody

ASSUME StoreAssumption ==
  /\ Home \in [Task -> Replica]
  /\ Workload \subseteq {q \in Request : WellFormed(q)}
  /\ MaxCommitAttempts \in Nat \ {0}
  /\ CheckpointInterval \in Nat \ {0}
  /\ RefreshTimer \in BOOLEAN
  /\ SdkRetry \in BOOLEAN
  /\ MaxFaults \in Nat
  /\ NoAction \notin Actions
  /\ NoRequest \notin Request
  /\ NoBody \notin Rows
  /\ Task \cap {"free", "open", "refresh"} = {}

VARIABLES
  log,        \* commit objects: version -> [by, action]
  bodies,     \* checkpoint bodies: version -> rows
  pointer,    \* the version in _last_checkpoint, 0 when there is none
  inflight,   \* conditional PUTs sent and not yet answered
  unheard,    \* ghost: the commits whose writer never got the answer Created
  up,         \* replica serves requests
  snap,       \* replica's snapshot ...
  ver,        \* ... and the version it stands for
  lock,       \* holder of the replica's write lock, across awaits
  stage,      \* where the catch_up under that lock is
  listing,    \* the versions that catch_up has listed and read
  pc,         \* task: next step of commit
  req,        \* task: what it was called with
  attempt,    \* task: loop counter
  clashes,    \* ghost: task: the PUTs of it that were answered 409
  target,     \* task: the version it tries to write
  action,     \* task: what it tries to write there
  body,       \* task: the checkpoint it encoded
  answer,     \* task: what the caller got
  history,    \* ghost: history[v] is the state the first v commits make
  faults      \* bound: faults so far

bucket == <<log, bodies, pointer, inflight, unheard>>
replica == <<up, snap, ver, lock, stage, listing>>
task == <<pc, req, attempt, clashes, target, action, body, answer>>
vars == <<bucket, replica, task, history, faults>>

-----------------------------------------------------------------------------

Version == Nat \ {0}

Commit == [by : Task, action : Actions]

Put == [task : Task, target : Version, action : Actions]

Holder == {"free", "open", "refresh"} \cup Task

AtAwait == {"put", "created", "exists", "catchup", "ckpt", "ckptBody", "ckptPtr"}

Running == {"build"} \cup AtAwait

TypeOK ==
  /\ DOMAIN log \subseteq Version /\ \A v \in DOMAIN log : log[v] \in Commit
  /\ DOMAIN bodies \subseteq Version /\ \A v \in DOMAIN bodies : bodies[v] \in Rows
  /\ pointer \in Nat
  /\ inflight \subseteq Put
  /\ unheard \subseteq DOMAIN log
  /\ up \in [Replica -> BOOLEAN]
  /\ snap \in [Replica -> Snapshots]
  /\ ver \in [Replica -> Nat]
  /\ lock \in [Replica -> Holder]
  /\ stage \in [Replica -> {"idle", "resolve", "list", "replay"}]
  /\ listing \in [Replica -> SUBSET Version]
  /\ pc \in [Task -> {"idle", "done"} \cup Running]
  /\ req \in [Task -> Workload \cup {NoRequest}]
  /\ attempt \in [Task -> 1..MaxCommitAttempts]
  /\ clashes \in [Task -> Nat]
  /\ target \in [Task -> Nat]
  /\ action \in [Task -> Actions \cup {NoAction}]
  /\ body \in [Task -> Rows \cup {NoBody}]
  /\ answer \in [Task -> {"none", "ok", "rejected", "contention", "unknown"}]
  /\ DOMAIN history \subseteq Nat /\ \A v \in DOMAIN history : history[v] \in Snapshots
  /\ faults \in 0..MaxFaults

Init ==
  /\ log = [v \in {} |-> NoAction]
  /\ bodies = [v \in {} |-> NoBody]
  /\ pointer = 0
  /\ inflight = {}
  /\ unheard = {}
  /\ up = [r \in Replica |-> FALSE]
  /\ snap = [r \in Replica |-> EmptySnapshot]
  /\ ver = [r \in Replica |-> 0]
  /\ lock = [r \in Replica |-> "free"]
  /\ stage = [r \in Replica |-> "idle"]
  /\ listing = [r \in Replica |-> {}]
  /\ pc = [t \in Task |-> "idle"]
  /\ req = [t \in Task |-> NoRequest]
  /\ attempt = [t \in Task |-> 1]
  /\ clashes = [t \in Task |-> 0]
  /\ target = [t \in Task |-> 0]
  /\ action = [t \in Task |-> NoAction]
  /\ body = [t \in Task |-> NoBody]
  /\ answer = [t \in Task |-> "none"]
  /\ history = [v \in {0} |-> EmptySnapshot]
  /\ faults = 0

Goto(t, label) == pc' = [pc EXCEPT ![t] = label]

\* The call returns; its locals go.
Return(t, result) ==
  /\ Goto(t, "done")
  /\ answer' = [answer EXCEPT ![t] = result]
  /\ action' = [action EXCEPT ![t] = NoAction]
  /\ body' = [body EXCEPT ![t] = NoBody]
  /\ UNCHANGED <<req, attempt, clashes, target>>

Fault == faults < MaxFaults /\ faults' = faults + 1

\* Object f with a new key; the bucket's objects are never rewritten by this.
WithKey(f, k, x) == [j \in DOMAIN f \cup {k} |-> IF j = k THEN x ELSE f[j]]

-----------------------------------------------------------------------------
(* StoreInner::commit                                                      *)

\* A handler of a serving replica calls a repository operation.
Call(t, q) ==
  /\ pc[t] = "idle"
  /\ up[Home[t]]
  /\ req' = [req EXCEPT ![t] = q]
  /\ Goto(t, "build")
  /\ UNCHANGED <<bucket, replica, attempt, clashes, target, action, body, answer, history, faults>>

\* Under the read lock: `let (actions, out) = build(&state)?`.
BuildRejects(t) ==
  /\ pc[t] = "build"
  /\ lock[Home[t]] = "free"
  /\ Rejects(snap[Home[t]], req[t])
  /\ Return(t, "rejected")
  /\ UNCHANGED <<bucket, replica, history, faults>>

\* `if actions.is_empty()`: no commit is written.
BuildNothing(t) ==
  /\ pc[t] = "build"
  /\ lock[Home[t]] = "free"
  /\ ~Rejects(snap[Home[t]], req[t])
  /\ NothingToDo(snap[Home[t]], req[t])
  /\ Return(t, "ok")
  /\ UNCHANGED <<bucket, replica, history, faults>>

\* Mutant: the next free key of the bucket.
NextFreeKey(t) == Cardinality(DOMAIN log) + 1

\* The version a task writes follows the snapshot it has just built on.
NextVersion(t) == ver[Home[t]] + 1

\* The read lock is released before put_if_absent is sent.
BuildWrites(t) ==
  LET r == Home[t]
      a == Build(snap[r], t, req[t])
  IN  /\ pc[t] = "build"
      /\ lock[r] = "free"
      /\ Accepts(snap[r], req[t])
      /\ target' = [target EXCEPT ![t] = NextVersion(t)]
      /\ action' = [action EXCEPT ![t] = a]
      /\ inflight' = inflight \cup {[task |-> t, target |-> NextVersion(t), action |-> a]}
      /\ Goto(t, "put")
      /\ UNCHANGED <<log, bodies, pointer, unheard, replica, req, attempt, clashes, body, answer,
                     history, faults>>

\* Mutant: apply the own commit whatever the snapshot has seen meanwhile.
AlwaysNextInLine(t) == TRUE

\* No catch_up of this replica has replayed the commit already.
NextInLine(t) == ver[Home[t]] + 1 = target[t]

\* PutResult::Created: apply under the write lock, if next in line.
ApplyOwn(t) ==
  LET r == Home[t]
  IN  /\ pc[t] = "created"
      /\ lock[r] = "free"
      /\ snap' = [snap EXCEPT ![r] = IF NextInLine(t) THEN Apply(@, action[t]) ELSE @]
      /\ ver' = [ver EXCEPT ![r] = IF NextInLine(t) THEN target[t] ELSE @]
      /\ IF target[t] % CheckpointInterval = 0
         THEN Goto(t, "ckpt") /\ UNCHANGED <<req, attempt, clashes, target, action, body, answer>>
         ELSE Return(t, "ok")
      /\ UNCHANGED <<bucket, up, lock, stage, listing, history, faults>>

-----------------------------------------------------------------------------
(* write_checkpoint                                                        *)

\* Mutant: encode whatever the snapshot holds by now.
AnyVersionWillDo(t) == TRUE

\* The snapshot still is the version the checkpoint will be named after.
StillAtTarget(t) == ver[Home[t]] = target[t]

\* Under the read lock: only the version just committed may be encoded.
EncodeCheckpoint(t) ==
  LET r == Home[t]
  IN  /\ pc[t] = "ckpt"
      /\ lock[r] = "free"
      /\ IF StillAtTarget(t)
         THEN /\ body' = [body EXCEPT ![t] = Encode(snap[r])]
              /\ Goto(t, "ckptBody")
              /\ UNCHANGED <<req, attempt, clashes, target, action, answer>>
         ELSE Return(t, "ok")
      /\ UNCHANGED <<bucket, replica, history, faults>>

\* put_if_absent; AlreadyExists is not an error here.
WriteBody(t) ==
  /\ pc[t] = "ckptBody"
  /\ bodies' = IF target[t] \in DOMAIN bodies THEN bodies
               ELSE WithKey(bodies, target[t], body[t])
  /\ Goto(t, "ckptPtr")
  /\ UNCHANGED <<log, pointer, inflight, unheard, replica, req, attempt, clashes, target, action,
                 body, answer, history, faults>>

\* An unconditional put: a slow writer may move the pointer back.
WritePointer(t) ==
  /\ pc[t] = "ckptPtr"
  /\ pointer' = target[t]
  /\ Return(t, "ok")
  /\ UNCHANGED <<log, bodies, inflight, unheard, replica, history, faults>>

\* maybe_checkpoint swallows the error.
CheckpointFails(t) ==
  /\ pc[t] \in {"ckptBody", "ckptPtr"}
  /\ Fault
  /\ Return(t, "ok")
  /\ UNCHANGED <<bucket, replica, history>>

-----------------------------------------------------------------------------
(* catch_up, run by a task that lost, by the refresh timer or by open      *)

\* Only an empty snapshot starts from a checkpoint.
FirstStage(r) == IF ver[r] = 0 THEN "resolve" ELSE "list"

BeginCatchUp(r, holder) ==
  /\ lock[r] = "free"
  /\ lock' = [lock EXCEPT ![r] = holder]
  /\ stage' = [stage EXCEPT ![r] = FirstStage(r)]
  /\ UNCHANGED <<bucket, up, snap, ver, listing, history, faults>>

CatchUpAfterLoss(t) ==
  /\ pc[t] = "exists"
  /\ BeginCatchUp(Home[t], t)
  /\ Goto(t, "catchup")
  /\ UNCHANGED <<req, attempt, clashes, target, action, body, answer>>

Refresh(r) ==
  /\ RefreshTimer
  /\ up[r]
  /\ BeginCatchUp(r, "refresh")
  /\ UNCHANGED task

Open(r) ==
  /\ ~up[r]
  /\ BeginCatchUp(r, "open")
  /\ UNCHANGED task

\* resolve_checkpoint: a missing or dangling pointer means a full replay.
ResolveCheckpoint(r) ==
  /\ stage[r] = "resolve"
  /\ IF pointer \in DOMAIN bodies
     THEN /\ snap' = [snap EXCEPT ![r] = Decode(bodies[pointer])]
          /\ ver' = [ver EXCEPT ![r] = pointer]
     ELSE UNCHANGED <<snap, ver>>
  /\ stage' = [stage EXCEPT ![r] = "list"]
  /\ UNCHANGED <<bucket, up, lock, listing, task, history, faults>>

\* Mutants: one page of the listing; a listing that starts one key too late.
FirstPage(r) == {v \in DOMAIN log : v = ver[r] + 1}
OneKeyTooLate(r) == {v \in DOMAIN log : v > ver[r] + 1}

\* list_all_after: the keys after the snapshot's own commit, all pages of them.
AllPages(r) == {v \in DOMAIN log : v > ver[r]}

\* read_commits_after: the listing is drained and every listed commit is read.
ReadCommits(r) ==
  /\ stage[r] = "list"
  /\ listing' = [listing EXCEPT ![r] = AllPages(r)]
  /\ stage' = [stage EXCEPT ![r] = "replay"]
  /\ UNCHANGED <<bucket, up, snap, ver, lock, task, history, faults>>

\* One round of the loop over the commits read.
Replay(r) ==
  /\ stage[r] = "replay"
  /\ ver[r] + 1 \in listing[r]
  /\ snap' = [snap EXCEPT ![r] = Apply(@, log[ver[r] + 1].action)]
  /\ ver' = [ver EXCEPT ![r] = @ + 1]
  /\ UNCHANGED <<bucket, up, lock, stage, listing, task, history, faults>>

\* Releases the write lock, as catch_up's return and the drop of its future do.
Unlock(r) ==
  /\ lock' = [lock EXCEPT ![r] = "free"]
  /\ stage' = [stage EXCEPT ![r] = "idle"]
  /\ listing' = [listing EXCEPT ![r] = {}]

TryAgain(t) ==
  /\ attempt' = [attempt EXCEPT ![t] = @ + 1]
  /\ action' = [action EXCEPT ![t] = NoAction]
  /\ Goto(t, "build")
  /\ UNCHANGED <<req, clashes, target, body, answer>>

\* Mutant: a loop that ends in Ok.
EndInOk(t) ==
  IF attempt[t] = MaxCommitAttempts THEN Return(t, "ok") ELSE TryAgain(t)

\* A loser builds again, or gives up when the attempts are used up.
NextAttempt(t) ==
  IF attempt[t] = MaxCommitAttempts THEN Return(t, "contention") ELSE TryAgain(t)

EndCatchUp(r) ==
  /\ stage[r] = "replay"
  /\ ver[r] + 1 \notin listing[r]
  /\ Unlock(r)
  /\ up' = [up EXCEPT ![r] = TRUE]
  /\ IF lock[r] \in Task THEN NextAttempt(lock[r]) ELSE UNCHANGED task
  /\ UNCHANGED <<bucket, snap, ver, history, faults>>

\* A transport error under the timer is logged, under open it ends the process.
CatchUpFails(r) ==
  /\ lock[r] \in {"open", "refresh"}
  /\ stage[r] \in {"resolve", "list"}
  /\ Fault
  /\ Unlock(r)
  /\ IF up[r] THEN UNCHANGED <<snap, ver>>
     ELSE /\ snap' = [snap EXCEPT ![r] = EmptySnapshot]
          /\ ver' = [ver EXCEPT ![r] = 0]
  /\ UNCHANGED <<bucket, up, task, history>>

-----------------------------------------------------------------------------
(* The object store and the network                                        *)

Waiting(m) == pc[m.task] = "put" /\ target[m.task] = m.target

\* If-None-Match: *
KeyIsFree(m) == m.target \notin DOMAIN log

\* The newest state below version v; Gapless says that it is the one of v - 1.
StateBefore(v) ==
  history[CHOOSE u \in DOMAIN history : u < v /\ \A w \in DOMAIN history : w < v => w <= u]

\* The object is created, in one step for everybody.
Created(m) ==
  /\ m \in inflight
  /\ KeyIsFree(m)
  /\ log' = WithKey(log, m.target, [by |-> m.task, action |-> m.action])
  /\ history' = WithKey(history, m.target, Apply(StateBefore(m.target), m.action))

\* The answer arrives, if somebody still waits for it.
Land(m) ==
  /\ Created(m)
  /\ inflight' = inflight \ {m}
  /\ IF Waiting(m) THEN Goto(m.task, "created") ELSE UNCHANGED pc
  /\ UNCHANGED <<bodies, pointer, unheard, replica, req, attempt, clashes, target, action, body,
                 answer, faults>>

\* The answer is lost and the SDK sends the same PUT again.
LandUnheard(m) ==
  /\ SdkRetry
  /\ Waiting(m)
  /\ Fault
  /\ Created(m)
  /\ unheard' = unheard \cup {m.target}
  /\ UNCHANGED <<bodies, pointer, inflight, replica, task>>

\* 412: AlreadyExists.
Refuse(m) ==
  /\ m \in inflight
  /\ m.target \in DOMAIN log
  /\ inflight' = inflight \ {m}
  /\ IF Waiting(m) THEN Goto(m.task, "exists") ELSE UNCHANGED pc
  /\ UNCHANGED <<log, bodies, pointer, unheard, replica, req, attempt, clashes, target, action,
                 body, answer, history, faults>>

\* 409, taken for AlreadyExists: another PUT for the key is under way, whose
\* object is not there yet, and may never be.
Collide(m) ==
  /\ m \in inflight
  /\ KeyIsFree(m)
  /\ \E l \in inflight : l # m /\ l.target = m.target
  /\ Fault
  /\ inflight' = inflight \ {m}
  /\ clashes' = [clashes EXCEPT ![m.task] = @ + 1]
  /\ IF Waiting(m) THEN Goto(m.task, "exists") ELSE UNCHANGED pc
  /\ UNCHANGED <<log, bodies, pointer, unheard, replica, req, attempt, target, action, body,
                 answer, history>>

\* Mutant: a lock that outlives its holder.
KeepLock(r, t) ==
  /\ stage' = IF lock[r] = t THEN [stage EXCEPT ![r] = "idle"] ELSE stage
  /\ UNCHANGED <<lock, listing>>

\* The write lock of a dropped future is released with it.
ReleaseLock(r, t) ==
  IF lock[r] = t THEN Unlock(r) ELSE UNCHANGED <<lock, stage, listing>>

\* A transport error that `?` returns, or the client drops the request: the
\* future ends at its await, and a write lock it holds is released.
Abandon(t) ==
  LET r == Home[t]
  IN  /\ pc[t] \in AtAwait
      /\ pc[t] = "catchup" => stage[r] \in {"resolve", "list"}
      /\ Fault
      /\ Return(t, "unknown")
      /\ ReleaseLock(r, t)
      /\ UNCHANGED <<bucket, up, snap, ver, history>>

\* The process ends; its memory and its calls are gone, PUTs already sent are not.
Crash(r) ==
  LET lost == {t \in Task : Home[t] = r /\ pc[t] \in Running}
  IN  /\ up[r]
      /\ Fault
      /\ up' = [up EXCEPT ![r] = FALSE]
      /\ snap' = [snap EXCEPT ![r] = EmptySnapshot]
      /\ ver' = [ver EXCEPT ![r] = 0]
      /\ Unlock(r)
      /\ pc' = [t \in Task |-> IF t \in lost THEN "done" ELSE pc[t]]
      /\ answer' = [t \in Task |-> IF t \in lost THEN "unknown" ELSE answer[t]]
      /\ action' = [t \in Task |-> IF t \in lost THEN NoAction ELSE action[t]]
      /\ body' = [t \in Task |-> IF t \in lost THEN NoBody ELSE body[t]]
      /\ UNCHANGED <<bucket, req, attempt, clashes, target, history>>

-----------------------------------------------------------------------------

Step(t) ==
  \/ BuildRejects(t) \/ BuildNothing(t) \/ BuildWrites(t)
  \/ ApplyOwn(t)
  \/ EncodeCheckpoint(t) \/ WriteBody(t) \/ WritePointer(t)
  \/ CatchUpAfterLoss(t)

CatchUpStep(r) == ResolveCheckpoint(r) \/ ReadCommits(r) \/ Replay(r) \/ EndCatchUp(r)

Answered(t) == \E m \in inflight : m.task = t /\ (Land(m) \/ Refuse(m))

Next ==
  \/ \E t \in Task :
       \/ \E q \in Workload : Call(t, q)
       \/ Step(t)
       \/ CheckpointFails(t)
       \/ Abandon(t)
  \/ \E r \in Replica :
       Open(r) \/ Refresh(r) \/ CatchUpStep(r) \/ CatchUpFails(r) \/ Crash(r)
  \/ \E m \in inflight : Land(m) \/ LandUnheard(m) \/ Refuse(m) \/ Collide(m)

Spec == Init /\ [][Next]_vars

-----------------------------------------------------------------------------
(* Safety                                                                  *)

\* Commit objects have no hole, so replay never meets the "log gap" error, and
\* every version has exactly one state.
Gapless ==
  /\ \A v \in DOMAIN log : \A u \in 1..v : u \in DOMAIN log
  /\ DOMAIN history = DOMAIN log \cup {0}

\* What a replica serves is a state the log went through, under its own
\* version: whichever mix of own applies, catch_ups, checkpoint reads and
\* restarts brought it there.  (Snapshot.version; StoreInner::catch_up)
SnapshotsArePrefixes ==
  \A r \in Replica : ver[r] \in DOMAIN history /\ snap[r] = history[ver[r]]

\* Every commit was decided on exactly the state it was appended to, however
\* stale its writer was when it began: a lost race re-runs the closure.
DecidedOnPredecessor ==
  \A v \in DOMAIN log :
    LET t == log[v].by
        before == history[v - 1]
    IN  /\ Accepts(before, req[t])
        /\ log[v].action = Build(before, t, req[t])

\* The UNIQUE constraints of the SQL schema hold in every state of the log, and
\* the natural-key index agrees with the rows.
NamesUnique == \A v \in DOMAIN history : IndexMatches(history[v])

\* However many replicas initialise the metastore, there is one row.
OneMetastore ==
  \A v \in DOMAIN history : \A i, j \in Unnamed(history[v]) : i = j

\* A checkpoint object is the state of the version it is named after, and the
\* pointer never dangles: replay from it is replay from zero.
CheckpointsAreStates ==
  /\ \A v \in DOMAIN bodies : v \in DOMAIN history /\ Decode(bodies[v]) = history[v]
  /\ pointer \in DOMAIN bodies \cup {0}

CommitsOf(t) == {v \in DOMAIN log : log[v].by = t}

\* A caller that was told Ok finds its write on the replica that told it so,
\* even when the replica restarted since.
ReadYourWrites ==
  \A t \in Task : answer[t] = "ok" /\ up[Home[t]] =>
    \A v \in CommitsOf(t) : ver[Home[t]] >= v

\* The commits of t that it knows to be its own.
Heard(t) == CommitsOf(t) \ unheard

\* Ok means that one write of the call is in the log that it knows of (or that
\* there was nothing to do); AlreadyExists, NotFound and "commit contention"
\* mean that there is none.  A commit beside that one write is one whose answer
\* the network lost: the S3 client sent it again and was refused by it.
\* "Contention" means that each attempt met a commit or another writer's PUT.
AnswersMatchLog ==
  \A t \in Task :
    /\ answer[t] = "ok" /\ req[t].op # "init" => Cardinality(Heard(t)) = 1
    /\ answer[t] \in {"rejected", "contention"} => Heard(t) = {}
    /\ answer[t] = "contention" =>
         Cardinality(DOMAIN log) + clashes[t] >= MaxCommitAttempts

\* A PUT answered with 412 or 409 lost to another writer's commit.  (s3.rs:
\* "that means the same thing: someone else has the key"; mod.rs: "Lost the
\* race".)
RefusedBySomeoneElse ==
  \A t \in Task : pc[t] = "exists" => target[t] \notin CommitsOf(t)

-----------------------------------------------------------------------------
(* The inductive invariant behind the safety properties: what is in flight *)
(* and what a task holds between two steps was right when it was read, and *)
(* still describes the state it was read from.                             *)

\* The ghost is what replaying the log from zero gives.
HistoryIsReplay ==
  /\ history[0] = EmptySnapshot
  /\ \A v \in DOMAIN log : history[v] = Apply(history[v - 1], log[v].action)

CallersKnown ==
  /\ \A t \in Task : pc[t] # "idle" => req[t] \in Workload
  /\ \A m \in inflight : pc[m.task] # "idle"
  /\ \A v \in DOMAIN log : pc[log[v].by] # "idle"

\* A PUT in flight was built on the state just before its version.
PutsBuiltOnState ==
  \A m \in inflight :
    LET before == history[m.target - 1]
    IN  /\ m.target - 1 \in DOMAIN history
        /\ Accepts(before, req[m.task])
        /\ m.action = Build(before, m.task, req[m.task])
        /\ Waiting(m) => action[m.task] = m.action

TasksRemember ==
  \A t \in Task :
    /\ pc[t] \in {"created", "ckpt", "ckptBody", "ckptPtr"} => target[t] \in DOMAIN log
    /\ pc[t] = "created" => action[t] = log[target[t]].action
    /\ pc[t] = "ckptBody" => body[t] = Encode(history[target[t]])
    /\ pc[t] = "ckptPtr" => target[t] \in DOMAIN bodies

\* A write lock held across awaits belongs to a catch_up that is under way, and
\* a checkpoint is only consulted by an empty snapshot.
LocksHeld ==
  /\ \A r \in Replica :
       /\ lock[r] = "free" <=> stage[r] = "idle"
       /\ lock[r] \in Task => pc[lock[r]] = "catchup" /\ Home[lock[r]] = r
       /\ stage[r] = "resolve" => ver[r] = 0
  /\ \A t \in Task : pc[t] = "catchup" => lock[Home[t]] = t

ListingsExist == \A r \in Replica : listing[r] \subseteq DOMAIN log

BodiesEncodeStates ==
  /\ \A v \in DOMAIN bodies : v \in DOMAIN history /\ bodies[v] = Encode(history[v])
  /\ pointer \in DOMAIN bodies \cup {0}

\* The strengthening that makes SnapshotsArePrefixes and its companions
\* inductive (StoreInner::commit and catch_up, all interleavings).
IInv ==
  /\ TypeOK /\ Gapless /\ HistoryIsReplay /\ CallersKnown
  /\ SnapshotsArePrefixes /\ NamesUnique /\ DecidedOnPredecessor
  /\ PutsBuiltOnState /\ TasksRemember /\ BodiesEncodeStates
  /\ ListingsExist /\ LocksHeld

-----------------------------------------------------------------------------
(* What a step may never do                                                *)

\* A commit object, once there, is there for good and never changes.
LogAppendOnly ==
  [][\A v \in DOMAIN log : v \in DOMAIN log' /\ log'[v] = log[v]]_log

\* While a replica serves, it never goes back to an older state.
VersionsAdvance ==
  [][\A r \in Replica : up[r] /\ up'[r] => ver'[r] >= ver[r]]_<<up, ver>>

-----------------------------------------------------------------------------
(* Liveness.  tokio's RwLock serves its waiters in order, so a step that   *)
(* finds the lock free again and again is taken (SF); a PUT in flight is   *)
(* answered; a process that is down is started again; the timer fires.     *)

Fairness ==
  /\ \A t \in Task : SF_vars(Step(t)) /\ WF_vars(Answered(t))
  /\ \A r \in Replica : /\ WF_vars(CatchUpStep(r))
                         /\ WF_vars(Open(r))
                         /\ SF_vars(Refresh(r))

FairSpec == Spec /\ Fairness

\* Every call returns, whatever the races, and whatever is abandoned beside it.
EveryCallReturns == \A t \in Task : pc[t] \in Running ~> pc[t] = "done"

\* With the refresh timer on, every replica keeps reaching the end of the log.
ReplicasConverge ==
  \A r \in Replica : []<>(up[r] /\ ver[r] = Cardinality(DOMAIN log))

=============================================================================
