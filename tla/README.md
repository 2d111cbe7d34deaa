# A verification model of the Unity Catalog server

This directory models the server in `src/crates` (Rust): its log-structured
metadata store, the operations the repositories run on it, and what the server
promises its callers. TLC checks the modules on small instances; TLAPS proves
the main safety properties for every instance. The reference is the code. Paths
below are relative to `src/crates` unless they start with `src/`.

## 1. Inventory

The server keeps no database. Every process ("replica") holds the whole
metadata state in memory and appends to a shared log of immutable objects in a
bucket, one object per commit. The only concurrency control is a conditional
PUT, `If-None-Match: *`.

| Component | State | Operations | Talks to |
|---|---|---|---|
| Snapshot (`uc-db/src/store/mod.rs`, `row.rs`, `action.rs`) | rows by kind and id, natural-key index, version | `apply`, `get*`, `scan*`, checkpoint encode and decode | called by everything below |
| Commit loop, replay, checkpoints (`store/mod.rs`, `store/log.rs`) | the snapshot behind a tokio `RwLock` | `commit`, `catch_up`, `open`, `write_checkpoint`, refresh timer | object log |
| Object log (`store/s3.rs`, `store/memory.rs`) | the bucket | `put_if_absent`, `put`, `get`, `list_after` | S3 |
| Repositories (`uc-db/src/repos`) | none | one build closure per operation | commit loop |
| Delta commit logs (`store/delta_log.rs`, `repos/delta.rs`, `uc-api/src/delta_api/tables.rs`, `catalog_api/delta_commits.rs`) | one log per table, latest-version hints per process | append, list, latest version, mark backfilled | object log |
| Users (`repos/user.rs`, `control_api/scim2.rs`) | user rows | create, find or create, update, delete | commit loop |
| Authorizer (`uc-auth`, `repos/casbin.rs`, `catalog_api/permissions.rs`) | casbin policies in memory, casbin rows in the log | authorize, grant, revoke, hierarchy links | commit loop |
| Startup (`uc-server/src/main.rs`) | none | metastore, admin, operator principals, grants | all of the above |
| Registered models (`repos/model.rs`, `catalog_api/models.rs`) | models, versions, `max_version_number` | create and finalize versions, delete | commit loop |
| Staging tables (`repos/staging.rs`, `catalog_api/staging_tables.rs`, `tables.rs`) | staging rows | create, commit into a table | commit loop, authorizer |
| Catalog hierarchy (`catalog_api/{catalogs,schemas,tables}.rs`) | rows of every kind | create, update, cascading delete | repositories, authorizer |
| Listing and pagination (`uc-db/src/pagination.rs`, `scan*`) | page tokens held by clients | list | snapshot |
| Credential vending (`uc-credentials/src/vendor.rs`, `catalog_api/{credentials,external_locations,temp_credentials}.rs`) | rows of credentials and locations, a cache per process | administer the rows, vend | STS, repositories |
| Middleware, tokens, API types, errors, telemetry | none that outlives a request | | |

What is hard, and what makes each part correct:

* **Commit loop.** Several tasks per process and several processes race for the
  next version. Between the read lock under which a closure decides, the PUT, and
  the write lock under which it is applied, anything may happen: another task
  applies or replays the same commit, the process dies, the request is dropped,
  the PUT lands late, its answer is lost. Correct means: the log is a serial
  history; every replica shows a prefix of it; answers tell the truth about it.
* **Checkpoints.** They are written without a lock by whoever commits version
  100, 200, ..., in two objects, the second one unconditional. Correct means:
  a checkpoint is the state it is named after, and starting from it cannot be
  told from starting at zero.
* **Uniqueness.** SQL's UNIQUE constraints became checks inside closures and an
  index inside the snapshot. Correct means: no race makes two rows share a name,
  and the index never disagrees with the rows.
* **Delta logs.** Clients choose versions; the process keeps hints. Correct
  means: one winner per version, and hints cost time only.
* **Users.** A token's subject, a user's name, its email and its external id live
  in one space and are looked up in several ways. Correct means: whoever a token was
  resolved to is the user the handler acts for, and nobody takes over a subject.
* **Authorizer.** Three copies of the rules: the log, the replica's snapshot, and
  casbin's memory, which is loaded once. Correct means: however stale the memory,
  nobody is let in without a rule that once was there, and the copies part only where
  another process (or a lost answer) came in between.
* **Startup.** Replicas seed, create the admin and grant, side by side, and may stop
  between any two commits. Correct means: what a start leaves undone a later one
  does, except where the code says that it does not.
* **Hierarchy, models, staging, listings.** One request is several commits, with
  reads in between that the commits do not repeat. Correct means: what a handler
  alone keeps together stays together, and interference is the only excuse.
* **Vending.** A location, a credential and a cache are read one after the other,
  and a clock decides what is still good. Correct means: the role was configured for
  the path, the cache mixes nothing up, and what it hands out has not expired.

## 2. Plan

Done, in this order:

1. `Snapshot`, `MetadataOps`, `CommitStore`: the store itself.
2. `Registry`, `StoreImplementsRegistry`: what the store promises, and the
   refinement. It justifies that the modules of steps 5 to 7 take a commit for one
   atomic step and do not repeat the commit loop.
3. `CommitStore_proofs`, `StoreImplementsRegistry_proofs`: the inductive invariant,
   what callers are told, the refinement step by step.
4. `DeltaLog`, `CommitTable`, `DeltaImplementsTable`, `DeltaLog_proofs`,
   `DeltaAnswers_proofs`: the per-table commit logs and the handlers that use them, the
   SQL table they stand in for, their invariant, and the proofs that answers are fresh,
   true and complete and that the logs are such a table.
5. `Access`, `Access_proofs`: users, authorizer and startup on several replicas.
6. `Objects`, `Objects_proofs`, `ObjectParts_proofs`: the hierarchy, models, staging
   tables and listings.
7. `Vending`, `Vending_proofs`: credentials, locations, the vendor's cache.

Left, most important first:

8. More than one level of hierarchy in `Access`, so that links that handlers forget
   (`Objects`) are seen to matter to checks.
9. `finalize` and `update_version` of models, the Delta API's drop and rename.

## 3. Modules

### Snapshot

`Snapshot` is the struct of the same name. `rows` is `entities`; `index` is
`by_natural_key`. A natural key is a member of `Name`: the kind and parent id that
`natural_key_for` puts in front are part of it. A kind without a UNIQUE constraint
has `NoName`. A row is its name and the set of updates merged into it; no property
needs more of its columns. `Apply` follows `Snapshot::apply` to the letter where the
index is concerned: the entry of the row's previous name is dropped whoever owns
it. `Encode` and `Decode` are the checkpoint codec: rows only, the index rebuilt in
id order, so of two rows with one name the larger id wins.

### MetadataOps

The closures of `repos/catalog.rs` (create, update, delete by name), which schemas,
volumes, functions, credentials and external locations share, and the singleton
of `repos/metastore.rs`. A closure has three outcomes: `Rejects` (Err),
`NothingToDo` (no actions), or an action `Build`.

### CommitStore

One bucket, any number of replicas, any number of calls. State against code:

| Variables | Code |
|---|---|
| `log`, `bodies`, `pointer` | objects `_uc_log/N.json`, `_uc_log/N.checkpoint.json`, `_uc_log/_last_checkpoint` |
| `inflight` | conditional PUTs on the wire; an entry stays when its caller is gone |
| `snap`, `ver`, `up` | `StoreInner::state`, its version, whether `open` has returned |
| `lock`, `stage`, `listing` | the write guard `catch_up` holds across awaits, where it is, what it has read |
| `pc`, `req`, `attempt`, `target`, `action`, `body`, `answer` | one task inside `commit` and `write_checkpoint` |
| `history` | ghost: the state after each commit |
| `unheard`, `clashes` | ghosts: the commits whose writer never got the answer Created; how often a call's PUT was answered 409 |
| `faults` | bound on crashes, abandoned calls, lost answers and collisions |

Actions against code: `Call`; `BuildRejects`, `BuildNothing`, `BuildWrites` (the
closure under the read lock and the PUT sent after it); `Land` (the object is
created, the answer arrives if somebody waits); `Refuse` (412, the key is there);
`Collide` (409, which `s3.rs:84` takes for the same: another PUT for the key is under
way, whose object is not there yet and may never be); `LandUnheard` (the answer is
lost and the client resends); `ApplyOwn` (write lock, next in line or not);
`EncodeCheckpoint`, `WriteBody`, `WritePointer`, `CheckpointFails`;
`CatchUpAfterLoss`, `Refresh`, `Open` (the three callers of `catch_up`);
`ResolveCheckpoint`, `ReadCommits`, `Replay`, `EndCatchUp`, `CatchUpFails`;
`Abandon` (a transport error, or axum drops the handler's future); `Crash`.

Steps are as large as the code allows. A read lock is held without an await, so
the closure is one step. Reading the pointer and then the body is one step
because bodies never change once written. The replay loop has no await, but takes
a step per commit; the lock is held, so nobody sees the difference. Commits that
carry several actions are one atomic step in the code, as here.

### Registry and StoreImplementsRegistry

`Registry` is the promise: a sequence of states; a call takes effect at most once,
atomically, on the latest state; a refusal is justified by some state of the past
(reads are stale on purpose); a caller that got an error may still see its write
take effect later. Where PUTs are resent (`Resends`, which is `SdkRetry`), a call that
is under way may also take effects it does not hear of (`TakeEffectUnheard`): its PUT
lands, the answer is lost, the resent PUT is refused, and the call goes on as one that
has not written (see the first finding). `StoreImplementsRegistry` maps the log's states
to `states`, the landing of the PUT to `TakeEffect` or `TakeEffectUnheard`, and the
calls with a commit outside `unheard` to `done`. It holds whatever `SdkRetry` is.

### MCCommitStore

Values for TLC: two replicas, two names, up to three calls, of which two share a
replica so that both kinds of race (in a process, between processes) occur.

### DeltaLog

`delta_log.rs`, `repos/delta.rs`, and the handlers `update_table`, `load_table`
(Delta API), `commit`, `get_commits` (catalog API), for any number of tables,
processes and requests. State against code:

| Variables | Code |
|---|---|
| `log` | objects `_uc_log/tables/{id}/{version:020}.json`; of the body, who wrote it and the latch |
| `inflight` | conditional and unconditional PUTs on the wire, and metadata commits under way |
| `metadata` | which metadata updates have reached the metastore |
| `unheard` | ghost: the appends whose requester was not told that they were created |
| `hint` | `DeltaLog::latest_hint`, one map per process |
| `pc`, `at`, `latest` | the handler, the update it is at, its `latest` |
| `cursor`, `found` | the listing: `list_all_in_range`'s cursor and what it has collected |
| `rows`, `top`, `answer`, `reply` | what `get_commits` lists, what `latest_version` returned, the response |
| `present` | ghost: the versions that were there when the request came in |

Actions against code: `Call`; `ReadHint`, `ListBeyond`, `KeepHint` (`latest_version`:
read lock, one listed page per step, write lock and return); `ListRange`
(`versions`); `RejectAdd`, `SendAdd`, `Appended` (`update_table`'s check, `append`);
`MarkNothing`, `SendMark` (`mutate_commit`: the read and the edit are one step, the
write lands later); `SendMeta` (one commit of the metastore; an update that makes
several, as `set-columns` and `set-protocol` do, stands as often in `updates`);
`UpdatesDone`; `LandAdd`, `LandAddUnheard`, `Refuse` (412 and 409,
`TakenOrContended`), `LandMark`, `LandMeta` (the bucket and its answers); `Abandon`
(error or dropped request), `Restart`.

`KeyBefore` is the order of the formatted keys, which is the order of the versions
only from zero on: `-` sorts before the digits, and what follows it is not turned
round. A listing is paged in that order. A table's name is resolved before the
request starts: a table dropped and created again meanwhile has another id, and so
another log.

### CommitTable, DeltaImplementsTable and MCDeltaLog

`CommitTable` is what the logs replaced: a SQL table with a unique version column,
an insert that claims a version once, and a MAX answered in one instant.
`DeltaImplementsTable` maps `log` to its rows and `top` to its query; `MCDeltaLog` holds
the workloads. That `ListBeyond`'s last step is a `QueryHighest` means that a hint, however
stale, and a listing paged while others write, amount to one atomic query at the
moment of the last, empty page.

This is true of the highest version only. The rows that `get_commits` lists are no
snapshot: versions may land out of order while it pages, so it may list a version
and miss a lower one that landed earlier but after the request came in.
`RangesComplete` states what it does promise.

### Access

Users, casbin rules and the replicas that act on them. A change of rows is one step
on `db`, the head of the log. What is not atomic is who knows of it:

| Variables | Code |
|---|---|
| `db` | user rows, their index by name, catalogs, casbin rules, at the head of the log |
| `view` | the snapshot of each replica (`StoreInner::state`) |
| `mem` | the memory of each replica's casbin enforcer |
| `boot` | where each replica is in `main` |
| `call` | where each request is in its handler, and whom it resolved |
| `maker`, `born`, `ever`, `revoked`, `foreign`, `cut`, `dup` | ghosts: how a user came about, which rules there have been, which changed behind an enforcer's back, whether a start was cut between the admin and its grant, whether a token's subject was somebody's name |

A closure that writes gets through only on the newest snapshot (`Commit` has the
guard `view[r] = db`); one that refuses, or finds nothing to do, answers from the
snapshot it has, however old. `AddRule` and `RemoveRule` are casbin over the adapter:
the adapter is asked first, and the memory changes only if the adapter reports a
change. When the answer of an append is lost, the retried closure finds its own
rule and reports none, so the row is there and the memory lacks it.

A user's id is a UUIDv7 made before the commit that brings the row (`scim2.rs:25`,
`main.rs:200`), and a closure that is run again keeps it. The order of ids is therefore
not the order of commits, and `NewUser` takes any id that is not in use. `first_where`
takes the smallest, so which user a subject leads to can change when another lands.

Startup is `Start`, `Seed` (one edge of the privilege hierarchy at a time),
`FindAdmin`, `CreateAdmin`, `GrantAdmin`, `FindOperator`, `GrantOperator`, `Serve`;
`Stop` may come anywhere. Requests are `Authenticate` (which provisions users),
`Check`, `CreateRow`, `Resolve`, `Apply`, `LinkChild`, `Answer`; SCIM is `ScimCreate`,
`ScimUpdate`, `ScimDelete`, a commit each. `GetUser` reads by email and then by
external id; both scans run on one snapshot here. A user's state is not modelled
because nothing decides on it: the middleware's documentation
(`uc-api/src/middleware.rs:18`) speaks of it, but the claims always say that the token
is a service's, which skips the look.

### Objects

Catalogs, schemas, tables, volumes, functions, models, with columns and parameters,
properties, versions, owner grants, links, staging tables. A call is the list of the
steps it has left (`todo`), one read or one commit each; a step may put others in front
(`CheckEmpty`, `ListChildren` and `NextChild` unfold a drop with force). The handler's
code is the list: `CreateSteps`, `DropSteps`, `CascadeSteps`, `StepsOn`. `Interrupt`
drops a call's list anywhere; nothing is undone, as in the code. Reads see the newest
rows: a call on a replica that lags counts as begun when its snapshot was the newest.
`FindRoot` reads the schema and the catalog in one step, where the code reads them one
after the other (`managed_storage.rs:26`); the property that asks where a root is from,
`RootOfOwnChain`, is about creations that no other call overlaps. A rename of a table or
of a model that is gone is no error, that of a catalog is. The check whether a catalog
or schema is empty reads up to four lists in the code and is one read here; the lists a
drop works through are read again, one by one, in both.

Ghosts say who is to blame: `touched` has the calls that wrote about an object, `met`
the pairs of calls that overlapped, `cut` the calls that ended early. `Disturbed(i)`
is the excuse that the properties allow: two calls that wrote about `i` overlapped, or
one of them ended early or is still at it. The handlers have no transactions, so more
cannot be promised; what the properties say is that nothing else breaks.

### Vending

Credentials, external locations, and the vendor of one process. A request goes
`CheckLocation` (only for bare paths: the privilege), `Locate`, `ReadCredential`,
`LookInCache`, `AssumeRole`, `Insert`, `Answer`, each a step, between which rows may
change, time pass (`Tick`) and the process restart. The administration is `Look` and then
`Refuse` or `Write`.

`db` is the head of the log. What this process reads is its snapshot, `view`, which lacks
the last `lag` commits, all of them made by another replica's calls (`Elsewhere`), until
`CatchUp`. A write of this process gets through only at `lag = 0`, since it takes the next
key of the log; one that finds nothing to write (`Refuse`) answers from the snapshot,
however old. So a role that another replica has changed, or a credential it has dropped,
is still found and handed out until this process catches up, and `RoleWasConfigured`
promises no more than that some snapshot this process had during the call gave the role.
The replica of `Elsewhere` is always caught up; how replicas lag behind each other in
general is `CommitStore`'s business. Ids are made before the commit, so a new row takes
any id that was never `used`, a smaller one too, and `FindByPathPrefix` prefers small ids.

`now` is true time in units of the expiry buffer, `skew` what this process's clock is
off by: `Ttl` is computed with the skewed clock, and waited for with a monotonic one.
STS is external: it answers with any lifetime out of `Lives`, or refuses. A session with
no more than the buffer left has no computable lifetime and is kept for 55 minutes
(`Default`; `vendor.rs:74`), although `vendor.rs:149` says of it "don't cache": it is
then handed out again, also after its end. `FreshWhileClockAgrees` therefore exempts it
(`kept`).

### MCAccess, MCObjects, MCVending

The values for TLC: who asks for what, the rows there are to begin with, and the
symmetry of replicas and clients.

## 4. Runs

All runs check with `CHECK_DEADLOCK FALSE`: the calls are finitely many, each is
made once, and a system with nothing left to do has stopped rightly.

| Run | Asks | Bounds |
|---|---|---|
| `restarts` | Do replicas, checkpoints and answers survive crashes and abandoned calls, and is the store one atomic registry, the metastore's singleton included? | 3 calls out of create, rename, drop and the metastore's, 2 replicas, 2 names, 2 attempts, checkpoint every 2, 1 fault, PUTs resent |
| `liveness` | Does every call return, does every replica catch up? | 2 calls on one replica, a second replica that only follows, checkpoint every 2, 3 attempts, 1 fault, PUTs resent |
| `lost_answer` | Has a refused PUT always lost to somebody else? (No.) | 3 calls, 3 attempts, 1 fault, PUTs resent |
| `delta_races` | Are answers fresh, ranges complete, marks kept, and is it a SQL table? | 3 requests on 2 processes, 2 tables, 3 versions, 1 key per page, 1 fault, PUTs resent |
| `delta_clients` | What of a request took effect when it is refused or abandoned half way? Do well-behaved clients ever get a hole? | 4 requests that commit right above an answer or ask for one, `load_table` included, up to 3 updates each, 3 keys per page, 1 fault, PUTs resent |
| `delta_liveness` | Does every request end? | 3 requests out of 2, 1 table, no faults |
| `delta_negative` | Is the latest version the highest? (Not below zero.) | 3 requests, versions -2..0 |
| `access` | Who is a token's user, who gets past a check, what does a replica know? | 2 replicas, 2 calls at once out of 5 requests, 3 users, no faults |
| `subject_moves` | Is the choice among users of one subject stable? (No.) | as `access` |
| `startup` | What does a start leave undone, where do memory and log part? | 2 replicas, 3 users, 1 call out of the same 5 requests, 2 faults |
| `objects` | What do handlers that race leave intact, and what do handlers of several commits keep together when one is cut? | 15 requests, 3 calls of which 2 at once, 9 ids of which 7 are seeded, 1 row per page, 1 fault |
| `vending` | Whose role is handed out, for what, and is it still good? | 9 requests, 3 calls of which 2 at once on this process and 1 on another replica, sessions that last 1 against a buffer of 1, a default of 2, time to 1, a clock that is behind by the buffer, 1 restart |

The bounds are enough for the cases to happen: with two attempts and three calls
a call can exhaust its attempts; with a checkpoint every second commit, a start reads
a checkpoint and then the commits beyond it; with one fault a replica crashes, or a
call is abandoned with its PUT on the wire, at any moment; three calls on two replicas
make an own commit that a neighbour has already replayed, and a create, a rename and
another create race for two names.

`SnapshotsArePrefixes` and `ReadYourWrites` say what a reader of the store sees;
`DecidedOnPredecessor` and `NamesUnique` what a writer may rely on;
`AnswersMatchLog` what a caller is told, also when its attempts have run out: then
somebody else got through each time; `CheckpointsAreStates` what is in the bucket.

In the Delta runs, one key per page makes every listing take as many steps as it
has keys, so commits land before, at and behind its cursor; three versions are
enough for one to land on each side. Two requests share a process, so hints are
read stale, raised out of order and lost in a restart. `FreshAnswers` and
`RangesComplete` compare an answer with what was there when
the request came in; `AnswersMatchEffects` compares it with what took effect, also
when a write lands after its request is gone; `MarksStick` is what makes
`mutate_commit` without protection safe; `HistoryContiguous` is a
property of clients and server together. When a PUT is resent, an append may be refused
by itself: `AnswersMatchEffects` allows for the refused commit to be there in that case
only (`unheard`), and asks of every conflict that the version was taken, or that another
request came to it. `load_table` answers 0 for a table without commits, where the other
handlers answer -1, and a client that then commits the next version starts the log at 1:
`HistoryContiguous` allows version 0 to be missing, no other, and only where somebody was
told 0 of an empty table (`ToldZero`). Clients of `delta_clients` do so.

In `access` and `startup`, two replicas start side by side, a user is created whose
email and external id are the operator's subject, and a grant, a revocation and a
creation meet on the same or on different replicas; `access` has two calls at once,
`startup` two stops or lost answers anywhere. `AdminOwnsUnlessCut` says exactly when the
admin ends up without its grant: a start that is stopped (or whose answer is lost)
between the two commits, which no later start repairs, since the admin's user exists
by then. `OperatorsServed` says that operators are better off: their grant is asked
for at every start. `NamesUniqueUntilProvisioned` has the one escape there is:
`find_or_create_by_external_id` takes the subject for a name without looking whether
somebody has it. `SubjectsKeepTheirUser` says that only a creation by SCIM, or for an
email a start, can take a subject away from a user who is there: logins never do, however
many replicas meet a subject at once, because `find_or_create_by_external_id` looks again
on the snapshot it commits on. `MemoryAgrees`, `AllowedWereGranted` and `AnswerShowsChange` are
about the memory that is never reloaded.

In `objects`, the seed has two catalogs, so that `rename` and `delete` by name can
hit another catalog than the one that was looked at (`HitWhatWasChecked`), a staging
table, so that two creations can use it (`StagingTakenOnce`, `StagingFollowsTables`),
a model with a version (`VersionsInOrder`), and roots at both levels
(`RootOfOwnChain`). `NoOrphans`, `PartsFollowRows` and `OwnedAndLinked` are what the
cascades and creations keep by hand. `ListingComplete` pages by one row while rows
come and go.

In `vending`, the outer location covers the path of the inner one and has the smaller
id, so that the longest prefix and the smallest id part. One clock is
enough for `FreshWhileClockAgrees`: the one that is behind by all that the buffer
makes up for; a session put into the cache at time 0 has expired at time 1.
`RoleWasConfigured` has one excuse: location and credential are read one after the other,
and two commits that come into the snapshot in one call may mix.

Requests that share a process, and in `delta_clients` also the two processes, are
interchangeable, as are replicas and clients in `access` and `startup` and clients in
the runs of `Objects` and `Vending`; these runs use that symmetry, and check no liveness.

**Findings.** `store/s3.rs:75-77` says of a 412 or 409 that "someone else has the
key", and `store/mod.rs:439` treats it as a lost race. The S3 client is built with
the SDK's default retries (`uc-server/src/main.rs`), and `store/s3.rs` leaves
retries to it. When the answer of a successful PUT is lost, the retry is refused by
the caller's own commit. `lost_answer` shows it in a few steps: the call catches up
with its own write, builds again, and reports AlreadyExists for what it has just
created; a create that is run again after a rival's rename writes its row again under the
same id. This is why `AnswersMatchLog`, `AnswersMatchEffects` and `Registry` set the
commits of `unheard` apart. All passing runs of the two store models resend PUTs, and no
theorem assumes that they are not resent.

`commit` takes any version, also a negative one. Their keys sort in the opposite
order of the versions, and `latest_version` prefers what it lists beyond its hint to
the hint itself. `delta_negative` commits -1, then -2, and is told that the highest
committed version (`delta_log.rs:189`) is -2.

`first_where` (`repos/user.rs:25`) takes the smallest id of several users with one email
or external id, and says that this makes the choice stable. Ids are older than commits, so
in `subject_moves` a SCIM creation lands after a login has provisioned the subject, under
a smaller id, and the subject leads to the other user from then on.

Smaller disagreements, which no run is about: the middleware's documentation and
`vendor.rs:149`, both mentioned in section 3; a start fails for as long as a
principal that a token provisioned bears the admin's email as its name
(`CreateAdmin`'s last case); the grants of a deleted user, and locations whose
credential was deleted, stay behind.

### Fairness

`FairSpec` assumes strong fairness of a task's own steps and of the refresh timer:
tokio's `RwLock` is fair to its waiters in order, so a waiter that finds the lock
free again and again gets it. Answers of the object store (`Answered`), the steps of
a running `catch_up` and the restart of a process that is down (the pod's restart
policy) are weakly fair. Nothing is assumed of callers, faults or checkpoints'
failures. `ReplicasConverge` needs the timer: without `--refresh-interval-secs` a
replica that does not write stays stale for ever, as the docs say.

The Delta handlers need less: a handler takes its next step, and a write that is
sent is answered. The hints' lock is never held across an await, so nobody waits for
it long. A listing ends because pages move the cursor and versions are finitely
many; an endless stream of appends could keep one going for ever, in the code as in
a larger model.

## 5. Proofs

What is proved needs no run: `TypeOK` of `CommitStore`, `DeltaLog` and `Access`, the
inductive invariants `IInv` and `LogInv`, and `Gapless`, `LogAppendOnly`,
`VersionsAdvance`, `OneMetastore`, `HintsInLog`, `CommitsWriteOnce`, `HintsAdvance`,
`UpKnowsHierarchy` and `OneUserPerSub` hold for all values of the constants and are
not checked again by TLC. The deepest of the proved properties are also checked, with
a bug in the code that breaks each, so that the statements are known to bite.

`CommitStore_proofs` begins with `Snapshot` and `MetadataOps`: it proves, for all ids,
names and calls, that `Apply` keeps snapshots well-typed (`ApplyType`) and names indexed
when the incoming name is free (`ApplyKeepsIndex`), that an accepted closure only brings
a free name (`BuildSound`) and no second singleton (`BuildKeepsSingleton`), and that a
checkpoint decodes to what was encoded (`DecodeEncode`).

It then proves `IInv` inductive and from it `TypeOK`,
`SnapshotsArePrefixes`, `DecidedOnPredecessor`, `NamesUnique`, `Gapless`,
`CheckpointsAreStates`, `LogAppendOnly`, `VersionsAdvance` and, with one more step,
`OneMetastore`. The argument:

* No safety property is inductive alone, because a PUT decides in one step what
  was computed in another. `PutsBuiltOnState` bridges the gap: whatever is in
  flight was accepted by, and built from, the state just before its version. That
  state can no longer change, so when the PUT lands, if it lands, the decision is
  still right. If the key is taken, it cannot land.
* `TasksRemember` does the same for what a task carries from the landing to the
  apply and through the checkpoint; `BodiesEncodeStates` for checkpoints;
  `ListingsExist` for the replay; `HistoryIsReplay` ties the ghost to the log.
* `NamesUnique` is part of the invariant because the codec is only an inverse on
  states with unique names, and because `Apply` keeps it only if the incoming name
  is free, which in turn needs the index to agree with the rows.
* `LocksHeld` is needed for `VersionsAdvance`: a checkpoint, possibly old, is read
  only while the snapshot is empty, and the lock keeps it so.

The proofs assume `SnapshotAssumption`, `OpsAssumption` and `StoreAssumption`: ids
are numbers (UUIDs are ordered), the sentinels are distinct from real values, and
calls are well-formed. Nothing is assumed about the number of replicas, calls,
attempts or faults; `SdkRetry` may be true.

`StoreImplementsRegistry_proofs` adds what callers know (`CallsInv`): an answer has its
reason (`Told`), every attempt is for a higher version than the one before (`Climbs`), so
that attempts that ran out were each lost to a commit that is there, and a commit whose
caller has an answer is in its replica's snapshot (`WritesSeen`), which gives
`ReadYourWrites`. For the last one a replay in progress has to be followed: the listing it
works through leaves out nothing up to its own last commit (`ListingsWhole`).
`AnswersMatchLog` and the refinement need in addition that a call is in the log at most
once, beside commits it never heard of (`OneEffect`). `StepRefines` then maps every
action: the landing of a PUT to `TakeEffect`, or to `TakeEffectUnheard` when its answer is
lost, a rejection or a closure with nothing to do to `Registry`'s, an exhausted or
broken-off call to its error, everything else to a stutter.

`DeltaLog_proofs` proves `LogInv` inductive, and from it `TypeOK`, `HintsInLog`,
`CommitsWriteOnce` and `HintsAdvance`. A hint comes from a listing's result or from
an append, each of which was computed some steps before the hint is raised.
`ListingsInLog` says that what a listing carries is in the log; `WritesSound` says the
same of an append that has landed, and that a mark on the wire rewrites its object as
it still is but for the latch, which is why two setters converge. The rest is that a
log only grows. `MaxOfIs`, `EmptyPage`, `PageIsPrefix` and `LastKeyIs` are about
paging: a page is a first part of what lies beyond the cursor, and an empty one
means that nothing does. The proofs assume `DeltaAssumption` and `VersionsBounded`:
versions are i64, so every non-empty set of them has a least and a greatest member.
Only the facts that need key order to be version order assume that no version is
negative.

`DeltaAnswers_proofs` proves `FreshAnswers` and `RangesComplete` under that
assumption (`delta_negative` shows that it is needed). Its `AnswersInv` follows one
request from step to step (`Sound`): while it pages, what it has not found lies beyond
its cursor (`Sorted`); from the last, empty page on it knows of a version no lower than
all that was there when it came in (`Knows`), and what `update_table` sends lies above
that; the rows of `get_commits` cover its range (`Covers`). A commit that lands during
a listing may be missed, but it was not there when the request came in.
`SentAboveKnown` carries the comparison over to the write in flight, which may land
when its request is long gone.

The same module follows a request's updates. `StageInv` says which update a handler is at
and what those before it have left in the log; a mark that was answered is in the body
that any mark on the wire was read from, which gives `MarksStick` although marks are
unconditional PUTs. `EffectsInv` adds that a first part of the updates has taken effect,
and no more than the one on the wire beside it, and that a refused append found its
version taken or contended (`RefusedByLog`); it gives `AnswersMatchEffects`. `HistoryInv`
counts: a client that commits right above a version that it was told adds to a log without
holes (`HistoryContiguous`), because what it was told is there (`ToldVersion`), or is the 0
of an empty table. `LogIsTable` maps the landing of an append to the table's
insert and the last, empty page of a listing to its MAX, for versions that are not
negative.

`Access_proofs` has three invariants. `RulesInv` follows every rule through the three
copies, and gives `MemoryAgrees` and `UpKnowsHierarchy`. `CallInv` uses that `Enforce`
is monotone in the rules, and gives `AllowedWereGranted`. `UserInv` is about the
rows, the index and what created them; it is kept by four kinds of steps (no row
changes, one is created, renamed, dropped) and gives `NamesUniqueUntilProvisioned` and
`OneUserPerSub`. `SubjectsKeepTheirUser` compares the lookups before and after a step
(`IdentStep`, `SubjectStep`): a login commits a user only on a snapshot in which nobody has
the subject, and the users with it lose a smallest one to a newcomer only (`LeastIs`,
`FirstStays`). Nothing is assumed of the order of ids.

Five more invariants are about starts and callers. `PastInv` bounds what is behind a
replica's snapshot: a rule it once had is in the log or was revoked. With it, `AdminsOwn`
follows a start from the admin's row to its grant, and `OperatorInv` counts off the
operators a start has still to see to, each served, found or to be done; `BornInv` says that
the row an operator was found by is the one it was created with. `Claims` says that the
subject in a request's claims is the resolved user's, so that `GetUser` can only find that
user while no two users share an email or external id (`CallersAreTokenUsers`). `Told` says
where the rule of a change that is to be answered is (`AnswersShow`).

`AccessAssumption` is all they assume: any number of replicas, clients, users, requests and
faults.

`Objects_proofs` proves `NamesUnique`, `TypeOK`, `StagingFollowsTables`,
`StagingTakenOnce`, `HitWhatWasChecked`, `ListingComplete`, `NoOrphans` and
`RootOfOwnChain`. For names, every step does one of five things to the objects (nothing,
a new one, one fewer, one with another key, a counter), and each keeps keys apart
(`UniqueInv`). The others need to know what a call has still to do, because it looked at
the rows several commits ago:

* `TInv` is the types, and that the steps in a call's list belong to its operation
  (`Regular`), so that a list never grows a step its handler does not have. Renames need
  `RenamesKind` for that, which is part of the next one.
* `RowsInv` says of every step in every list what must hold for it to be right when its
  turn comes (`StepOK`): the id a row is to be made under is fresh, or is that of a staging
  table that the call has committed, whose row, if there is one by now, was made by a call
  that ran at the same time (`MakerOK`); the catalog a name leads to is the one that was
  looked up, or was given the name by a call that overlapped (`NamedOK`); a listing has seen
  exactly the rows before its token, once, but for those somebody touched (`PageOK`). And of
  every row (`RowOK`): a staging table that is committed is a table's, or the call that
  committed it still has the row in its list, or was cut (`Pursued`).
* What is true of a step in the middle of a list stays true until the step comes first:
  `Shifted` and `TailOK` say how a list moves, `OtherOK` that no step of another call
  spoils it, since whoever writes about a row is remembered in `touched` and `met`.

* `KinInv` is about parents and roots. A row has a parent of the kind its own kind asks
  for, which is there or has been written about by two calls that overlapped; the call
  that made the row is among those that have written about it (`RowKin`). A creation
  past its first look says the same of the row it is about to make, and that the root it
  has found or will find is its parent's or its parent's parent's, or that it was not
  alone (`CallKin`). A drop that will take a catalog or schema away has a step before it
  for every child there is, a list of children not yet read, a set of children, or a
  drop, except for children made by calls that overlapped (`CoverOK`): what a step
  unfolds into covers what the step stood for (`FrontOK`). `NoOrphans` follows even for
  calls that are cut or still running, so it is proved stronger than `Disturbed` allows.

`ObjectsAssumption` says what the API makes of a request (`WellFormed`) and that the rows
at the start are consistent (`SeedRow`, `SeedParts`): unique names, parents that are there,
ids handed out from 1 on.

`ObjectParts_proofs` proves `VersionsInOrder`, `PartsFollowRows` and `OwnedAndLinked`.
Versions, columns, parameters, properties, owners and links are written by commits of
their own, so in the middle of a call they need not agree with the row, and none of the
three is inductive. What makes up for it is still in the list of some call, or the object is
`Broken`: two calls that overlapped have written about it, or one that did was cut. A call
that reads something about an object and uses it later has lost it (`Open`) when another
one has written about the object meanwhile, because whoever writes leaves its number in
`touched` and overlaps that call (`Apart`, `OthersLose`); when the call writes in turn,
the object is `Broken` (`BreaksNow`).

* `VersInv` is about versions. A model is `Broken`, or its versions are in order (`Good`), or
  a call has put its version and has only `max` left (`Maxing`). The number a call
  carries is one above the model's for as long as it has not put the version, then it is
  that of its version and above all others (`NumberOK`), unless it has lost the model.
* `HangInv` is about the rest. Columns, parameters or properties are as they should be
  (`Right`), or the object is `Broken`, or a call that has written about it still has to add
  them or to drop the row (`Belongs`, `Owes`); an owner and a link are there, or the
  call that made the object still has `grant` or `link` in its list and the parent the row
  names (`Owned`, `Makes`). Of the lists it says how steps follow each other (`Listed`:
  a drop's columns and properties come before its row, what a creation promises comes
  after it) and what a step will find (`Finds`: the columns are gone when the row goes,
  the row is there when its properties come, the catalog still has its name), unless the
  call has lost the object by then.

`Vending_proofs` proves `ServedAsAsked` and `FreshWhileClockAgrees` from `IInv`: an
entry of the cache is keyed by what its session is for, and is used no longer than its
session lasts unless the clock is behind by more than the buffer or the session was near
its end when it came (`EntryInv`; the theorem is `FreshUnlessKept` for this reason);
what a call carries between its steps is its own (`CallInv`). Three more invariants
follow it further. `TInv` is the types. `RInv` is about the role: while no commit has
come into this process's snapshot since a request came in, its location and credential
are those of the snapshot; after one the credential it holds still gives a role that
some snapshot of the call gave; two are the property's excuse. `Behind` says that the
snapshot is the log when it lags by nothing, and the log but for one change when it lags
by one commit; so a commit at home, and a catch-up over one commit, change credentials
or locations, not both. `AInv` is about what STS was asked for: a request overlaps all
that began after it, and what an earlier one got is in the cache until it is past its
use, the process restarts, or one that overlapped it replaced it (`Remembered`); so a
request that finds nothing there to use came too late for it (`StsAskedOnce`).
`VendingAssumption` is all they assume: requests have the fields that their operation
reads, and the sentinel is no name, role or id.

Every safety property that a passing run checks is proved. Only model-checked are the
liveness properties (`EveryCallReturns`, `ReplicasConverge`, `EveryRequestEnds`).
Liveness under fairness and ENABLED are out of the prover's reach, and so is induction
over data: that a recursive definition (the replay, the codec) computes what it should is
proved one step at a time.

## 6. What is not modelled

* Routing, API types, JSON, error rendering, telemetry; the check of a token's
  signature. They concern one request at a time and keep no state.
* Object bodies are never corrupted in the model, so the hole, gap, truncation and
  checksum errors of `log.rs` do not arise; `Gapless` shows that the server itself
  never causes one.
* Of the Delta API: looking up a table by name, and dropping a table under a running
  request. A latch is never cleared: older commits stay
  marked as the backfilled latest, as in the code. A table it creates is, in
  `Objects`, its row.
* Of the authorizer: hierarchies of more than one level, `save_policy` and
  `remove_filtered_policy` (nothing calls them), a user's state.
* Of the hierarchy: updates of comments and other columns that nothing decides on, the
  status of a model's version (`finalize`, `update_version`), the cut of a cascade's
  listings at 10000 children, `filter_visible`, a `max_results` of zero or below.
* Of vending: more than one replica that lags; local paths, Azure and Google (not
  implemented), the privileges on tables, volumes and models, renames and listings of
  credentials and locations, and the expiry of the presigned URL itself (300 s), which
  is shorter than what the cache holds. The Delta API's endpoints give the vendor no
  role, so it never has a session for them; that much is modelled.
