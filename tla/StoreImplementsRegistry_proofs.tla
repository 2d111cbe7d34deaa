------------------- MODULE StoreImplementsRegistry_proofs -------------------
(***************************************************************************)
(* What callers of the log-structured store are told, and that the store   *)
(* implements one atomic registry, for any number of replicas, calls,      *)
(* names, attempts and faults.                                             *)
(*                                                                         *)
(* A call that loses a race climbs: each PUT it sends is for a version     *)
(* above the last one, and whatever it was refused with is in its          *)
(* replica's snapshot before it builds again, unless it was answered 409,  *)
(* which is counted (clashes).  What a call has in the log, and how often, *)
(* follows from where the call is.  The S3 client's retries make the one   *)
(* exception: a call may be refused by its own commit, whose first answer  *)
(* was lost (run lost_answer).  Such commits are in the ghost unheard;     *)
(* what is said here is said of all the others.                            *)
(***************************************************************************)
EXTENDS StoreImplementsRegistry, CommitStore_proofs, FiniteSetTheorems

-----------------------------------------------------------------------------
(* What the callers know                                                   *)

HasLanded == {"created", "ckpt", "ckptBody", "ckptPtr"}

AtTarget == {"put", "created", "exists", "catchup"}

\* An answer is given at the end, for a reason that is there to see.
Told(t) ==
  /\ pc[t] = "idle" <=> req[t] = NoRequest
  /\ pc[t] = "done" <=> answer[t] # "none"
  /\ pc[t] \in Running => up[Home[t]]
  /\ pc[t] \in HasLanded => log[target[t]].by = t /\ target[t] \notin unheard
  /\ answer[t] = "ok" =>
       \/ \E v \in DOMAIN log \ unheard : log[v].by = t
       \/ \E v \in DOMAIN history : NothingToDo(history[v], req[t])
  /\ answer[t] = "rejected" => \E v \in DOMAIN history : Rejects(history[v], req[t])

\* The replica has seen the commit t lost to, or is about to, or t lost to
\* another call's PUT that was on its way (409).
Overtaken(t) ==
  LET r == Home[t]
  IN  \/ target[t] <= ver[r] \/ target[t] \in listing[r]
      \/ attempt[t] < target[t] + clashes[t] /\ target[t] \notin CommitsOf(t)

\* Every attempt is for a higher version than the one before, but for those
\* that were answered 409.
Climbs(t) ==
  LET r == Home[t]
  IN  /\ pc[t] = "idle" => attempt[t] = 1
      /\ pc[t] = "build" => attempt[t] <= ver[r] + 1 + clashes[t]
      /\ pc[t] \in AtTarget => attempt[t] <= target[t] + clashes[t] /\ target[t] <= ver[r] + 1
      /\ pc[t] \in {"exists", "catchup"} =>
           target[t] \in DOMAIN log \/ attempt[t] < target[t] + clashes[t]
      /\ pc[t] = "catchup" /\ stage[r] = "replay" => Overtaken(t)
      /\ answer[t] = "contention" =>
           \A v \in 1..(MaxCommitAttempts - clashes[t]) : v \in DOMAIN log

\* Nobody who was given a certain answer has a PUT on the wire.
SendersWait == \A m \in inflight : Waiting(m) \/ answer[m.task] = "unknown"

\* A listing holds all that lies between the snapshot and its own last commit.
ListingsWhole ==
  \A r \in Replica : stage[r] = "replay" =>
    \A v \in listing[r] : \A u \in 1..v : u <= ver[r] \/ u \in listing[r]

\* Replica r has commit v, or will have it when it serves again.
Shows(r, v) ==
  \/ up[r] /\ v <= ver[r]
  \/ ~up[r] /\ (stage[r] = "replay" => v <= ver[r] \/ v \in listing[r])

\* Where a commit is that its writer has not been left in doubt about.
Seen(v) ==
  LET t == log[v].by
  IN  \/ answer[t] = "unknown"
      \/ pc[t] \in AtTarget /\ v = target[t]
      \/ Shows(Home[t], v)

WritesSeen == \A v \in DOMAIN log : Seen(v)

\* Beside IInv, for calls under way and calls that have ended.
CallsInv ==
  /\ \A t \in Task : Told(t) /\ Climbs(t)
  /\ SendersWait /\ ListingsWhole /\ WritesSeen
  /\ IsFiniteSet(DOMAIN log)

\* But for commits it never heard of, a call is in the log once at most, and
\* then not on the wire any more.
OneEffect ==
  /\ \A l, m \in inflight : l.task = m.task => l = m
  /\ \A m \in inflight, v \in DOMAIN log \ unheard : log[v].by # m.task
  /\ \A u, v \in DOMAIN log \ unheard : log[u].by = log[v].by => u = v
  /\ \A v \in DOMAIN log \ unheard :
       pc[log[v].by] \in HasLanded \/ answer[log[v].by] \in {"ok", "unknown"}

-----------------------------------------------------------------------------
(* CallsInv is an invariant                                                *)

LEMMA InitCalls == Init => CallsInv
<1> SUFFICES ASSUME Init PROVE CallsInv
  OBVIOUS
<1>1. \A t \in Task : Told(t) /\ Climbs(t)
  BY DEF Init, Told, Climbs, Running, AtAwait, HasLanded, AtTarget
<1>2. SendersWait /\ ListingsWhole /\ WritesSeen
  BY DEF Init, SendersWait, ListingsWhole, WritesSeen
<1>3. IsFiniteSet(DOMAIN log)
  BY FS_EmptySet DEF Init
<1> QED BY <1>1, <1>2, <1>3 DEF CallsInv

\* What a step leaves true of the calls outside T, which it does not touch.
LEMMA CallsKept ==
  ASSUME IInv, CallsInv, TypeOK', NEW T,
         \A u \in Task \ T :
           /\ pc'[u] = pc[u] /\ req'[u] = req[u] /\ attempt'[u] = attempt[u]
           /\ clashes'[u] = clashes[u] /\ target'[u] = target[u] /\ answer'[u] = answer[u]
           /\ pc[u] \in Running => up'[Home[u]] /\ ver'[Home[u]] >= ver[Home[u]]
           /\ pc[u] = "catchup" /\ stage'[Home[u]] = "replay" => Overtaken(u)',
         \A v \in DOMAIN log :
           v \in DOMAIN log' /\ log'[v] = log[v] /\ (v \in unheard' <=> v \in unheard),
         \A v \in DOMAIN history : v \in DOMAIN history' /\ history'[v] = history[v],
         \A r \in Replica, v \in DOMAIN log : Shows(r, v) => Shows(r, v)'
  PROVE  /\ \A u \in Task \ T : Told(u)' /\ Climbs(u)'
         /\ \A m \in inflight : m.task \in T \/ Waiting(m)' \/ answer'[m.task] = "unknown"
         /\ \A v \in DOMAIN log : log[v].by \in T \/ Seen(v)'
<1>1. ASSUME NEW u \in Task \ T PROVE Told(u)'
  <2>1. Told(u)
    BY DEF CallsInv
  <2>2. pc[u] \in HasLanded => target[u] \in DOMAIN log
    BY DEF IInv, TasksRemember, HasLanded
  <2> QED BY <2>1, <2>2 DEF Told
<1>2. ASSUME NEW u \in Task \ T PROVE Climbs(u)'
  <2> DEFINE r == Home[u]
  <2>1. Climbs(u)
    BY DEF CallsInv
  <2>2. /\ r \in Replica /\ ver[r] \in Nat /\ ver'[r] \in Nat
        /\ target[u] \in Nat /\ attempt[u] \in Nat /\ clashes[u] \in Nat
    BY StoreAssumption DEF IInv, TypeOK
  <2>3. {"build"} \cup AtTarget \subseteq Running
    BY DEF AtTarget, Running, AtAwait
  <2>4. pc[u] = "build" \/ pc[u] \in AtTarget => ver'[r] >= ver[r]
    BY <2>3
  <2>5. pc[u] = "build" => attempt[u] <= ver'[r] + 1 + clashes[u]
    BY <2>1, <2>2, <2>4 DEF Climbs
  <2>6. pc[u] \in AtTarget => attempt[u] <= target[u] + clashes[u] /\ target[u] <= ver'[r] + 1
    BY <2>1, <2>2, <2>4 DEF Climbs
  <2>7. pc[u] \in {"exists", "catchup"} =>
          target[u] \in DOMAIN log' \/ attempt[u] < target[u] + clashes[u]
    BY <2>1 DEF Climbs
  <2>8. answer[u] = "contention" => \A v \in 1..(MaxCommitAttempts - clashes[u]) : v \in DOMAIN log'
    BY <2>1 DEF Climbs
  <2> QED BY <2>1, <2>5, <2>6, <2>7, <2>8 DEF Climbs
<1>3. ASSUME NEW m \in inflight, m.task \notin T
      PROVE  Waiting(m)' \/ answer'[m.task] = "unknown"
  BY <1>3 DEF CallsInv, SendersWait, Waiting, IInv, TypeOK, Put
<1>4. ASSUME NEW v \in DOMAIN log, log[v].by \notin T
      PROVE  Seen(v)'
  <2>1. Seen(v) /\ log[v].by \in Task \ T /\ Home[log[v].by] \in Replica
    BY <1>4, StoreAssumption DEF CallsInv, WritesSeen, IInv, TypeOK, Commit
  <2>2. log'[v] = log[v]
    OBVIOUS
  <2> QED BY <2>1, <2>2 DEF Seen
<1> QED BY <1>1, <1>2, <1>3, <1>4

\* A step that reads no listing leaves the listings whole.
LEMMA ListingsKept ==
  ASSUME IInv, ListingsWhole, TypeOK',
         \A r \in Replica : stage'[r] = "replay" =>
           stage[r] = "replay" /\ listing'[r] = listing[r] /\ ver'[r] >= ver[r]
  PROVE  ListingsWhole'
BY DEF ListingsWhole, IInv, TypeOK, Version

\* A call that has not been answered sends one PUT at a time.
LEMMA NoPutWhileBusy ==
  ASSUME IInv, CallsInv, NEW t \in Task, pc[t] \notin {"put", "done"}
  PROVE  \A m \in inflight : m.task # t
BY DEF CallsInv, Told, SendersWait, Waiting

\* A step of call t that writes no commit.
LEMMA CallMoves ==
  ASSUME IInv, CallsInv, TypeOK', NEW t \in Task,
         \A u \in Task \ {t} :
           /\ pc'[u] = pc[u] /\ req'[u] = req[u] /\ attempt'[u] = attempt[u]
           /\ clashes'[u] = clashes[u] /\ target'[u] = target[u] /\ answer'[u] = answer[u],
         UNCHANGED <<log, unheard, history, up>>,
         \A r \in Replica : ver'[r] >= ver[r],
         \A r \in Replica : stage'[r] = "replay" =>
           stage[r] = "replay" /\ listing'[r] = listing[r],
         \A m \in inflight' : m \in inflight \/ Waiting(m)',
         pc[t] # "done",
         pc[t] = "put" => answer'[t] = "unknown",
         pc[t] \in AtTarget =>
           \/ pc'[t] \in AtTarget /\ target'[t] = target[t]
           \/ up[Home[t]] /\ target[t] <= ver'[Home[t]]
           \/ target[t] \notin CommitsOf(t)
           \/ answer'[t] = "unknown",
         Told(t)', Climbs(t)'
  PROVE  CallsInv'
<1>r. \A u \in Task : Home[u] \in Replica
  BY StoreAssumption
<1>1. \A r \in Replica : ver[r] \in Nat /\ ver'[r] \in Nat /\ ver'[r] >= ver[r]
  BY DEF IInv, TypeOK
<1>2. \A r \in Replica, v \in DOMAIN log : Shows(r, v) => Shows(r, v)'
  BY <1>1 DEF Shows, IInv, TypeOK, Version
<1>3. ASSUME NEW u \in Task \ {t}
      PROVE  /\ pc[u] \in Running => up'[Home[u]] /\ ver'[Home[u]] >= ver[Home[u]]
             /\ pc[u] = "catchup" /\ stage'[Home[u]] = "replay" => Overtaken(u)'
  <2>1. Told(u) /\ Climbs(u) /\ target[u] \in Nat
    BY DEF CallsInv, IInv, TypeOK
  <2> QED BY <1>r, <1>1, <2>1 DEF Told, Climbs, Overtaken, CommitsOf
<1>4. /\ \A u \in Task \ {t} : Told(u)' /\ Climbs(u)'
      /\ \A m \in inflight : m.task \in {t} \/ Waiting(m)' \/ answer'[m.task] = "unknown"
      /\ \A v \in DOMAIN log : log[v].by \in {t} \/ Seen(v)'
  BY <1>2, <1>3, CallsKept
<1>5. SendersWait'
  BY <1>4, NoPutWhileBusy DEF SendersWait
<1>6. ListingsWhole'
  BY <1>1, ListingsKept DEF CallsInv
<1>7. ASSUME NEW v \in DOMAIN log, log[v].by = t PROVE Seen(v)'
  <2>1. Seen(v) /\ answer[t] # "unknown"
    BY DEF CallsInv, WritesSeen, Told
  <2>2. CASE Shows(Home[t], v)
    BY <1>r, <1>2, <1>7, <2>2 DEF Seen
  <2>3. CASE pc[t] \in AtTarget /\ v = target[t]
    BY <1>7, <2>3 DEF Seen, Shows, CommitsOf
  <2> QED BY <1>7, <2>1, <2>2, <2>3 DEF Seen
<1> QED BY <1>4, <1>5, <1>6, <1>7 DEF CallsInv, WritesSeen

\* How a call that is not lost returns.
LEMMA ReturnsTold ==
  ASSUME IInv, CallsInv, NEW t \in Task, pc[t] \in Running,
         NEW result \in {"ok", "rejected", "contention", "unknown"},
         Return(t, result), UNCHANGED <<log, unheard, history>>,
         result = "ok" =>
           \/ \E v \in DOMAIN log \ unheard : log[v].by = t
           \/ \E v \in DOMAIN history : NothingToDo(history[v], req[t]),
         result = "rejected" => \E v \in DOMAIN history : Rejects(history[v], req[t]),
         result = "contention" =>
           \A v \in 1..(MaxCommitAttempts - clashes[t]) : v \in DOMAIN log
  PROVE  Told(t)' /\ Climbs(t)'
<1>1. pc'[t] = "done" /\ answer'[t] = result /\ UNCHANGED <<req, attempt, clashes, target>>
  BY DEF Return, Goto, IInv, TypeOK
<1>2. req[t] # NoRequest
  BY DEF CallsInv, Told, Running, AtAwait
<1> QED BY <1>1, <1>2 DEF Told, Climbs, Running, AtAwait, HasLanded, AtTarget

-----------------------------------------------------------------------------
(* Steps of a call                                                         *)

LEMMA CallCalls ==
  ASSUME IInv, CallsInv, TypeOK', NEW t \in Task, NEW q \in Workload, Call(t, q)
  PROVE  CallsInv'
<1>1. /\ pc[t] = "idle" /\ up[Home[t]] /\ pc'[t] = "build" /\ req'[t] = q
      /\ \A u \in Task \ {t} : pc'[u] = pc[u] /\ req'[u] = req[u]
      /\ UNCHANGED <<bucket, replica, attempt, clashes, target, answer, history>>
  BY DEF Call, Goto, IInv, TypeOK
<1>2. q # NoRequest
  BY StoreAssumption
<1>3. Told(t)' /\ Climbs(t)'
  <2>1. Told(t) /\ Climbs(t) /\ ver[Home[t]] \in Nat /\ clashes[t] \in Nat
    BY StoreAssumption DEF CallsInv, IInv, TypeOK
  <2> QED BY <1>1, <1>2, <2>1 DEF Told, Climbs, Running, AtAwait, HasLanded, AtTarget, replica
<1>4. \A r \in Replica : ver'[r] >= ver[r]
  BY <1>1 DEF IInv, TypeOK, replica
<1> QED BY <1>1, <1>3, <1>4, CallMoves DEF bucket, replica, AtTarget

LEMMA BuildReturnsCalls ==
  ASSUME IInv, CallsInv, TypeOK', NEW t \in Task, BuildRejects(t) \/ BuildNothing(t)
  PROVE  CallsInv'
<1>1. /\ pc[t] = "build" /\ pc[t] \in Running
      /\ UNCHANGED <<bucket, replica, history>>
  BY DEF BuildRejects, BuildNothing, Running
<1>2. ver[Home[t]] \in DOMAIN history /\ snap[Home[t]] = history[ver[Home[t]]]
  BY StoreAssumption DEF IInv, SnapshotsArePrefixes
<1>3. PICK result \in {"ok", "rejected"} :
        /\ Return(t, result)
        /\ result = "ok" => \E v \in DOMAIN history : NothingToDo(history[v], req[t])
        /\ result = "rejected" => \E v \in DOMAIN history : Rejects(history[v], req[t])
  BY <1>2 DEF BuildRejects, BuildNothing
<1>4. Told(t)' /\ Climbs(t)'
  BY <1>1, <1>3, ReturnsTold DEF bucket
<1>5. \A r \in Replica : ver'[r] >= ver[r]
  BY <1>1 DEF IInv, TypeOK, replica
<1> QED BY <1>1, <1>3, <1>4, <1>5, CallMoves DEF Return, Goto, bucket, replica, AtTarget, IInv, TypeOK

LEMMA BuildWritesCalls ==
  ASSUME IInv, CallsInv, TypeOK', NEW t \in Task, BuildWrites(t)
  PROVE  CallsInv'
<1> PICK m : m = [task |-> t, target |-> ver[Home[t]] + 1,
                  action |-> Build(snap[Home[t]], t, req[t])]
  OBVIOUS
<1>1. /\ pc[t] = "build" /\ pc'[t] = "put" /\ target'[t] = ver[Home[t]] + 1
      /\ inflight' = inflight \cup {m}
      /\ \A u \in Task \ {t} : pc'[u] = pc[u] /\ target'[u] = target[u]
      /\ UNCHANGED <<log, unheard, replica, req, attempt, clashes, answer, history>>
  BY DEF BuildWrites, NextVersion, Goto, IInv, TypeOK
<1>2. Waiting(m)'
  BY <1>1 DEF Waiting
<1>3. Told(t)' /\ Climbs(t)'
  <2>1. Told(t) /\ Climbs(t) /\ ver[Home[t]] \in Nat /\ clashes[t] \in Nat
    BY StoreAssumption DEF CallsInv, IInv, TypeOK
  <2> QED BY <1>1, <2>1 DEF Told, Climbs, Running, AtAwait, HasLanded, AtTarget, replica
<1>4. \A r \in Replica : ver'[r] >= ver[r]
  BY <1>1 DEF IInv, TypeOK, replica
<1> QED BY <1>1, <1>2, <1>3, <1>4, CallMoves DEF replica, AtTarget

\* The replica has the commit when its own writer is through, by its own apply
\* or by another call's catch_up.
LEMMA ApplyOwnCalls ==
  ASSUME IInv, CallsInv, TypeOK', NEW t \in Task, ApplyOwn(t)
  PROVE  CallsInv'
<1> DEFINE r == Home[t]
<1>1. /\ pc[t] = "created" /\ pc[t] \in Running
      /\ UNCHANGED <<bucket, up, stage, listing, history, req, attempt, clashes, target>>
      /\ \A u \in Task \ {t} : pc'[u] = pc[u] /\ answer'[u] = answer[u]
      /\ \/ pc'[t] = "ckpt" /\ answer'[t] = answer[t]
         \/ Return(t, "ok")
  BY DEF ApplyOwn, Return, Goto, Running, AtAwait, IInv, TypeOK
<1>2. /\ r \in Replica /\ Told(t) /\ Climbs(t) /\ ver[r] \in Nat /\ target[t] \in Nat
      /\ ver \in [Replica -> Nat]
  BY StoreAssumption DEF CallsInv, IInv, TypeOK
<1>3. /\ up[r] /\ target[t] <= ver[r] + 1
      /\ target[t] \in DOMAIN log \ unheard /\ log[target[t]].by = t
  BY <1>1, <1>2 DEF Told, Climbs, HasLanded, AtTarget, IInv, TasksRemember
<1>4. ver' = [ver EXCEPT ![r] = IF NextInLine(t) THEN target[t] ELSE @]
  BY DEF ApplyOwn
<1>5. target[t] <= ver'[r] /\ \A q \in Replica : ver'[q] >= ver[q]
  <2>1. CASE ver[r] + 1 = target[t]
    BY <1>2, <1>4, <2>1 DEF NextInLine
  <2>2. CASE ver[r] + 1 # target[t]
    BY <1>2, <1>3, <1>4, <2>2 DEF NextInLine
  <2> QED BY <2>1, <2>2
<1>6. Told(t)' /\ Climbs(t)'
  <2>1. CASE Return(t, "ok")
    BY <1>1, <1>3, <2>1, ReturnsTold DEF bucket
  <2>2. CASE pc'[t] = "ckpt" /\ answer'[t] = answer[t]
    BY <1>1, <1>2, <1>3, <2>2
       DEF Told, Climbs, Running, AtAwait, HasLanded, AtTarget, bucket
  <2> QED BY <1>1, <2>1, <2>2
<1> QED BY <1>1, <1>3, <1>5, <1>6, CallMoves DEF bucket

\* A checkpoint written, skipped or failed is nothing to the caller.
LEMMA CheckpointCalls ==
  ASSUME IInv, CallsInv, TypeOK', NEW t \in Task,
         EncodeCheckpoint(t) \/ WriteBody(t) \/ WritePointer(t) \/ CheckpointFails(t)
  PROVE  CallsInv'
<1>1. /\ pc[t] \in {"ckpt", "ckptBody", "ckptPtr"} /\ pc[t] \in Running
      /\ UNCHANGED <<log, unheard, inflight, replica, history, req, attempt, clashes, target>>
      /\ \A u \in Task \ {t} : pc'[u] = pc[u] /\ answer'[u] = answer[u]
      /\ \/ pc'[t] \in {"ckptBody", "ckptPtr"} /\ answer'[t] = answer[t]
         \/ Return(t, "ok")
  BY DEF EncodeCheckpoint, WriteBody, WritePointer, CheckpointFails, Return, Goto, Running,
         AtAwait, bucket, IInv, TypeOK
<1>2. Told(t) /\ Climbs(t) /\ log[target[t]].by = t /\ target[t] \in DOMAIN log \ unheard
  BY <1>1 DEF CallsInv, Told, HasLanded, IInv, TasksRemember
<1>3. Told(t)' /\ Climbs(t)'
  <2>1. CASE Return(t, "ok")
    BY <1>1, <1>2, <2>1, ReturnsTold
  <2>2. CASE pc'[t] \in {"ckptBody", "ckptPtr"} /\ answer'[t] = answer[t]
    BY <1>1, <1>2, <2>2 DEF Told, Climbs, Running, AtAwait, HasLanded, AtTarget, replica
  <2> QED BY <1>1, <2>1, <2>2
<1>4. \A r \in Replica : ver'[r] >= ver[r]
  BY <1>1 DEF IInv, TypeOK, replica
<1> QED BY <1>1, <1>3, <1>4, CallMoves DEF replica, AtTarget

LEMMA CatchUpAfterLossCalls ==
  ASSUME IInv, CallsInv, TypeOK', NEW t \in Task, CatchUpAfterLoss(t)
  PROVE  CallsInv'
<1>1. /\ pc[t] = "exists" /\ pc'[t] = "catchup"
      /\ \A u \in Task \ {t} : pc'[u] = pc[u]
      /\ UNCHANGED <<bucket, up, ver, listing, history, req, attempt, clashes, target, answer>>
      /\ stage'[Home[t]] # "replay" /\ \A r \in Replica \ {Home[t]} : stage'[r] = stage[r]
  BY StoreAssumption
     DEF CatchUpAfterLoss, BeginCatchUp, FirstStage, Goto, IInv, TypeOK
<1>2. Told(t)' /\ Climbs(t)'
  <2>1. Told(t) /\ Climbs(t)
    BY DEF CallsInv
  <2> QED BY <1>1, <2>1 DEF Told, Climbs, Running, AtAwait, HasLanded, AtTarget, bucket
<1>3. \A r \in Replica : ver'[r] >= ver[r]
  BY <1>1 DEF IInv, TypeOK
<1> QED BY <1>1, <1>2, <1>3, CallMoves DEF bucket, AtTarget

\* An abandoned call tells its caller nothing.
LEMMA AbandonCalls ==
  ASSUME IInv, CallsInv, TypeOK', NEW t \in Task, Abandon(t)
  PROVE  CallsInv'
<1>1. /\ pc[t] \in Running /\ pc[t] # "done" /\ Return(t, "unknown") /\ answer'[t] = "unknown"
      /\ UNCHANGED <<bucket, up, ver, history, req, attempt, clashes, target>>
      /\ \A u \in Task \ {t} : pc'[u] = pc[u] /\ answer'[u] = answer[u]
  BY DEF Abandon, Return, Goto, Running, AtAwait, IInv, TypeOK
<1>2. Told(t)' /\ Climbs(t)'
  BY <1>1, ReturnsTold DEF bucket
<1>3. \A r \in Replica : stage'[r] = "replay" => stage[r] = "replay" /\ listing'[r] = listing[r]
  BY DEF Abandon, ReleaseLock, Unlock, IInv, TypeOK
<1>4. \A r \in Replica : ver'[r] >= ver[r]
  BY <1>1 DEF IInv, TypeOK
<1> QED BY <1>1, <1>2, <1>3, <1>4, CallMoves DEF bucket

-----------------------------------------------------------------------------
(* Steps of a catch_up                                                     *)

\* A step of a replica under its lock, which moves no call.
LEMMA ReplicaMoves ==
  ASSUME IInv, CallsInv, TypeOK', UNCHANGED <<task, log, unheard, inflight, history>>,
         \A r \in Replica : up[r] => up'[r] /\ ver'[r] >= ver[r],
         \A r \in Replica, v \in DOMAIN log : Shows(r, v) => Shows(r, v)',
         \A u \in Task : pc[u] = "catchup" /\ stage'[Home[u]] = "replay" => Overtaken(u)',
         ListingsWhole'
  PROVE  CallsInv'
<1> DEFINE T == {}
<1>1. \A u \in Task : Home[u] \in Replica /\ Told(u)
  BY StoreAssumption DEF CallsInv
<1>2. \A u \in Task \ T :
        /\ pc'[u] = pc[u] /\ req'[u] = req[u] /\ attempt'[u] = attempt[u]
        /\ clashes'[u] = clashes[u] /\ target'[u] = target[u] /\ answer'[u] = answer[u]
        /\ pc[u] \in Running => up'[Home[u]] /\ ver'[Home[u]] >= ver[Home[u]]
        /\ pc[u] = "catchup" /\ stage'[Home[u]] = "replay" => Overtaken(u)'
  BY <1>1 DEF task, Told
<1>3. /\ \A v \in DOMAIN log :
           v \in DOMAIN log' /\ log'[v] = log[v] /\ (v \in unheard' <=> v \in unheard)
      /\ \A v \in DOMAIN history : v \in DOMAIN history' /\ history'[v] = history[v]
  OBVIOUS
<1>4. /\ \A u \in Task \ T : Told(u)' /\ Climbs(u)'
      /\ \A m \in inflight : m.task \in T \/ Waiting(m)' \/ answer'[m.task] = "unknown"
      /\ \A v \in DOMAIN log : log[v].by \in T \/ Seen(v)'
  <2> HIDE DEF T
  <2> QED BY <1>2, <1>3, CallsKept
<1> QED BY <1>4 DEF CallsInv, SendersWait, WritesSeen

LEMMA TakeLockCalls ==
  ASSUME IInv, CallsInv, TypeOK', NEW r \in Replica, Refresh(r) \/ Open(r)
  PROVE  CallsInv'
<1>1. /\ UNCHANGED <<task, bucket, up, ver, listing, history>>
      /\ lock[r] = "free" /\ stage'[r] # "replay"
      /\ \A q \in Replica \ {r} : stage'[q] = stage[q]
  BY DEF Refresh, Open, BeginCatchUp, FirstStage, IInv, TypeOK
<1>2. \A q \in Replica : ver'[q] >= ver[q]
  BY <1>1 DEF IInv, TypeOK
<1>3. \A q \in Replica, v \in DOMAIN log : Shows(q, v) => Shows(q, v)'
  BY <1>1 DEF Shows
<1>4. ListingsWhole'
  BY <1>1, <1>2, ListingsKept DEF CallsInv
<1>5. \A u \in Task : pc[u] = "catchup" /\ stage'[Home[u]] = "replay" => Overtaken(u)'
  BY <1>1, StoreAssumption DEF CallsInv, Climbs, Overtaken, CommitsOf, task, bucket
<1> QED BY <1>1, <1>2, <1>3, <1>4, <1>5, ReplicaMoves DEF bucket

LEMMA ResolveCheckpointCalls ==
  ASSUME IInv, CallsInv, TypeOK', NEW r \in Replica, ResolveCheckpoint(r)
  PROVE  CallsInv'
<1>1. /\ UNCHANGED <<task, bucket, up, listing, history>>
      /\ stage'[r] = "list" /\ ver[r] = 0
      /\ \A q \in Replica \ {r} : stage'[q] = stage[q] /\ ver'[q] = ver[q]
  BY DEF ResolveCheckpoint, IInv, TypeOK, LocksHeld
<1>2. \A q \in Replica : ver'[q] >= ver[q]
  BY <1>1 DEF IInv, TypeOK
<1>3. \A q \in Replica, v \in DOMAIN log : Shows(q, v) => Shows(q, v)'
  BY <1>1, <1>2 DEF Shows, IInv, TypeOK, Version
<1>4. ListingsWhole'
  BY <1>1, <1>2, ListingsKept DEF CallsInv
<1>5. \A u \in Task : pc[u] = "catchup" /\ stage'[Home[u]] = "replay" => Overtaken(u)'
  BY <1>1, StoreAssumption DEF CallsInv, Climbs, Overtaken, CommitsOf, task, bucket
<1> QED BY <1>1, <1>2, <1>3, <1>4, <1>5, ReplicaMoves DEF bucket

\* The listing reaches from the snapshot to the last commit there is, so also
\* to the one a loser was refused with.
LEMMA ReadCommitsCalls ==
  ASSUME IInv, CallsInv, TypeOK', NEW r \in Replica, ReadCommits(r)
  PROVE  CallsInv'
<1>1. /\ UNCHANGED <<task, bucket, up, ver, history>>
      /\ listing'[r] = {v \in DOMAIN log : v > ver[r]}
      /\ \A q \in Replica \ {r} : stage'[q] = stage[q] /\ listing'[q] = listing[q]
  BY DEF ReadCommits, AllPages, IInv, TypeOK
<1>t. /\ \A q \in Replica : ver[q] \in Nat
      /\ DOMAIN log \subseteq Nat
      /\ \A v \in DOMAIN log : \A u \in 1..v : u \in DOMAIN log
  BY DEF IInv, TypeOK, Version, Gapless
<1>2. \A q \in Replica : ver'[q] >= ver[q]
  BY <1>1, <1>t
<1>3. \A v \in DOMAIN log : v <= ver'[r] \/ v \in listing'[r]
  BY <1>1, <1>t
<1>4. \A q \in Replica, v \in DOMAIN log : Shows(q, v) => Shows(q, v)'
  BY <1>1, <1>2, <1>3 DEF Shows
<1>5. ListingsWhole'
  <2> SUFFICES ASSUME NEW q \in Replica, stage'[q] = "replay", NEW v \in listing'[q],
                      NEW u \in 1..v
               PROVE  u <= ver'[q] \/ u \in listing'[q]
    BY DEF ListingsWhole
  <2>1. CASE q = r
    BY <1>1, <1>t, <1>3, <2>1
  <2>2. CASE q # r
    BY <1>1, <2>2 DEF CallsInv, ListingsWhole
  <2> QED BY <2>1, <2>2
<1>6. ASSUME NEW u \in Task, pc[u] = "catchup", stage'[Home[u]] = "replay"
      PROVE  Overtaken(u)'
  <2>1. target[u] \in DOMAIN log \/ attempt[u] < target[u] + clashes[u]
    BY <1>6 DEF CallsInv, Climbs
  <2>2. Climbs(u) /\ Home[u] \in Replica
    BY StoreAssumption DEF CallsInv
  <2>3. CASE Home[u] = r
    BY <1>1, <1>3, <2>1, <2>3 DEF Overtaken, CommitsOf, bucket, task
  <2>4. CASE Home[u] # r
    BY <1>1, <1>6, <2>2, <2>4 DEF Climbs, Overtaken, CommitsOf, bucket, task
  <2> QED BY <2>3, <2>4
<1> QED BY <1>1, <1>2, <1>4, <1>5, <1>6, ReplicaMoves DEF bucket

LEMMA ReplayCalls ==
  ASSUME IInv, CallsInv, TypeOK', NEW r \in Replica, Replay(r)
  PROVE  CallsInv'
<1>1. /\ UNCHANGED <<task, bucket, up, stage, listing, history>>
      /\ ver'[r] = ver[r] + 1 /\ ver \in [Replica -> Nat]
      /\ \A q \in Replica \ {r} : ver'[q] = ver[q]
  BY DEF Replay, IInv, TypeOK
<1>2. \A q \in Replica : ver'[q] >= ver[q] /\ ver[q] \in Nat /\ ver'[q] \in Nat
  BY <1>1
<1>3. \A q \in Replica, v \in DOMAIN log : Shows(q, v) => Shows(q, v)'
  BY <1>1, <1>2 DEF Shows, IInv, TypeOK, Version
<1>4. ListingsWhole'
  BY <1>1, <1>2, ListingsKept DEF CallsInv
<1>5. ASSUME NEW u \in Task, pc[u] = "catchup", stage'[Home[u]] = "replay"
      PROVE  Overtaken(u)'
  <2>1. target[u] \in Nat /\ Home[u] \in Replica
    BY StoreAssumption DEF IInv, TypeOK
  <2>2. Climbs(u)
    BY DEF CallsInv
  <2>3. Overtaken(u)
    BY <1>1, <1>5, <2>2 DEF Climbs
  <2> QED BY <1>1, <1>2, <2>1, <2>3 DEF Overtaken, CommitsOf, bucket, task
<1> QED BY <1>1, <1>2, <1>3, <1>4, <1>5, ReplicaMoves DEF bucket

\* At the end of a catch_up nothing that was listed lies ahead of the snapshot.
LEMMA ReplayReachesListing ==
  ASSUME IInv, CallsInv, NEW r \in Replica, EndCatchUp(r)
  PROVE  \A v \in listing[r] : v <= ver[r]
<1> SUFFICES ASSUME NEW v \in listing[r], ~(v <= ver[r]) PROVE FALSE
  OBVIOUS
<1>1. v \in Nat /\ ver[r] \in Nat /\ ver[r] + 1 \in 1..v
  BY DEF IInv, TypeOK, Version
<1>2. ver[r] + 1 <= ver[r] \/ ver[r] + 1 \in listing[r]
  BY <1>1 DEF EndCatchUp, CallsInv, ListingsWhole
<1> QED BY <1>1, <1>2 DEF EndCatchUp

\* A loser's replica now has the commit it lost to; a process that opens has
\* every commit its callers were told of before it ended.
LEMMA EndCatchUpCalls ==
  ASSUME IInv, CallsInv, TypeOK', NEW r \in Replica, EndCatchUp(r)
  PROVE  CallsInv'
<1>1. /\ UNCHANGED <<bucket, ver, history>>
      /\ up'[r] = TRUE /\ stage[r] = "replay" /\ stage'[r] = "idle"
      /\ \A q \in Replica \ {r} :
           up'[q] = up[q] /\ stage'[q] = stage[q] /\ listing'[q] = listing[q]
      /\ \A q \in Replica : stage'[q] = "replay" => stage[q] = "replay"
                                                   /\ listing'[q] = listing[q]
  BY DEF EndCatchUp, Unlock, IInv, TypeOK
<1>2. \A q \in Replica : ver'[q] >= ver[q] /\ ver[q] \in Nat
  BY <1>1 DEF IInv, TypeOK
<1>3. \A v \in listing[r] : v <= ver[r]
  BY ReplayReachesListing
<1>4. \A q \in Replica, v \in DOMAIN log : Shows(q, v) => Shows(q, v)'
  BY <1>1, <1>3 DEF Shows
<1>5. ListingsWhole'
  BY <1>1, <1>2, ListingsKept DEF CallsInv
<1>6. CASE lock[r] \notin Task
  <2>1. UNCHANGED task
    BY <1>6 DEF EndCatchUp
  <2>2. \A u \in Task : Home[u] \in Replica /\ Climbs(u)
    BY StoreAssumption DEF CallsInv
  <2>3. \A u \in Task : pc[u] = "catchup" /\ stage'[Home[u]] = "replay" => Overtaken(u)'
    BY <1>1, <2>1, <2>2 DEF Climbs, Overtaken, CommitsOf, bucket, task
  <2> QED BY <1>1, <1>2, <1>4, <1>5, <2>1, <2>3, ReplicaMoves DEF bucket
<1>7. CASE lock[r] \in Task
  <2> PICK t \in Task : t = lock[r]
    BY <1>7
  <2>1. pc[t] = "catchup" /\ Home[t] = r /\ NextAttempt(t)
    BY <1>7 DEF EndCatchUp, IInv, LocksHeld
  <2>2. pc[t] \in Running /\ Told(t) /\ Climbs(t)
    BY <2>1 DEF CallsInv, Running, AtAwait
  <2>3. up[r] /\ UNCHANGED up
    BY <2>1, <2>2 DEF Told, EndCatchUp, IInv, TypeOK
  <2>4. /\ target[t] \in Nat /\ attempt[t] \in Nat /\ clashes[t] \in Nat
        /\ target[t] <= ver[r] + 1 /\ attempt[t] <= target[t] + clashes[t]
        /\ \/ target[t] <= ver[r]
           \/ attempt[t] < target[t] + clashes[t] /\ target[t] \notin CommitsOf(t)
    BY <1>1, <1>3, <2>1, <2>2 DEF Climbs, AtTarget, Overtaken, IInv, TypeOK
  <2>5. attempt[t] <= ver[r] + clashes[t]
    BY <1>2, <2>4
  <2>6. /\ Told(t)' /\ Climbs(t)'
        /\ \A u \in Task \ {t} :
             /\ pc'[u] = pc[u] /\ req'[u] = req[u] /\ attempt'[u] = attempt[u]
             /\ clashes'[u] = clashes[u] /\ target'[u] = target[u] /\ answer'[u] = answer[u]
    <3>1. CASE attempt[t] = MaxCommitAttempts /\ Return(t, "contention")
      <4>1. \A v \in 1..(MaxCommitAttempts - clashes[t]) : v \in DOMAIN log
        <5>1. \A v \in 1..ver[r] : v \in DOMAIN log
          BY <1>2 DEF IInv, Gapless, SnapshotsArePrefixes
        <5> QED BY <1>2, <2>4, <2>5, <3>1, <5>1
      <4>2. Told(t)' /\ Climbs(t)'
        BY <1>1, <2>2, <3>1, <4>1, ReturnsTold DEF bucket
      <4> QED BY <3>1, <4>2 DEF Return, Goto, IInv, TypeOK
    <3>2. CASE TryAgain(t)
      <4>1. /\ pc'[t] = "build" /\ attempt'[t] = attempt[t] + 1
            /\ \A u \in Task \ {t} : pc'[u] = pc[u] /\ attempt'[u] = attempt[u]
            /\ UNCHANGED <<req, clashes, target, answer>>
        BY <3>2 DEF TryAgain, Goto, IInv, TypeOK
      <4>2. attempt'[t] <= ver'[r] + 1 + clashes'[t]
        BY <1>1, <1>2, <2>4, <2>5, <4>1
      <4> QED BY <1>1, <2>1, <2>2, <2>3, <4>1, <4>2
              DEF Told, Climbs, Running, AtAwait, HasLanded, AtTarget
    <3> QED BY <2>1, <3>1, <3>2 DEF NextAttempt
  <2> QED BY <1>1, <1>2, <2>1, <2>3, <2>4, <2>6, CallMoves DEF bucket
<1> QED BY <1>6, <1>7

LEMMA CatchUpFailsCalls ==
  ASSUME IInv, CallsInv, TypeOK', NEW r \in Replica, CatchUpFails(r)
  PROVE  CallsInv'
<1>1. /\ UNCHANGED <<task, bucket, up, history>>
      /\ stage'[r] = "idle" /\ (up[r] => ver'[r] = ver[r])
      /\ \A q \in Replica \ {r} :
           stage'[q] = stage[q] /\ listing'[q] = listing[q] /\ ver'[q] = ver[q]
  BY DEF CatchUpFails, Unlock, IInv, TypeOK
<1>2. \A q \in Replica : (q # r \/ up[q]) => ver'[q] >= ver[q]
  BY <1>1 DEF IInv, TypeOK
<1>3. \A q \in Replica, v \in DOMAIN log : Shows(q, v) => Shows(q, v)'
  BY <1>1 DEF Shows
<1>4. ListingsWhole'
  BY <1>1, <1>2, ListingsKept DEF CallsInv
<1>5. \A u \in Task : pc[u] = "catchup" /\ stage'[Home[u]] = "replay" => Overtaken(u)'
  BY <1>1, StoreAssumption DEF CallsInv, Climbs, Overtaken, CommitsOf, task, bucket
<1> QED BY <1>1, <1>2, <1>3, <1>4, <1>5, ReplicaMoves DEF bucket

-----------------------------------------------------------------------------
(* The network, crashes                                                    *)

\* A call waits for one answer.
LEMMA OneWaits ==
  ASSUME IInv, NEW p \in inflight, NEW m \in inflight, p.task = m.task, Waiting(p), Waiting(m)
  PROVE  p = m
<1>1. p \in Put /\ m \in Put
  BY DEF IInv, TypeOK
<1>2. p.target = m.target /\ p.action = m.action
  BY DEF IInv, PutsBuiltOnState, Waiting
<1> QED BY <1>1, <1>2 DEF Put

\* A commit that lands gives its key to its writer for good.
LEMMA CreatedCalls ==
  ASSUME IInv, CallsInv, TypeOK', NEW m \in inflight, Land(m) \/ LandUnheard(m)
  PROVE  CallsInv'
<1> DEFINE t == m.task
           k == m.target
<1>1. /\ m \in Put /\ t \in Task /\ k \in Version
      /\ DOMAIN log' = DOMAIN log \cup {k}
      /\ \A v \in DOMAIN log : v # k /\ log'[v] = log[v]
      /\ \A v \in DOMAIN history : v \in DOMAIN history' /\ history'[v] = history[v]
      /\ log'[k] = [by |-> t, action |-> m.action]
  BY CreatedExtends DEF Land, LandUnheard, Put
<1>u. /\ \A v \in DOMAIN log : v \in unheard' <=> v \in unheard
      /\ Land(m) => k \notin unheard'
  BY <1>1 DEF Land, LandUnheard, Created, KeyIsFree, IInv, TypeOK
<1>b. \A u \in Task : pc[u] \notin {"put", "done"} => u # t
  BY NoPutWhileBusy
<1>l. pc'[t] # pc[t] => Land(m)
  BY DEF Land, LandUnheard, task
<1> HIDE DEF t, k
<1>2. /\ UNCHANGED <<replica, req, attempt, clashes, target, answer>>
      /\ inflight' \subseteq inflight
      /\ \A u \in Task : pc'[u] = pc[u] \/ (u = t /\ Waiting(m) /\ pc'[u] = "created")
      /\ pc'[t] # pc[t] => m \notin inflight'
  BY <1>1 DEF Land, LandUnheard, Goto, task, IInv, TypeOK, t
<1>3. Waiting(m) <=> pc[t] = "put" /\ target[t] = k
  BY DEF Waiting, t, k
<1>4. \A r \in Replica : ver'[r] >= ver[r] /\ ver[r] \in Nat
  BY <1>2 DEF IInv, TypeOK, replica
<1>5. \A r \in Replica, v \in DOMAIN log : Shows(r, v) => Shows(r, v)'
  BY <1>2 DEF Shows, replica
<1>6. \A u \in Task : Told(u) /\ Climbs(u) /\ Home[u] \in Replica
  BY StoreAssumption DEF CallsInv
<1>7. \A u \in Task : /\ pc[u] \in Running => up'[Home[u]] /\ ver'[Home[u]] >= ver[Home[u]]
                      /\ pc[u] = "catchup" /\ stage'[Home[u]] = "replay" => Overtaken(u)'
  <2> TAKE u \in Task
  <2>1. pc[u] \in Running => up'[Home[u]] /\ ver'[Home[u]] >= ver[Home[u]]
    BY <1>2, <1>4, <1>6 DEF Told, replica
  <2>2. ASSUME pc[u] = "catchup", stage'[Home[u]] = "replay" PROVE Overtaken(u)'
    <3>1. Overtaken(u) /\ u # t
      BY <1>2, <1>6, <1>b, <2>2 DEF Climbs, replica
    <3>2. target[u] \notin CommitsOf(u) => target[u] \notin CommitsOf(u)'
      BY <1>1, <3>1 DEF CommitsOf
    <3> QED BY <1>2, <3>1, <3>2 DEF Overtaken, replica
  <2> QED BY <2>1, <2>2
<1>8. PICK T : T = {u \in Task : pc'[u] # pc[u]}
  OBVIOUS
<1>9. /\ \A u \in Task \ T : Told(u)' /\ Climbs(u)'
      /\ \A p \in inflight : p.task \in T \/ Waiting(p)' \/ answer'[p.task] = "unknown"
      /\ \A v \in DOMAIN log : log[v].by \in T \/ Seen(v)'
  BY <1>1, <1>u, <1>2, <1>5, <1>7, <1>8, CallsKept
<1>10. T # {} => T = {t} /\ pc[t] = "put" /\ pc'[t] = "created" /\ target[t] = k
  BY <1>2, <1>3, <1>8
<1>11. \A u \in Task : Told(u)' /\ Climbs(u)'
  <2> SUFFICES ASSUME T = {t}, pc[t] = "put", pc'[t] = "created", target[t] = k
               PROVE  Told(t)' /\ Climbs(t)'
    BY <1>9, <1>10
  <2>1. k \notin unheard'
    BY <1>u, <1>l
  <2> QED BY <1>1, <1>2, <1>6, <2>1
          DEF Told, Climbs, Running, AtAwait, HasLanded, AtTarget, replica
<1>12. SendersWait'
  <2> SUFFICES ASSUME NEW p \in inflight', p.task \in T
               PROVE  FALSE
    BY <1>2, <1>9 DEF SendersWait
  <2>1. p \in inflight /\ p.task = t /\ pc[t] = "put" /\ pc'[t] # pc[t] /\ Waiting(m)
    BY <1>2, <1>3, <1>8, <1>10
  <2>2. Waiting(p)
    BY <1>1, <1>6, <2>1 DEF CallsInv, SendersWait, Told
  <2>3. p = m
    BY <2>1, <2>2, OneWaits DEF t
  <2> QED BY <1>2, <2>1, <2>3
<1>13. WritesSeen'
  <2>1. Seen(k)'
    <3>1. CASE Waiting(m)
      <4>1. pc'[t] \in AtTarget /\ k = target'[t]
        BY <1>1, <1>2, <1>3, <3>1 DEF AtTarget
      <4> QED BY <1>1, <4>1 DEF Seen
    <3>2. CASE ~Waiting(m)
      BY <1>1, <1>2, <3>2 DEF CallsInv, SendersWait, Seen, t
    <3> QED BY <3>1, <3>2
  <2>2. ASSUME NEW v \in DOMAIN log PROVE Seen(v)'
    <3>1. CASE log[v].by \notin T
      BY <1>9, <3>1
    <3>2. CASE log[v].by \in T
      <4>1. log'[v].by = t /\ log[v].by = t /\ Seen(v) /\ v # k
        BY <1>1, <1>10, <3>2 DEF CallsInv, WritesSeen
      <4>2. answer[t] # "unknown" /\ ~(pc[t] \in AtTarget /\ v = target[t])
        BY <1>1, <1>6, <1>10, <3>2, <4>1 DEF Told
      <4> QED BY <1>1, <1>5, <1>6, <4>1, <4>2 DEF Seen
    <3> QED BY <3>1, <3>2
  <2> QED BY <1>1, <2>1, <2>2 DEF WritesSeen
<1>14. ListingsWhole'
  BY <1>2, <1>4, ListingsKept DEF CallsInv, replica
<1>15. IsFiniteSet(DOMAIN log')
  BY <1>1, FS_AddElement DEF CallsInv
<1> QED BY <1>11, <1>12, <1>13, <1>14, <1>15 DEF CallsInv

\* Whoever is refused lost to a commit that is there, or counts the clash.
LEMMA RefuseCalls ==
  ASSUME IInv, CallsInv, TypeOK', NEW m \in inflight, Refuse(m) \/ Collide(m)
  PROVE  CallsInv'
<1> DEFINE t == m.task
           k == m.target
<1>1. /\ m \in Put /\ t \in Task
      /\ UNCHANGED <<log, unheard, history, replica, req, attempt, target, answer>>
      /\ inflight' = inflight \ {m}
      /\ \A u \in Task \ {t} : pc'[u] = pc[u] /\ clashes'[u] = clashes[u]
      /\ IF Waiting(m) THEN pc'[t] = "exists" ELSE pc'[t] = pc[t]
      /\ \/ clashes'[t] = clashes[t] /\ k \in DOMAIN log
         \/ clashes'[t] = clashes[t] + 1
      /\ clashes[t] \in Nat /\ attempt[t] \in Nat /\ target[t] \in Nat
      /\ MaxCommitAttempts \in Nat
  BY StoreAssumption DEF Refuse, Collide, Goto, IInv, TypeOK, Put
<1>2. Waiting(m) <=> pc[t] = "put" /\ target[t] = k
  BY DEF Waiting
<1> HIDE DEF t, k
<1>3. \A r \in Replica : ver'[r] >= ver[r] /\ ver[r] \in Nat
  BY <1>1 DEF IInv, TypeOK, replica
<1>4. \A r \in Replica, v \in DOMAIN log : Shows(r, v) => Shows(r, v)'
  BY <1>1 DEF Shows, replica
<1>5. \A u \in Task : Told(u) /\ Climbs(u) /\ Home[u] \in Replica
  BY StoreAssumption DEF CallsInv
<1>6. \A u \in Task \ {t} :
        /\ pc[u] \in Running => up'[Home[u]] /\ ver'[Home[u]] >= ver[Home[u]]
        /\ pc[u] = "catchup" /\ stage'[Home[u]] = "replay" => Overtaken(u)'
  BY <1>1, <1>3, <1>5 DEF Told, Climbs, Overtaken, CommitsOf, replica
<1>8. /\ \A u \in Task \ {t} : Told(u)' /\ Climbs(u)'
      /\ \A p \in inflight : p.task \in {t} \/ Waiting(p)' \/ answer'[p.task] = "unknown"
      /\ \A v \in DOMAIN log : log[v].by \in {t} \/ Seen(v)'
  <2>1. PICK T : T = {t}
    OBVIOUS
  <2> QED BY <1>1, <1>4, <1>6, <2>1, CallsKept
<1>9. Told(t) /\ Climbs(t)
  BY <1>1, <1>5
<1>w. pc[t] = "put" \/ answer[t] = "unknown"
  BY DEF CallsInv, SendersWait, Waiting, t
<1>10. Told(t)' /\ Climbs(t)'
  <2>1. CASE Waiting(m)
    BY <1>1, <1>2, <1>9, <2>1
       DEF Told, Climbs, Running, AtAwait, HasLanded, AtTarget, replica
  <2>2. CASE ~Waiting(m)
    <3>1. pc'[t] = "done" /\ pc[t] = "done" /\ answer'[t] = "unknown"
      BY <1>1, <1>2, <1>9, <1>w, <2>2 DEF CallsInv, SendersWait, Told, t
    <3> QED BY <1>1, <1>9, <3>1
            DEF Told, Climbs, Running, AtAwait, HasLanded, AtTarget, replica
  <2> QED BY <2>1, <2>2
<1>11. SendersWait'
  <2> SUFFICES ASSUME NEW p \in inflight, p # m, p.task = t, answer[t] # "unknown"
               PROVE  FALSE
    BY <1>1, <1>8 DEF SendersWait
  <2>1. Waiting(p) /\ Waiting(m)
    BY DEF CallsInv, SendersWait, t
  <2> QED BY <2>1, OneWaits DEF t
<1>12. WritesSeen'
  <2> SUFFICES ASSUME NEW v \in DOMAIN log, log[v].by = t PROVE Seen(v)'
    BY <1>1, <1>8 DEF WritesSeen
  <2>1. Seen(v)
    BY DEF CallsInv, WritesSeen
  <2> QED BY <1>1, <1>2, <1>4, <1>5, <2>1 DEF Seen, AtTarget
<1>13. ListingsWhole'
  BY <1>1, <1>3, ListingsKept DEF CallsInv, replica
<1> QED BY <1>1, <1>8, <1>10, <1>11, <1>12, <1>13 DEF CallsInv

\* A crash leaves its callers in doubt; what others were told stays true.
LEMMA CrashCalls ==
  ASSUME IInv, CallsInv, TypeOK', NEW r \in Replica, Crash(r)
  PROVE  CallsInv'
<1>1. PICK T : T = {t \in Task : Home[t] = r /\ pc[t] \in Running}
  OBVIOUS
<1>2. /\ UNCHANGED <<log, unheard, inflight, history, req, attempt, clashes, target>>
      /\ \A t \in T : pc'[t] = "done" /\ answer'[t] = "unknown"
      /\ \A t \in Task \ T : pc'[t] = pc[t] /\ answer'[t] = answer[t]
  BY <1>1 DEF Crash, bucket
<1>3. /\ ~up'[r] /\ stage'[r] = "idle"
      /\ \A q \in Replica \ {r} :
           /\ up'[q] = up[q] /\ ver'[q] = ver[q] /\ ver[q] \in Nat
           /\ stage'[q] = stage[q] /\ listing'[q] = listing[q]
  BY DEF Crash, Unlock, IInv, TypeOK
<1>4. \A u \in Task : Told(u) /\ Climbs(u) /\ Home[u] \in Replica
  BY StoreAssumption DEF CallsInv
<1>5. \A q \in Replica, v \in DOMAIN log : Shows(q, v) => Shows(q, v)'
  BY <1>3 DEF Shows
<1>6. \A u \in Task \ T :
        /\ pc[u] \in Running => up'[Home[u]] /\ ver'[Home[u]] >= ver[Home[u]]
        /\ pc[u] = "catchup" /\ stage'[Home[u]] = "replay" => Overtaken(u)'
  BY <1>1, <1>2, <1>3, <1>4 DEF Told, Climbs, Overtaken, CommitsOf, Running, AtAwait
<1>7. /\ \A u \in Task \ T : Told(u)' /\ Climbs(u)'
      /\ \A m \in inflight : m.task \in T \/ Waiting(m)' \/ answer'[m.task] = "unknown"
      /\ \A v \in DOMAIN log : log[v].by \in T \/ Seen(v)'
  BY <1>2, <1>5, <1>6, CallsKept
<1>8. \A u \in T : Told(u)' /\ Climbs(u)'
  <2> TAKE u \in T
  <2>1. pc[u] # "idle" /\ u \in Task
    BY <1>1 DEF Running, AtAwait
  <2> QED BY <1>2, <1>4, <2>1 DEF Told, Climbs, Running, AtAwait, HasLanded, AtTarget
<1>9. SendersWait' /\ WritesSeen'
  BY <1>2, <1>7 DEF SendersWait, WritesSeen, Seen
<1>10. ListingsWhole'
  BY <1>3, ListingsKept DEF CallsInv, IInv, TypeOK
<1> QED BY <1>2, <1>7, <1>8, <1>9, <1>10 DEF CallsInv

-----------------------------------------------------------------------------
(* What every caller may rely on                                           *)

LEMMA NextCalls == IInv /\ CallsInv /\ [Next]_vars => CallsInv'
<1> SUFFICES ASSUME IInv, CallsInv, [Next]_vars PROVE CallsInv'
  OBVIOUS
<1>0. TypeOK'
  BY NextInv DEF IInv
<1>1. ASSUME NEW t \in Task, NEW q \in Workload, Call(t, q) PROVE CallsInv'
  BY <1>0, <1>1, CallCalls
<1>2. ASSUME NEW t \in Task, Step(t) PROVE CallsInv'
  BY <1>0, <1>2, BuildReturnsCalls, BuildWritesCalls, ApplyOwnCalls, CheckpointCalls,
     CatchUpAfterLossCalls DEF Step
<1>3. ASSUME NEW t \in Task, CheckpointFails(t) \/ Abandon(t) PROVE CallsInv'
  BY <1>0, <1>3, CheckpointCalls, AbandonCalls
<1>4. ASSUME NEW r \in Replica, Open(r) \/ Refresh(r) \/ CatchUpStep(r) PROVE CallsInv'
  BY <1>0, <1>4, TakeLockCalls, ResolveCheckpointCalls, ReadCommitsCalls, ReplayCalls,
     EndCatchUpCalls DEF CatchUpStep
<1>5. ASSUME NEW r \in Replica, CatchUpFails(r) \/ Crash(r) PROVE CallsInv'
  BY <1>0, <1>5, CatchUpFailsCalls, CrashCalls
<1>6. ASSUME NEW m \in inflight, Land(m) \/ LandUnheard(m) \/ Refuse(m) \/ Collide(m)
      PROVE  CallsInv'
  BY <1>0, <1>6, CreatedCalls, RefuseCalls
<1>7. CASE UNCHANGED vars
  BY <1>7 DEF vars, bucket, replica, task, CallsInv, Told, Climbs, SendersWait, Waiting,
     ListingsWhole, WritesSeen, Seen, Shows, Overtaken, CommitsOf
<1> QED BY <1>1, <1>2, <1>3, <1>4, <1>5, <1>6, <1>7 DEF Next

\* Where each call of commit stands: what it was told holds, the versions it
\* tries only grow, its PUT is of the version it waits for, its catch_up misses
\* no commit, and its replica has seen what its callers were told.
THEOREM CallsInvariant == Spec => []CallsInv
BY InitCalls, NextCalls, StoreInvariant, PTL DEF Spec

\* Whoever was told Ok finds its write on the replica that told it so, also
\* after that process was restarted: catch_up reads past every commit a caller
\* of the former process was answered for.
THEOREM CallersReadTheirWrites == Spec => []ReadYourWrites
<1>1. ASSUME IInv, CallsInv PROVE ReadYourWrites
  <2> SUFFICES ASSUME NEW t \in Task, answer[t] = "ok", up[Home[t]],
                      NEW v \in DOMAIN log, log[v].by = t
               PROVE  v <= ver[Home[t]]
    BY <1>1, StoreAssumption DEF ReadYourWrites, CommitsOf, IInv, TypeOK, Version
  <2>1. pc[t] = "done" /\ Seen(v)
    BY <1>1 DEF CallsInv, Told, WritesSeen
  <2> QED BY <2>1 DEF Seen, Shows, AtTarget
<1> QED BY <1>1, StoreInvariant, CallsInvariant, PTL

-----------------------------------------------------------------------------
(* One effect for each call, beside those it never heard of                *)

LEMMA InitOneEffect == Init => OneEffect
BY DEF Init, OneEffect

\* Where a step sends nothing and commits nothing that its writer hears of.
LEMMA OneEffectKept ==
  ASSUME IInv, OneEffect, inflight' \subseteq inflight,
         DOMAIN log' \ unheard' = DOMAIN log \ unheard,
         \A v \in DOMAIN log \ unheard : log'[v] = log[v],
         \A t \in Task :
           /\ pc[t] \in HasLanded => pc'[t] \in HasLanded \/ answer'[t] \in {"ok", "unknown"}
           /\ answer[t] \in {"ok", "unknown"} => answer'[t] \in {"ok", "unknown"}
  PROVE  OneEffect'
<1> DEFINE H == DOMAIN log \ unheard
<1>1. /\ \A l, m \in inflight' : l.task = m.task => l = m
      /\ \A m \in inflight', v \in H : log'[v].by # m.task
      /\ \A u, v \in H : log'[u].by = log'[v].by => u = v
  BY DEF OneEffect
<1>2. \A v \in H : pc'[log'[v].by] \in HasLanded \/ answer'[log'[v].by] \in {"ok", "unknown"}
  BY DEF OneEffect, IInv, TypeOK, Commit
<1>3. DOMAIN log' \ unheard' = H
  OBVIOUS
<1> HIDE DEF H
<1> QED BY <1>1, <1>2, <1>3 DEF OneEffect

LEMMA BuildWritesOnce ==
  ASSUME IInv, CallsInv, OneEffect, NEW t \in Task, BuildWrites(t)
  PROVE  OneEffect'
<1> PICK m : m = [task |-> t, target |-> ver[Home[t]] + 1,
                  action |-> Build(snap[Home[t]], t, req[t])]
  OBVIOUS
<1>1. /\ pc[t] = "build" /\ pc[t] \notin {"put", "done"} /\ inflight' = inflight \cup {m}
      /\ \A u \in Task \ {t} : pc'[u] = pc[u]
      /\ UNCHANGED <<log, unheard, answer>>
  BY DEF BuildWrites, NextVersion, Goto, IInv, TypeOK
<1>2. \A p \in inflight : p.task # t
  BY <1>1, NoPutWhileBusy
<1>3. \A v \in DOMAIN log \ unheard : log[v].by # t
  BY <1>1 DEF CallsInv, Told, OneEffect, HasLanded
<1>4. m.task = t
  OBVIOUS
<1>5. \A v \in DOMAIN log \ unheard : log[v].by \in Task \ {t}
  BY <1>3 DEF IInv, TypeOK, Commit
<1> QED BY <1>1, <1>2, <1>3, <1>4, <1>5 DEF OneEffect

\* The PUT that lands is its call's only one, and the call knows of no commit.
LEMMA LandOnce ==
  ASSUME IInv, CallsInv, OneEffect, NEW m \in inflight, Land(m)
  PROVE  OneEffect'
<1> DEFINE t == m.task
           k == m.target
           H == DOMAIN log \ unheard
<1>0. /\ t \in Task
      /\ DOMAIN log' = DOMAIN log \cup {k}
      /\ \A v \in DOMAIN log : v # k /\ log'[v] = log[v]
      /\ log'[k] = [by |-> t, action |-> m.action]
  BY CreatedExtends DEF Land, Put
<1>1. /\ k \notin DOMAIN log
      /\ inflight' = inflight \ {m}
      /\ UNCHANGED <<answer, unheard>> /\ unheard \subseteq DOMAIN log
  BY <1>0 DEF Land, IInv, TypeOK
<1>2. \A u \in Task : pc'[u] = pc[u] \/ (u = t /\ pc'[u] = "created")
  BY <1>0 DEF Land, Goto, IInv, TypeOK
<1>3. pc'[t] = "created" \/ answer[t] = "unknown"
  BY <1>0, <1>1 DEF Land, Goto, CallsInv, SendersWait, IInv, TypeOK
<1>h. DOMAIN log' \ unheard' = H \cup {k} /\ H \subseteq DOMAIN log /\ k \notin H
  BY <1>0, <1>1
<1> HIDE DEF t, k
<1>4. \A v \in H : log[v].by # t /\ log[v].by \in Task
  BY DEF OneEffect, IInv, TypeOK, Commit, t
<1>5. /\ \A p \in inflight' : p.task # t /\ p \in inflight
      /\ \A l, p \in inflight' : l.task = p.task => l = p
      /\ \A p \in inflight', v \in H : log'[v].by # p.task
  BY <1>0, <1>1, <1>h DEF OneEffect, t
<1>6. \A v \in H \cup {k} :
        pc'[log'[v].by] \in HasLanded \/ answer'[log'[v].by] \in {"ok", "unknown"}
  <2> TAKE v \in H \cup {k}
  <2>1. CASE v = k
    BY <1>0, <1>1, <1>3, <2>1 DEF HasLanded
  <2>2. CASE v \in H
    BY <1>0, <1>1, <1>2, <1>4, <2>2 DEF OneEffect
  <2> QED BY <2>1, <2>2
<1>7. \A p \in inflight', v \in H \cup {k} : log'[v].by # p.task
  BY <1>0, <1>1, <1>5
<1>8. \A u, v \in H \cup {k} : log'[u].by = log'[v].by => u = v
  <2>1. \A v \in H : log'[v] = log[v]
    BY <1>0
  <2> QED BY <1>0, <1>4, <2>1 DEF OneEffect
<1> HIDE DEF H
<1> QED BY <1>h, <1>5, <1>6, <1>7, <1>8 DEF OneEffect

\* A commit whose answer is lost is not one its call knows of.
LEMMA LandUnheardOnce ==
  ASSUME IInv, OneEffect, NEW m \in inflight, LandUnheard(m)
  PROVE  OneEffect'
<1>1. /\ DOMAIN log' = DOMAIN log \cup {m.target}
      /\ \A v \in DOMAIN log : log'[v] = log[v]
      /\ unheard' = unheard \cup {m.target} /\ m.target \notin DOMAIN log
      /\ UNCHANGED <<inflight, pc, answer>>
  BY CreatedExtends DEF LandUnheard, Created, KeyIsFree, task
<1>2. /\ DOMAIN log' \ unheard' = DOMAIN log \ unheard
      /\ \A v \in DOMAIN log \ unheard : log'[v] = log[v]
  BY <1>1
<1> QED BY <1>1, <1>2, OneEffectKept

LEMMA NextOneEffect == IInv /\ CallsInv /\ OneEffect /\ [Next]_vars => OneEffect'
<1> SUFFICES ASSUME IInv, CallsInv, OneEffect, [Next]_vars PROVE OneEffect'
  OBVIOUS
<1>t. \A t \in Task : Told(t)
  BY DEF CallsInv
<1>1. ASSUME NEW t \in Task, NEW q \in Workload, Call(t, q) PROVE OneEffect'
  BY <1>1, OneEffectKept DEF Call, Goto, bucket, IInv, TypeOK, HasLanded
<1>2. ASSUME NEW t \in Task,
             \/ BuildRejects(t) \/ BuildNothing(t) \/ ApplyOwn(t)
             \/ EncodeCheckpoint(t) \/ WriteBody(t) \/ WritePointer(t) \/ CheckpointFails(t)
             \/ CatchUpAfterLoss(t) \/ Abandon(t)
      PROVE  OneEffect'
  <2>1. /\ UNCHANGED <<log, unheard, inflight>>
        /\ pc[t] \in Running
        /\ \A u \in Task \ {t} : pc'[u] = pc[u] /\ answer'[u] = answer[u]
        /\ pc[t] \in HasLanded => pc'[t] \in HasLanded \/ answer'[t] \in {"ok", "unknown"}
    BY <1>2 DEF BuildRejects, BuildNothing, ApplyOwn, EncodeCheckpoint, WriteBody, WritePointer,
       CheckpointFails, CatchUpAfterLoss, BeginCatchUp, Abandon, Return, Goto, bucket,
       Running, AtAwait, HasLanded, IInv, TypeOK
  <2>2. answer[t] = "none"
    BY <1>t, <2>1 DEF Told, Running, AtAwait
  <2> QED BY <2>1, <2>2, OneEffectKept
<1>3. ASSUME NEW t \in Task, BuildWrites(t) PROVE OneEffect'
  BY <1>3, BuildWritesOnce
<1>4. ASSUME NEW r \in Replica,
             Open(r) \/ Refresh(r) \/ ResolveCheckpoint(r) \/ ReadCommits(r) \/ Replay(r)
               \/ CatchUpFails(r)
      PROVE  OneEffect'
  BY <1>4, OneEffectKept DEF Open, Refresh, BeginCatchUp, ResolveCheckpoint, ReadCommits, Replay,
     CatchUpFails, bucket, task
<1>5. ASSUME NEW r \in Replica, EndCatchUp(r) PROVE OneEffect'
  <2>1. CASE lock[r] \notin Task
    BY <1>5, <2>1, OneEffectKept DEF EndCatchUp, bucket, task
  <2>2. CASE lock[r] \in Task
    <3> PICK t \in Task : t = lock[r]
      BY <2>2
    <3>1. pc[t] = "catchup" /\ NextAttempt(t)
      BY <1>5, <2>2 DEF EndCatchUp, IInv, LocksHeld
    <3>2. \A u \in Task \ {t} : pc'[u] = pc[u] /\ answer'[u] = answer[u]
      BY <3>1 DEF NextAttempt, TryAgain, Return, Goto, IInv, TypeOK
    <3>3. answer[t] = "none" /\ pc[t] \notin HasLanded
      BY <1>t, <3>1 DEF Told, HasLanded
    <3>4. UNCHANGED <<log, unheard, inflight>>
      BY <1>5 DEF EndCatchUp, bucket
    <3> QED BY <3>2, <3>3, <3>4, OneEffectKept
  <2> QED BY <2>1, <2>2
<1>6. ASSUME NEW r \in Replica, Crash(r) PROVE OneEffect'
  BY <1>6, OneEffectKept DEF Crash, bucket, HasLanded, Running, AtAwait
<1>7. ASSUME NEW m \in inflight, Land(m) PROVE OneEffect'
  BY <1>7, LandOnce
<1>8. ASSUME NEW m \in inflight, Refuse(m) \/ Collide(m) PROVE OneEffect'
  BY <1>8, OneEffectKept DEF Refuse, Collide, Waiting, Goto, IInv, TypeOK, HasLanded
<1>9. CASE UNCHANGED vars
  BY <1>9, OneEffectKept DEF vars, bucket, task
<1> QED BY <1>1, <1>2, <1>3, <1>4, <1>5, <1>6, <1>7, <1>8, <1>9, LandUnheardOnce
        DEF Next, Step, CatchUpStep

\* A call has one commit in the log at most that it knows of, not on the wire
\* any more, and only once its caller was told so or is about to be; any other
\* is one the S3 client was refused by. (StoreInner::commit)
THEOREM OneEffectInvariant == Spec => []OneEffect
BY InitOneEffect, NextOneEffect, StoreInvariant, CallsInvariant, PTL DEF Spec

\* What commit answers is true of the log, for every client setting: Ok is one
\* commit, or nothing to do; an error, "commit contention" too, is no commit,
\* now and later, but for one whose answer the network lost.
THEOREM AnswersAreTrue == Spec => []AnswersMatchLog
<1>1. ASSUME IInv, CallsInv, OneEffect PROVE AnswersMatchLog
  <2> SUFFICES ASSUME NEW t \in Task
               PROVE  /\ answer[t] = "ok" /\ req[t].op # "init" => Cardinality(Heard(t)) = 1
                      /\ answer[t] \in {"rejected", "contention"} => Heard(t) = {}
                      /\ answer[t] = "contention" =>
                           Cardinality(DOMAIN log) + clashes[t] >= MaxCommitAttempts
    BY DEF AnswersMatchLog
  <2>1. Told(t) /\ Climbs(t) /\ IsFiniteSet(DOMAIN log)
    BY <1>1 DEF CallsInv
  <2>2. ASSUME answer[t] = "ok", req[t].op # "init" PROVE Cardinality(Heard(t)) = 1
    <3>1. PICK v \in DOMAIN log \ unheard : log[v].by = t
      BY <2>1, <2>2 DEF Told, NothingToDo
    <3>2. Heard(t) = {v}
      BY <1>1, <3>1 DEF OneEffect, Heard, CommitsOf
    <3> QED BY <3>2, FS_Singleton
  <2>3. ASSUME answer[t] \in {"rejected", "contention"} PROVE Heard(t) = {}
    <3>1. pc[t] = "done"
      BY <2>1, <2>3 DEF Told
    <3> QED BY <1>1, <2>3, <3>1 DEF OneEffect, Heard, CommitsOf, HasLanded
  <2>4. ASSUME answer[t] = "contention"
        PROVE  Cardinality(DOMAIN log) + clashes[t] >= MaxCommitAttempts
    <3>1. MaxCommitAttempts \in Nat /\ clashes[t] \in Nat
      BY <1>1, StoreAssumption DEF IInv, TypeOK
    <3>2. Cardinality(DOMAIN log) \in Nat
      BY <2>1, FS_CardinalityType
    <3>3. CASE clashes[t] >= MaxCommitAttempts
      BY <3>1, <3>2, <3>3
    <3>4. CASE clashes[t] < MaxCommitAttempts
      <4> DEFINE n == MaxCommitAttempts - clashes[t]
      <4>1. n \in Nat
        BY <3>1, <3>4
      <4>2. 1..n \subseteq DOMAIN log
        BY <2>1, <2>4 DEF Climbs
      <4> HIDE DEF n
      <4>3. Cardinality(1..n) = n
        BY <4>1, FS_Interval
      <4>4. Cardinality(1..n) <= Cardinality(DOMAIN log)
        BY <2>1, <4>2, FS_Subset
      <4> QED BY <3>1, <3>2, <4>1, <4>3, <4>4 DEF n
    <3> QED BY <3>1, <3>3, <3>4
  <2> QED BY <2>2, <2>3, <2>4
<1> QED BY <1>1, StoreInvariant, CallsInvariant, OneEffectInvariant, PTL

-----------------------------------------------------------------------------
(* The store implements the registry                                       *)

Effects == {log[v].by : v \in DOMAIN log \ unheard}

\* Both speak of the same closures on the same snapshots.
LEMMA SameClosures ==
  /\ R!EmptySnapshot = EmptySnapshot
  /\ \A s, q : /\ R!Rejects(s, q) <=> Rejects(s, q)
               /\ R!NothingToDo(s, q) <=> NothingToDo(s, q)
               /\ R!Accepts(s, q) <=> Accepts(s, q)
  /\ \A s, t, q : R!Build(s, t, q) = Build(s, t, q)
  /\ \A s, x : R!Apply(s, x) = Apply(s, x)
<1>1. R!EmptySnapshot = EmptySnapshot
  BY DEF R!EmptySnapshot, EmptySnapshot
<1>2. ASSUME NEW s, NEW q PROVE R!Rejects(s, q) <=> Rejects(s, q)
  BY DEF R!Rejects, Rejects, R!Lookup, Lookup
<1>3. ASSUME NEW s, NEW q PROVE R!NothingToDo(s, q) <=> NothingToDo(s, q)
  BY DEF R!NothingToDo, NothingToDo, R!Unnamed, Unnamed
<1>4. ASSUME NEW s, NEW t, NEW q PROVE R!Build(s, t, q) = Build(s, t, q)
  BY DEF R!Build, Build, R!Upsert, Upsert, R!Remove, Remove, R!Updated, Updated, R!Lookup, Lookup
<1>5. ASSUME NEW s, NEW x PROVE R!Apply(s, x) = Apply(s, x)
  BY DEF R!Apply, Apply, R!Unindexed, Unindexed
<1> QED BY <1>1, <1>2, <1>3, <1>4, <1>5 DEF R!Accepts, Accepts

LEMMA InitRefines == Init => R!Init
BY SameClosures DEF Init, R!Init

\* The registry's latest state is the one the next version is built on.
LEMMA LatestIsPredecessor ==
  ASSUME IInv, NEW m \in inflight, Created(m)
  PROVE  R!Latest = m.target - 1
<1>1. /\ m.target \in Nat \ {0} /\ m.target \notin DOMAIN history
      /\ m.target - 1 \in DOMAIN history /\ DOMAIN history \subseteq Nat
  BY CreatedExtends DEF Put, Version, IInv, TypeOK
<1>2. \A u \in DOMAIN history : u <= m.target - 1
  <2> SUFFICES ASSUME NEW u \in DOMAIN history, u > m.target
               PROVE  FALSE
    BY <1>1
  <2>1. u \in DOMAIN log /\ m.target \in 1..u
    BY <1>1 DEF IInv, Gapless
  <2> QED BY <1>1, <2>1 DEF IInv, Gapless
<1>3. \A u \in DOMAIN history :
        (\A w \in DOMAIN history : w <= u) <=> u = m.target - 1
  BY <1>1, <1>2
<1> QED BY <1>1, <1>3 DEF R!Latest

\* A PUT that lands makes of the latest state what its call makes of it.
LEMMA CreatedExecutes ==
  ASSUME IInv, NEW m \in inflight, Created(m)
  PROVE  R!Execute(m.task)
<1> DEFINE t == m.task
           k == m.target
           now == history[k - 1]
<1>1. k \in Nat
  BY CreatedExtends DEF Put, Version
<1>2. R!Latest = k - 1
  BY LatestIsPredecessor
<1>5. Accepts(now, req[t]) /\ m.action = Build(now, t, req[t])
  BY DEF IInv, PutsBuiltOnState
<1>6. history' = [v \in DOMAIN history \cup {k} |->
                    IF v = k THEN Apply(now, Build(now, t, req[t])) ELSE history[v]]
  <2>1. history' = WithKey(history, k, Apply(StateBefore(k), m.action))
    BY DEF Created
  <2>2. history'[k] = Apply(now, m.action)
    BY CreatedExtends
  <2>3. Apply(StateBefore(k), m.action) = Apply(now, Build(now, t, req[t]))
    BY <1>5, <2>1, <2>2 DEF WithKey
  <2> QED BY <2>1, <2>3 DEF WithKey
<1>9. R!Latest + 1 = k
  BY <1>1, <1>2
<1> HIDE DEF t, k
<1>10. Accepts(history[R!Latest], req[t])
  BY <1>2, <1>5
<1>11. history' = [v \in DOMAIN history \cup {R!Latest + 1} |->
                     IF v = R!Latest + 1
                     THEN Apply(history[R!Latest], Build(history[R!Latest], t, req[t]))
                     ELSE history[v]]
  BY <1>2, <1>6, <1>9
<1> QED BY <1>10, <1>11, SameClosures DEF R!Execute, t

\* A call that is under way, and one that is in doubt, has no effect it knows of
\* while its PUT is on the wire.
LEMMA NoEffectYet ==
  ASSUME IInv, CallsInv, OneEffect, NEW m \in inflight
  PROVE  /\ m.task \notin Effects
         /\ R!Pending(m.task) \/ answer[m.task] = "unknown"
         /\ Waiting(m) => R!Pending(m.task)
<1>1. m.task \in Task
  BY DEF IInv, TypeOK, Put
<1>2. Told(m.task) /\ (Waiting(m) \/ answer[m.task] = "unknown")
  BY <1>1 DEF CallsInv, SendersWait
<1> QED BY <1>1, <1>2 DEF Told, OneEffect, Effects, Waiting, R!Pending

\* A call takes effect in the instant its object is created.
LEMMA LandTakesEffect ==
  ASSUME IInv, CallsInv, OneEffect, NEW m \in inflight, Land(m)
  PROVE  R!TakeEffect(m.task)
<1> DEFINE t == m.task
           k == m.target
           H == DOMAIN log \ unheard
<1>0. /\ DOMAIN log' = DOMAIN log \cup {k}
      /\ \A v \in DOMAIN log : v # k /\ log'[v] = log[v]
      /\ log'[k] = [by |-> t, action |-> m.action]
  BY CreatedExtends DEF Land
<1>1. /\ DOMAIN log' \ unheard' = H \cup {k}
      /\ \A v \in H : v # k /\ log'[v] = log[v]
      /\ log'[k] = [by |-> t, action |-> m.action]
  BY <1>0 DEF Land, IInv, TypeOK
<1>2. Effects' = Effects \cup {t}
  BY <1>1 DEF Effects
<1>3. R!Execute(t)
  BY CreatedExecutes DEF Land
<1>4. UNCHANGED <<req, answer>>
  BY DEF Land
<1> QED BY <1>2, <1>3, <1>4, NoEffectYet DEF R!TakeEffect, Effects

\* With its answer lost, the effect is beside the one the call answers for.
LEMMA LandUnheardTakesEffect ==
  ASSUME IInv, CallsInv, OneEffect, NEW m \in inflight, LandUnheard(m)
  PROVE  R!TakeEffectUnheard(m.task)
<1> DEFINE H == DOMAIN log \ unheard
<1>1. /\ DOMAIN log' \ unheard' = H
      /\ \A v \in H : log'[v] = log[v]
  BY CreatedExtends DEF LandUnheard, Created, KeyIsFree
<1>2. Effects' = Effects
  BY <1>1 DEF Effects
<1>3. R!Execute(m.task) /\ SdkRetry /\ R!Pending(m.task) /\ m.task \notin Effects
  BY CreatedExecutes, NoEffectYet DEF LandUnheard
<1>4. UNCHANGED <<req, answer>>
  BY DEF LandUnheard, task
<1> QED BY <1>2, <1>3, <1>4 DEF R!TakeEffectUnheard, Effects

\* A caller is told Ok for an effect it had, or for a state in which there was
\* nothing to do; an error, for no effect.
LEMMA ReturnTells ==
  ASSUME IInv, CallsInv, OneEffect, NEW t \in Task, pc[t] \in Running,
         NEW result \in {"ok", "rejected", "contention"},
         Return(t, result), UNCHANGED <<log, unheard, history>>,
         result = "ok" => \/ pc[t] \in HasLanded
                          \/ \E v \in DOMAIN history : NothingToDo(history[v], req[t]),
         result = "rejected" => \E v \in DOMAIN history : Rejects(history[v], req[t]),
         result # "ok" => pc[t] \notin HasLanded
  PROVE  R!Confirm(t) \/ R!Refuse(t) \/ R!GiveUp(t)
<1>1. R!Pending(t) /\ Told(t)
  BY DEF CallsInv, Told, R!Pending, Running, AtAwait
<1>2. R!Tell(t, result)
  BY DEF R!Tell, Return
<1>3. pc[t] \in HasLanded => t \in Effects
  BY <1>1 DEF Told, Effects, IInv, TasksRemember, HasLanded
<1>4. pc[t] \notin HasLanded => t \notin Effects
  BY <1>1 DEF Told, OneEffect, Effects, R!Pending
<1>5. CASE result = "ok"
  BY <1>1, <1>2, <1>3, <1>5, SameClosures DEF R!Confirm, Effects
<1>6. CASE result = "rejected"
  BY <1>1, <1>2, <1>4, <1>6, SameClosures DEF R!Refuse, Effects
<1>7. CASE result = "contention"
  BY <1>1, <1>2, <1>4, <1>7 DEF R!GiveUp, Effects
<1> QED BY <1>5, <1>6, <1>7

LEMMA StepRefines == IInv /\ CallsInv /\ OneEffect /\ [Next]_vars => [R!Next]_(R!vars)
<1> SUFFICES ASSUME IInv, CallsInv, OneEffect, [Next]_vars PROVE [R!Next]_(R!vars)
  OBVIOUS
<1> DEFINE Stutter == UNCHANGED <<history, req, answer, log, unheard>>
<1>s. Stutter => UNCHANGED R!vars
  BY DEF R!vars
<1>e. ASSUME NEW t \in Task, R!Confirm(t) \/ R!Refuse(t) \/ R!GiveUp(t) PROVE R!Next
  BY <1>e DEF R!Next
<1>1. ASSUME NEW t \in Task, NEW q \in Workload, Call(t, q) PROVE R!Next
  <2>1. req[t] = NoRequest
    BY <1>1 DEF Call, CallsInv, Told
  <2>2. R!Invoke(t, q)
    BY <1>1, <2>1 DEF R!Invoke, Call, bucket
  <2> QED BY <2>2 DEF R!Next
<1>2. ASSUME NEW t \in Task, BuildRejects(t) \/ BuildNothing(t) PROVE R!Next
  <2>1. /\ pc[t] \in Running /\ pc[t] \notin HasLanded /\ UNCHANGED <<log, unheard, history>>
    BY <1>2 DEF BuildRejects, BuildNothing, Running, HasLanded, bucket
  <2>2. ver[Home[t]] \in DOMAIN history /\ snap[Home[t]] = history[ver[Home[t]]]
    BY StoreAssumption DEF IInv, SnapshotsArePrefixes
  <2>3. PICK result \in {"ok", "rejected"} :
          /\ Return(t, result)
          /\ result = "ok" => \E v \in DOMAIN history : NothingToDo(history[v], req[t])
          /\ result = "rejected" => \E v \in DOMAIN history : Rejects(history[v], req[t])
    BY <1>2, <2>2 DEF BuildRejects, BuildNothing
  <2> QED BY <1>e, <2>1, <2>3, ReturnTells
<1>3. ASSUME NEW t \in Task,
             ApplyOwn(t) \/ EncodeCheckpoint(t) \/ WritePointer(t) \/ CheckpointFails(t)
      PROVE  R!Next \/ Stutter
  <2>1. /\ pc[t] \in HasLanded /\ pc[t] \in Running /\ UNCHANGED <<log, unheard, history>>
        /\ Return(t, "ok") \/ UNCHANGED <<req, answer>>
    BY <1>3 DEF ApplyOwn, EncodeCheckpoint, WritePointer, CheckpointFails, Running, AtAwait,
       HasLanded, bucket
  <2> QED BY <1>e, <2>1, ReturnTells
<1>4. ASSUME NEW t \in Task, BuildWrites(t) \/ WriteBody(t) \/ CatchUpAfterLoss(t)
      PROVE  Stutter
  BY <1>4 DEF BuildWrites, WriteBody, CatchUpAfterLoss, BeginCatchUp, bucket
<1>5. ASSUME NEW t \in Task, Abandon(t) PROVE R!Next
  <2>1. R!Pending(t)
    BY <1>5 DEF Abandon, CallsInv, Told, R!Pending, AtAwait
  <2>2. /\ answer' = [answer EXCEPT ![t] = "unknown"] /\ answer \in [Task -> {"none", "ok", "rejected", "contention", "unknown"}]
        /\ UNCHANGED <<history, req, log, unheard>>
    BY <1>5 DEF Abandon, Return, bucket, IInv, TypeOK
  <2>3. answer' = [u \in Task |-> IF u \in {t} THEN "unknown" ELSE answer[u]]
    BY <2>2
  <2>4. R!Lose({t})
    BY <2>1, <2>2, <2>3 DEF R!Lose
  <2> QED BY <2>4 DEF R!Next
<1>6. ASSUME NEW r \in Replica,
             Open(r) \/ Refresh(r) \/ ResolveCheckpoint(r) \/ ReadCommits(r) \/ Replay(r)
               \/ CatchUpFails(r)
      PROVE  Stutter
  BY <1>6 DEF Open, Refresh, BeginCatchUp, ResolveCheckpoint, ReadCommits, Replay, CatchUpFails,
     bucket, task
<1>7. ASSUME NEW r \in Replica, EndCatchUp(r) PROVE R!Next \/ Stutter
  <2>1. CASE lock[r] \notin Task
    BY <1>7, <2>1 DEF EndCatchUp, bucket, task
  <2>2. CASE lock[r] \in Task
    <3> PICK t \in Task : t = lock[r]
      BY <2>2
    <3>1. pc[t] = "catchup" /\ NextAttempt(t) /\ UNCHANGED <<log, unheard, history>>
      BY <1>7, <2>2 DEF EndCatchUp, IInv, LocksHeld, bucket
    <3>2. CASE TryAgain(t)
      BY <3>1, <3>2 DEF TryAgain
    <3>3. CASE Return(t, "contention")
      <4>1. pc[t] \in Running /\ pc[t] \notin HasLanded
        BY <3>1 DEF Running, AtAwait, HasLanded
      <4> QED BY <1>e, <3>1, <3>3, <4>1, ReturnTells
    <3> QED BY <3>1, <3>2, <3>3 DEF NextAttempt
  <2> QED BY <2>1, <2>2
<1>8. ASSUME NEW r \in Replica, Crash(r) PROVE R!Next
  <2>1. PICK T \in SUBSET Task : T = {t \in Task : Home[t] = r /\ pc[t] \in Running}
    OBVIOUS
  <2>2. \A t \in T : R!Pending(t)
    BY <2>1 DEF CallsInv, Told, R!Pending, Running, AtAwait
  <2>3. /\ answer' = [t \in Task |-> IF t \in T THEN "unknown" ELSE answer[t]]
        /\ UNCHANGED <<history, req, log, unheard>>
    BY <1>8, <2>1 DEF Crash, bucket
  <2>4. R!Lose(T)
    BY <2>2, <2>3 DEF R!Lose
  <2> QED BY <2>4 DEF R!Next
<1>9. ASSUME NEW m \in inflight, Land(m) PROVE R!Next
  <2>1. m.task \in Task
    BY DEF IInv, TypeOK, Put
  <2> QED BY <1>9, <2>1, LandTakesEffect DEF R!Next
<1>u. ASSUME NEW m \in inflight, LandUnheard(m) PROVE R!Next
  <2>1. m.task \in Task
    BY DEF IInv, TypeOK, Put
  <2> QED BY <1>u, <2>1, LandUnheardTakesEffect DEF R!Next
<1>10. ASSUME NEW m \in inflight, Refuse(m) \/ Collide(m) PROVE Stutter
  BY <1>10 DEF Refuse, Collide
<1>11. UNCHANGED vars => Stutter
  BY DEF vars, bucket, task
<1> HIDE DEF Stutter
<1> QED BY <1>s, <1>1, <1>2, <1>3, <1>4, <1>5, <1>6, <1>7, <1>8, <1>9, <1>u, <1>10,
           <1>11
        DEF Next, Step, CatchUpStep

\* Replicas, races, checkpoints, restarts and lost calls taken together, the
\* store is one atomic registry: each call takes effect in one instant, on the
\* latest state, at most once beside what a resent PUT made it do unheard, and
\* is told nothing of the effect it answers for that is not so.
THEOREM StoreIsRegistry == Spec => ImplementsRegistry
BY InitRefines, StepRefines, StoreInvariant, CallsInvariant, OneEffectInvariant, PTL
   DEF Spec, ImplementsRegistry, R!Spec

=============================================================================
