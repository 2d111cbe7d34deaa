------------------------- MODULE DeltaAnswers_proofs -------------------------
(***************************************************************************)
(* What the four handlers of the Delta logs tell their clients, and that   *)
(* the log implements a SQL table, for any number of tables, processes,    *)
(* requests, updates and faults and any page size: answers are fresh and   *)
(* ranges complete, although a hint may be stale and a listing of several  *)
(* pages is no snapshot; a response says which of its updates took effect; *)
(* a history that follows the answers has no hole.                         *)
(*                                                                         *)
(* Most of it is for versions that are not negative: below zero the keys   *)
(* are not in the order of the versions (run delta_negative).              *)
(***************************************************************************)
EXTENDS DeltaLog_proofs, DeltaImplementsTable

-----------------------------------------------------------------------------
(* What a handler holds between two of its steps                           *)

Later(c, v) == c = NoVersion \/ c < v

\* What a listing under way has not found yet lies beyond its cursor.
Sorted(t) ==
  /\ pc[t] \notin {"beyond", "range"} => found[t] = {}
  /\ pc[t] = "beyond" /\ found[t] # {} =>
       cursor[t] \in found[t] /\ \A v \in found[t] : v <= cursor[t]
  /\ pc[t] = "range" =>
       /\ cursor[t] \in Nat \cup {NoVersion}
       /\ \A v \in Nat : v \in found[t] \/ Later(cursor[t], v) =>
            req[t].starting = NoVersion \/ req[t].starting <= v
       /\ \A v \in present[t] : InRange(req[t], v) => v \in found[t] \/ Later(cursor[t], v)

\* A handler knows of a version no lower than all that it was to know of.
Knows(t) ==
  /\ pc[t] = "keep" =>
       \A v \in present[t] \cup rows[t] : latest[t] # NoVersion /\ v <= latest[t]
  /\ pc[t] \in {"updates", "sent", "created"} => req[t].api \in {"update", "commit"}
  /\ pc[t] \in {"updates", "sent", "created"} /\ req[t].api = "update" =>
       /\ latest[t] \in Versions(TableOf(t)) \cup {-1}
       /\ \A v \in present[t] : v <= latest[t]
  /\ pc[t] \in {"sent", "created"} /\ req[t].api = "update" /\ Current(t).op = "add" =>
       latest[t] < Current(t).version

\* The rows of a get_commits whose range has been listed.
Covers(t) ==
  pc[t] \in {"hint", "beyond", "keep"} /\ req[t].api = "get" =>
    /\ {v \in present[t] : InRange(req[t], v)} \subseteq rows[t]
    /\ \A v \in rows[t] : InRange(req[t], v)

\* FreshAnswers and RangesComplete, of one request.
Answered1(t) ==
  answer[t] = "ok" =>
    /\ pc[t] = "done"
    /\ \A v \in present[t] : v <= reply[t]
    /\ reply[t] \in Versions(TableOf(t)) \/ (present[t] = {} /\ reply[t] \in {-1, 0})
    /\ req[t].api = "get" =>
         /\ {v \in present[t] : InRange(req[t], v)} \subseteq rows[t]
         /\ \A v \in rows[t] : v \in Versions(TableOf(t)) /\ InRange(req[t], v) /\ v <= reply[t]

Sound(t) == Sorted(t) /\ Knows(t) /\ Covers(t) /\ Answered1(t)

\* What update_table has sent lies above what was there when it was called.
SentAboveKnown ==
  \A m \in inflight : UpdateOf(m).op = "add" /\ req[m.task].api = "update" =>
    \A v \in present[m.task] : v < UpdateOf(m).version

AnswersInv ==
  /\ LogInv
  /\ \A t \in Task : Sound(t)
  /\ SentAboveKnown /\ AcceptedAboveKnown

-----------------------------------------------------------------------------
(* Frames                                                                  *)

\* A step leaves the request s alone.
Same(s) ==
  /\ pc'[s] = pc[s] /\ req'[s] = req[s] /\ at'[s] = at[s] /\ latest'[s] = latest[s]
  /\ cursor'[s] = cursor[s] /\ found'[s] = found[s] /\ rows'[s] = rows[s]
  /\ answer'[s] = answer[s] /\ reply'[s] = reply[s] /\ present'[s] = present[s]

LEMMA Typed ==
  ASSUME LogInv, Version \subseteq Nat, NEW t \in Task
  PROVE  /\ present[t] \subseteq Nat /\ found[t] \subseteq Nat /\ rows[t] \subseteq Nat
         /\ cursor[t] \in Int \cup {NoVersion}
         /\ \A b \in Table : Versions(b) \subseteq Nat /\ Versions(b) \subseteq Version
         /\ -1 # NoVersion
         /\ pc[t] \in {"idle", "done"} \cup Running
<1>1. TypeOK
  BY DEF LogInv
<1>2. found[t] \subseteq Version /\ rows[t] \subseteq Version
      /\ present[t] \subseteq Version /\ cursor[t] \in Int \cup {NoVersion}
      /\ pc[t] \in {"idle", "done"} \cup Running
  BY <1>1 DEF TypeOK
<1>3. \A b \in Table : Versions(b) \subseteq Version
  BY <1>1 DEF TypeOK, Versions
<1>4. -1 # NoVersion
  BY DeltaAssumption
<1>5. present[t] \subseteq Nat /\ found[t] \subseteq Nat /\ rows[t] \subseteq Nat
  BY <1>2
<1> QED BY <1>2, <1>3, <1>4, <1>5

\* The log only grows.
LEMMA Grows ==
  ASSUME LogInv, [Next]_vars
  PROVE  \A b \in Table : Versions(b) \subseteq Versions(b)'
BY StepWritesOnce DEF Versions

\* A request that is under way stays what it is.
LEMMA RequestStays ==
  ASSUME LogInv, [Next]_vars, NEW t \in Task, pc[t] # "idle"
  PROVE  req'[t] = req[t] /\ present'[t] = present[t] /\ pc'[t] # "idle"
<1>0. TypeOK
  BY DEF LogInv
<1>1. ASSUME NEW s \in Task, NEW q \in Workload, Call(s, q)
      PROVE  req'[t] = req[t] /\ present'[t] = present[t] /\ pc'[t] # "idle"
  BY <1>0, <1>1 DEF Call, TypeOK, Goto
<1>2. ASSUME NEW s \in Task, Step(s) \/ Abandon(s)
      PROVE  req' = req /\ present' = present /\ pc'[t] # "idle"
  BY <1>0, <1>2
     DEF Step, ReadHint, ListBeyond, KeepHint, ListRange, RejectAdd, SendAdd, MarkNothing, ListOn,
         SendMark, SendMeta, Send, Appended, UpdatesDone, Abandon, Return, NextUpdate, Goto, TypeOK,
         locals
<1>3. ASSUME NEW r \in Replica, Restart(r)
      PROVE  req' = req /\ present' = present /\ pc'[t] # "idle"
  BY <1>0, <1>3 DEF Restart, TypeOK
<1>4. ASSUME NEW m \in inflight, Land(m) \/ LandAddUnheard(m)
      PROVE  req' = req /\ present' = present /\ pc'[t] # "idle"
  BY <1>0, <1>4
     DEF Land, LandAdd, LandAddUnheard, LandMark, LandMeta, Refuse, EndInConflict, Acknowledge,
         NextUpdate, Return, Goto, TypeOK, locals
<1>5. CASE UNCHANGED vars
  BY <1>5 DEF vars, locals
<1> QED BY <1>1, <1>2, <1>3, <1>4, <1>5 DEF Next

LEMMA SameSound ==
  ASSUME LogInv, [Next]_vars, NEW s \in Task, Sound(s), Same(s)
  PROVE  Sound(s)'
<1>1. CASE pc[s] = "idle"
  <2>1. answer[s] = "none" /\ found[s] = {}
    BY <1>1 DEF LogInv, ListingsInLog
  <2> QED BY <1>1, <2>1 DEF Same, Sound, Sorted, Knows, Covers, Answered1
<1>2. CASE pc[s] # "idle"
  <2>1. TableOf(s) \in Table /\ TableOf(s)' = TableOf(s) /\ Current(s)' = Current(s)
    BY <1>2, UnderWay DEF Same, TableOf, Current
  <2>2. Versions(TableOf(s)) \subseteq Versions(TableOf(s))'
    <3>1. PICK b \in Table : b = TableOf(s)
      BY <2>1
    <3>2. Versions(b) \subseteq DOMAIN log'[b]
      BY Grows DEF Versions
    <3> QED BY <3>1, <3>2, <2>1 DEF Versions
  <2>3. Sorted(s)'
    BY DEF Same, Sound, Sorted
  <2>4. Knows(s)'
    BY <2>1, <2>2 DEF Same, Sound, Knows
  <2>5. Covers(s)'
    BY DEF Same, Sound, Covers
  <2>6. Answered1(s)'
    BY <2>1, <2>2 DEF Same, Sound, Answered1
  <2> QED BY <2>3, <2>4, <2>5, <2>6 DEF Sound
<1> QED BY <1>1, <1>2

\* One request moves on, the others stay as they are.
LEMMA OneSound ==
  ASSUME AnswersInv, [Next]_vars, NEW t \in Task, Sound(t)', \A s \in Task \ {t} : Same(s)
  PROVE  \A s \in Task : Sound(s)'
BY SameSound DEF AnswersInv

\* A request that ends without an answer to rely on.
LEMMA EndSound ==
  ASSUME LogInv, NEW t \in Task, NEW how \in {"conflict", "requirement", "unknown"}, NEW v,
         Return(t, how, v)
  PROVE  Sound(t)'
<1>1. pc'[t] = "done" /\ answer'[t] = how /\ found'[t] = {}
  BY DEF Return, Goto, LogInv, TypeOK
<1> QED BY <1>1 DEF Sound, Sorted, Knows, Covers, Answered1

LEMMA ReturnSame ==
  ASSUME LogInv, NEW t \in Task, NEW how, NEW v, Return(t, how, v),
         UNCHANGED <<req, rows, present>>, \A s \in Task \ {t} : at'[s] = at[s]
  PROVE  \A s \in Task \ {t} : Same(s)
BY DEF Return, Goto, LogInv, TypeOK, Same

-----------------------------------------------------------------------------
(* The steps of a handler                                                  *)

LEMMA CallSound ==
  ASSUME AnswersInv, Version \subseteq Nat, NEW t \in Task, NEW q \in Workload, Call(t, q)
  PROVE  Sound(t)' /\ \A s \in Task \ {t} : Same(s)
<1>0. /\ TypeOK /\ pc[t] = "idle" /\ answer[t] = "none" /\ found[t] = {} /\ rows[t] = {}
      /\ q.api \in {"update", "commit", "load", "get"} /\ q.starting \in Maybe
  BY RequestType DEF Call, AnswersInv, LogInv, ListingsInLog
<1>1. /\ pc'[t] = FirstStep(q) /\ req'[t] = q /\ answer'[t] = "none" /\ found'[t] = {}
      /\ cursor'[t] = IF q.api = "get" THEN StartAfter(q) ELSE NoVersion
      /\ present'[t] = Versions(q.table)
  BY <1>0 DEF Call, Goto, TypeOK, outcome
<1>2. \A s \in Task \ {t} : Same(s)
  BY <1>0 DEF Call, Goto, TypeOK, outcome, Same
<1>3. CASE q.api = "get"
  <2>1. q.starting \in Nat \cup {NoVersion}
    BY <1>0 DEF Maybe
  <2>2. /\ StartAfter(q) \in Nat \cup {NoVersion}
        /\ \A v \in Nat : Later(StartAfter(q), v) <=> q.starting = NoVersion \/ q.starting <= v
    BY <2>1, DeltaAssumption DEF StartAfter, Later
  <2>3. Versions(q.table) \subseteq Nat
    <3>1. q.table \in Table
      BY RequestType
    <3> QED BY <3>1, Typed DEF AnswersInv
  <2>4. pc'[t] = "range"
    BY <1>1, <1>3 DEF FirstStep
  <2>5. Sorted(t)'
    BY <1>1, <1>3, <2>2, <2>3, <2>4 DEF Sorted, InRange
  <2> QED BY <1>1, <1>2, <2>4, <2>5 DEF Sound, Knows, Covers, Answered1
<1>4. CASE q.api = "commit"
  <2>1. pc'[t] = "updates"
    BY <1>1, <1>4 DEF FirstStep
  <2> QED BY <1>1, <1>2, <1>4, <2>1 DEF Sound, Sorted, Knows, Covers, Answered1
<1>5. CASE q.api \in {"update", "load"}
  <2>1. pc'[t] = "hint"
    BY <1>1, <1>5 DEF FirstStep
  <2> QED BY <1>1, <1>2, <1>5, <2>1 DEF Sound, Sorted, Knows, Covers, Answered1
<1> QED BY <1>0, <1>3, <1>4, <1>5

LEMMA ReadHintSound ==
  ASSUME AnswersInv, NEW t \in Task, ReadHint(t)
  PROVE  Sound(t)' /\ \A s \in Task \ {t} : Same(s)
<1>0. TypeOK /\ pc[t] = "hint" /\ Sound(t)
  BY DEF AnswersInv, LogInv, ReadHint
<1>1. /\ pc'[t] = "beyond"
      /\ UNCHANGED <<req, at, latest, found, rows, answer, reply, present>>
      /\ \A s \in Task \ {t} : Same(s)
  BY <1>0 DEF ReadHint, Goto, TypeOK, outcome, Same
<1>2. answer'[t] # "ok" /\ found'[t] = {}
  BY <1>0, <1>1 DEF Sound, Sorted, Answered1
<1> QED BY <1>0, <1>1, <1>2 DEF Sound, Sorted, Knows, Covers, Answered1

\* A page lies beyond the cursor it was asked for.
LEMMA PageLater ==
  ASSUME Version \subseteq Nat, NEW b, Versions(b) \subseteq Version,
         NEW c \in Nat \cup {NoVersion}, NEW v \in Page(b, c)
  PROVE  Later(c, v)
BY KeyOrder DEF Page, Later

\* One page of a listing that goes on.
LEMMA ListOnIs ==
  ASSUME AnswersInv, Version \subseteq Nat, NEW t \in Task, pc[t] \in {"beyond", "range"},
         NEW page, page = Page(TableOf(t), cursor[t]), page # {}, cursor[t] \in Nat \cup {NoVersion},
         ListOn(t, page)
  PROVE  /\ found'[t] = found[t] \cup page /\ cursor'[t] \in page
         /\ page \subseteq Versions(TableOf(t)) /\ page \subseteq Nat
         /\ \A v \in page : v <= cursor'[t]
         /\ \A v \in page : Later(cursor[t], v)
         /\ \A v \in Versions(TableOf(t)) :
              Later(cursor[t], v) => v \in page \/ Later(cursor'[t], v)
<1>0. TypeOK /\ pc[t] # "idle" /\ TableOf(t) \in Table /\ Versions(TableOf(t)) \subseteq Version
  BY UnderWay DEF AnswersInv
<1>1. page \subseteq Versions(TableOf(t)) /\ page \in SUBSET Version /\ IsFiniteSet(Versions(TableOf(t)))
  BY <1>0, PageInLog DEF AnswersInv, LogInv, RequestsKnown
<1>2. found'[t] = found[t] \cup page /\ cursor'[t] = LastKey(page)
  BY <1>0 DEF ListOn, TypeOK, NextCursor
<1>3. LastKey(page) \in page /\ \A v \in page : v <= LastKey(page)
  BY <1>1, LastKeyIs
<1>4. \A v \in page : Later(cursor[t], v)
  BY <1>0, PageLater
<1>5. ASSUME NEW v \in Versions(TableOf(t)), Later(cursor[t], v), v <= LastKey(page)
      PROVE  v \in page
  BY <1>0, <1>1, <1>3, <1>5, PageIsPrefix DEF Later
<1>6. ASSUME NEW v \in Versions(TableOf(t)), ~(v <= LastKey(page)) PROVE Later(LastKey(page), v)
  <2>1. v \in Nat /\ LastKey(page) \in Nat
    BY <1>0, <1>1, <1>3
  <2> QED BY <2>1, <1>6 DEF Later
<1> QED BY <1>1, <1>2, <1>3, <1>4, <1>5, <1>6

\* The end of a listing beyond the hint: what it returns is the highest version.
LEMMA HighestFound ==
  ASSUME AnswersInv, Version \subseteq Nat, NEW t \in Task, ListBeyond(t),
         Page(TableOf(t), cursor[t]) = {}
  PROVE  LET page == Page(TableOf(t), cursor[t])
             all == found[t] \cup page
             result == IF all = {} THEN cursor[t] ELSE MaxOf(all)
         IN  /\ result \in Versions(TableOf(t)) \cup {NoVersion}
             /\ \A v \in Versions(TableOf(t)) : result # NoVersion /\ v <= result
<1> DEFINE page == Page(TableOf(t), cursor[t])
           all == found[t] \cup page
           result == IF all = {} THEN cursor[t] ELSE MaxOf(all)
           here == Versions(TableOf(t))
<1>0. /\ pc[t] = "beyond" /\ Sound(t) /\ here \subseteq Version /\ found[t] \subseteq here
  BY UnderWay DEF ListBeyond, AnswersInv, LogInv, ListingsInLog
<1>1. cursor[t] \in here \cup {NoVersion}
  BY <1>0 DEF AnswersInv, LogInv, ListingsInLog, Sound, Sorted
<1>2. cursor[t] \in Nat \cup {NoVersion}
  BY <1>0, <1>1
<1>3. \A v \in here : cursor[t] # NoVersion /\ v <= cursor[t]
  BY <1>0, <1>2, EmptyPage
<1>4. CASE found[t] = {}
  BY <1>1, <1>3, <1>4
<1>5. CASE found[t] # {}
  <2>1. all = found[t] /\ result = MaxOf(found[t]) /\ found[t] \in SUBSET Version
    BY <1>0, <1>5
  <2>2. MaxOf(found[t]) \in found[t] /\ \A u \in found[t] : u <= MaxOf(found[t])
    BY <2>1, <1>5, MaxOfIs
  <2>3. cursor[t] \in found[t]
    BY <1>0, <1>5 DEF Sound, Sorted
  <2>4. /\ cursor[t] \in Nat /\ result \in Nat /\ cursor[t] <= result /\ result # NoVersion
        /\ result \in here /\ \A v \in here : v \in Nat
    BY <1>0, <2>1, <2>2, <2>3, DeltaAssumption
  <2> HIDE DEF result
  <2>5. \A v \in here : result # NoVersion /\ v <= result
    BY <1>3, <2>4
  <2> QED BY <2>4, <2>5 DEF result
<1> QED BY <1>4, <1>5

LEMMA ListBeyondSound ==
  ASSUME AnswersInv, Version \subseteq Nat, NEW t \in Task, ListBeyond(t)
  PROVE  Sound(t)' /\ \A s \in Task \ {t} : Same(s)
<1> DEFINE page == Page(TableOf(t), cursor[t])
           all == found[t] \cup page
           result == IF all = {} THEN cursor[t] ELSE MaxOf(all)
           here == Versions(TableOf(t))
<1>0. /\ TypeOK /\ pc[t] = "beyond" /\ Sound(t) /\ answer[t] # "ok"
      /\ TableOf(t) \in Table /\ here \subseteq Version /\ found[t] \subseteq here
      /\ present[t] \cup rows[t] \subseteq here
  BY UnderWay DEF ListBeyond, AnswersInv, LogInv, ListingsInLog, Sound, Answered1
<1>1. cursor[t] \in here \cup {NoVersion}
  BY <1>0 DEF AnswersInv, LogInv, ListingsInLog, Sound, Sorted
<1>2. cursor[t] \in Nat \cup {NoVersion}
  BY <1>0, <1>1
<1>3. UNCHANGED <<req, at, rows, answer, reply, present>>
  BY DEF ListBeyond, outcome
<1>4. CASE page # {}
  <2>1. ListOn(t, page)
    BY <1>4 DEF ListBeyond, IsLast
  <2>2. pc' = pc /\ latest' = latest /\ \A s \in Task \ {t} : Same(s)
    BY <1>0, <1>3, <2>1 DEF ListOn, TypeOK, Same
  <2>3. /\ found'[t] = found[t] \cup page /\ cursor'[t] \in page /\ page \subseteq Nat
        /\ \A v \in page : v <= cursor'[t] /\ Later(cursor[t], v)
    BY <1>0, <1>2, <1>4, <2>1, ListOnIs
  <2>4. \A v \in found[t] : v <= cursor'[t]
    <3>1. CASE found[t] = {}
      BY <3>1
    <3>2. CASE found[t] # {}
      <4>1. cursor[t] \in found[t] /\ \A v \in found[t] : v <= cursor[t]
        BY <1>0, <3>2 DEF Sound, Sorted
      <4>2. cursor[t] # NoVersion /\ cursor[t] \in Nat /\ cursor'[t] \in Nat
        BY <1>0, <2>3, <4>1, DeltaAssumption
      <4>3. cursor[t] < cursor'[t]
        BY <2>3, <4>2 DEF Later
      <4>4. \A v \in found[t] : v \in Nat
        BY <1>0
      <4> QED BY <4>1, <4>2, <4>3, <4>4
    <3> QED BY <3>1, <3>2
  <2>5. Sorted(t)'
    BY <1>0, <2>2, <2>3, <2>4 DEF Sorted
  <2> QED BY <1>0, <1>3, <2>2, <2>5 DEF Sound, Knows, Covers, Answered1
<1>5. CASE page = {}
  <2>1. /\ latest' = [latest EXCEPT ![t] = result]
        /\ found' = [found EXCEPT ![t] = {}]
        /\ cursor' = [cursor EXCEPT ![t] = NoVersion]
        /\ pc' = [pc EXCEPT ![t] = "keep"]
    BY <1>5 DEF ListBeyond, IsLast, Goto
  <2>2. \A s \in Task \ {t} : Same(s)
    BY <1>0, <1>3, <2>1 DEF TypeOK, Same
  <2>4. \A v \in here : result # NoVersion /\ v <= result
    BY <1>5, HighestFound
  <2> HIDE DEF result
  <2>5. latest'[t] = result /\ pc'[t] = "keep" /\ found'[t] = {}
    BY <1>0, <2>1 DEF TypeOK
  <2>6. Knows(t)'
    BY <1>0, <1>3, <2>4, <2>5 DEF Knows
  <2>7. Covers(t)'
    BY <1>0, <1>3, <2>5 DEF Sound, Covers
  <2> QED BY <1>0, <1>3, <2>2, <2>5, <2>6, <2>7 DEF Sound, Sorted, Answered1
<1> QED BY <1>4, <1>5

LEMMA KeepHintSound ==
  ASSUME AnswersInv, Version \subseteq Nat, NEW t \in Task, KeepHint(t)
  PROVE  Sound(t)' /\ \A s \in Task \ {t} : Same(s)
<1> DEFINE known == IF latest[t] = NoVersion THEN WhenEmpty(t) ELSE latest[t]
<1>0. /\ TypeOK /\ LogInv /\ pc[t] = "keep" /\ Sound(t) /\ answer[t] # "ok"
      /\ TableOf(t) \in Table /\ Versions(TableOf(t)) \subseteq Nat
      /\ latest[t] \in Versions(TableOf(t)) \cup {NoVersion} /\ found[t] = {}
      /\ present[t] \cup rows[t] \subseteq Versions(TableOf(t))
  BY UnderWay, Typed DEF KeepHint, AnswersInv, LogInv, ListingsInLog, Sound, Answered1, Sorted
<1>1. UNCHANGED <<log, req, at, rows, present>>
  BY DEF KeepHint, bucket
<1>2. /\ \A v \in present[t] \cup rows[t] : v <= known
      /\ known \in Versions(TableOf(t)) \/ (present[t] = {} /\ known = WhenEmpty(t))
  BY <1>0 DEF Sound, Knows
<1>3. WhenEmpty(t) \in {-1, 0} /\ (req[t].api = "update" => WhenEmpty(t) = -1)
  BY DEF WhenEmpty
<1> HIDE DEF known
<1>4. CASE req[t].api = "update" /\ RequirementsMet(t)
  <2>1. /\ latest' = [latest EXCEPT ![t] = known]
        /\ pc' = [pc EXCEPT ![t] = "updates"]
        /\ UNCHANGED <<cursor, found, answer, reply>>
    BY <1>4 DEF KeepHint, Goto, known, outcome
  <2>2. \A s \in Task \ {t} : Same(s)
    BY <1>0, <1>1, <2>1 DEF TypeOK, Same
  <2>3. latest'[t] = known /\ pc'[t] = "updates"
    BY <1>0, <2>1 DEF TypeOK
  <2>4. Knows(t)'
    BY <1>1, <1>2, <1>3, <1>4, <2>3 DEF Knows, Versions, TableOf
  <2> QED BY <1>0, <1>1, <2>1, <2>2, <2>3, <2>4 DEF Sound, Sorted, Covers, Answered1
<1>5. CASE req[t].api = "update" /\ ~RequirementsMet(t)
  <2>1. Return(t, "requirement", NoVersion)
    BY <1>5 DEF KeepHint
  <2> QED BY <1>0, <1>1, <2>1, EndSound, ReturnSame
<1>6. CASE req[t].api # "update"
  <2>1. Return(t, "ok", known)
    BY <1>6 DEF KeepHint, known
  <2>2. \A s \in Task \ {t} : Same(s)
    BY <1>0, <1>1, <2>1, ReturnSame
  <2>3. pc'[t] = "done" /\ answer'[t] = "ok" /\ reply'[t] = known /\ found'[t] = {}
    BY <1>0, <2>1 DEF Return, Goto, TypeOK
  <2>4. Versions(TableOf(t))' = Versions(TableOf(t))
    BY <1>1 DEF Versions, TableOf
  <2>5. Answered1(t)'
    BY <1>0, <1>1, <1>2, <1>3, <2>3, <2>4 DEF Answered1, Sound, Covers
  <2> QED BY <2>2, <2>3, <2>5 DEF Sound, Sorted, Knows, Covers
<1> QED BY <1>4, <1>5, <1>6

LEMMA ListRangeSound ==
  ASSUME AnswersInv, Version \subseteq Nat, NEW t \in Task, ListRange(t)
  PROVE  Sound(t)' /\ \A s \in Task \ {t} : Same(s)
<1> DEFINE page == Page(TableOf(t), cursor[t])
           stop == req[t].ending
           past == {v \in page : stop # NoVersion /\ KeyBefore(stop, v)}
           all == found[t] \cup (page \ past)
           here == Versions(TableOf(t))
<1>0. /\ TypeOK /\ pc[t] = "range" /\ Sound(t) /\ answer[t] # "ok"
      /\ TableOf(t) \in Table /\ here \subseteq Version /\ here \subseteq Nat
      /\ found[t] \subseteq here /\ present[t] \subseteq here
      /\ req[t] \in Workload /\ IsFiniteSet(here)
      /\ cursor[t] \in Nat \cup {NoVersion}
  BY UnderWay DEF ListRange, AnswersInv, LogInv, RequestsKnown, ListingsInLog, Sound, Answered1, Sorted
<1>1. stop \in Nat \cup {NoVersion}
  <2>1. stop \in Maybe
    BY <1>0, RequestType
  <2> QED BY <2>1 DEF Maybe
<1>2. /\ page \subseteq here
      /\ \A v \in page : Later(cursor[t], v)
      /\ \A v \in past : v \in Nat /\ stop # NoVersion /\ stop < v
      /\ \A v \in page \ past : stop = NoVersion \/ v <= stop
  <2>1. page \subseteq here /\ \A v \in page : Later(cursor[t], v)
    BY <1>0, PageInLog, PageLater
  <2>2. \A v \in page : stop # NoVersion => (KeyBefore(stop, v) <=> stop < v)
    BY <1>0, <1>1, <2>1, KeyOrder
  <2> HIDE DEF page, stop
  <2> QED BY <1>0, <1>1, <2>1, <2>2
<1>3. UNCHANGED <<req, at, answer, reply, present>>
  BY DEF ListRange, outcome
<1>4. \A v \in all : req[t].starting = NoVersion \/ req[t].starting <= v
  BY <1>0, <1>2 DEF Sound, Sorted
<1>5. ASSUME NEW v \in present[t], InRange(req[t], v) PROVE v \in found[t] \/ Later(cursor[t], v)
  BY <1>0, <1>5 DEF Sound, Sorted
<1>6. CASE page = {} \/ past # {}
  <2>1. /\ rows' = [rows EXCEPT ![t] = {v \in all : stop = NoVersion \/ v <= stop}]
        /\ found' = [found EXCEPT ![t] = {}]
        /\ cursor' = [cursor EXCEPT ![t] = NoVersion]
        /\ pc' = [pc EXCEPT ![t] = "hint"]
        /\ UNCHANGED latest
    BY <1>6 DEF ListRange, IsLast, Goto
  <2>2. \A s \in Task \ {t} : Same(s)
    BY <1>0, <1>3, <2>1 DEF TypeOK, Same
  <2>3. ASSUME NEW v \in present[t], InRange(req[t], v) PROVE v \in all
    <3>1. v \in here /\ v \in Nat /\ (stop = NoVersion \/ v <= stop)
      BY <1>0, <2>3 DEF InRange
    <3>2. CASE v \in found[t]
      BY <3>2
    <3>3. CASE v \notin found[t]
      <4>1. Later(cursor[t], v)
        BY <1>5, <2>3, <3>3
      <4>2. CASE page = {}
        <5>1. cursor[t] # NoVersion /\ v <= cursor[t] /\ cursor[t] \in Nat
          BY <1>0, <3>1, <4>2, EmptyPage
        <5> QED BY <3>1, <4>1, <5>1 DEF Later
      <4>3. CASE past # {}
        <5>1. PICK w \in past : TRUE
          BY <4>3
        <5>2. w \in page /\ w \in Nat /\ stop # NoVersion /\ stop < w
          BY <1>2, <5>1
        <5>3. v <= w /\ v \notin past
          BY <1>1, <1>2, <3>1, <5>2
        <5>4. v \in page
          BY <1>0, <3>1, <4>1, <5>2, <5>3, PageIsPrefix DEF Later
        <5> QED BY <5>3, <5>4
      <4> QED BY <1>6, <4>2, <4>3
    <3> QED BY <3>2, <3>3
  <2>4. /\ pc'[t] = "hint" /\ found'[t] = {}
        /\ rows'[t] = {v \in all : stop = NoVersion \/ v <= stop}
    BY <1>0, <2>1 DEF TypeOK
  <2>5. Covers(t)'
    <3>1. \A v \in present[t] : InRange(req[t], v) => v \in rows'[t]
      BY <2>3, <2>4 DEF InRange
    <3>2. \A v \in rows'[t] : InRange(req[t], v)
      BY <1>4, <2>4 DEF InRange
    <3> QED BY <1>3, <3>1, <3>2 DEF Covers
  <2> QED BY <1>0, <1>3, <2>2, <2>4, <2>5 DEF Sound, Sorted, Knows, Answered1
<1>7. CASE page # {} /\ past = {}
  <2>1. ListOn(t, page) /\ rows' = rows
    BY <1>7 DEF ListRange, IsLast
  <2>2. pc' = pc /\ latest' = latest /\ \A s \in Task \ {t} : Same(s)
    BY <1>0, <1>3, <2>1 DEF ListOn, TypeOK, Same
  <2>3. /\ found'[t] = found[t] \cup page /\ cursor'[t] \in page /\ page \subseteq Nat
        /\ \A v \in page : v <= cursor'[t] /\ Later(cursor[t], v)
        /\ \A v \in here : Later(cursor[t], v) => v \in page \/ Later(cursor'[t], v)
    BY <1>0, <1>7, <2>1, ListOnIs
  <2>4. \A v \in Nat : Later(cursor'[t], v) => Later(cursor[t], v)
    <3>1. cursor'[t] \in Nat /\ Later(cursor[t], cursor'[t]) /\ cursor'[t] # NoVersion
      BY <2>3, DeltaAssumption
    <3> QED BY <1>0, <3>1 DEF Later
  <2>5. Sorted(t)'
    <3>1. \A v \in Nat : v \in found'[t] \/ Later(cursor'[t], v) =>
            req[t].starting = NoVersion \/ req[t].starting <= v
      BY <1>0, <2>3, <2>4 DEF Sound, Sorted
    <3>2. \A v \in present[t] : InRange(req[t], v) => v \in found'[t] \/ Later(cursor'[t], v)
      BY <1>0, <1>5, <2>3
    <3> QED BY <1>0, <1>3, <2>2, <2>3, <3>1, <3>2 DEF Sorted
  <2> QED BY <1>0, <1>3, <2>1, <2>2, <2>5 DEF Sound, Knows, Covers, Answered1
<1> QED BY <1>6, <1>7

LEMMA SendSound ==
  ASSUME AnswersInv, Version \subseteq Nat, NEW t \in Task, SendAdd(t) \/ SendMark(t) \/ SendMeta(t)
  PROVE  Sound(t)' /\ \A s \in Task \ {t} : Same(s)
<1>0. /\ TypeOK /\ LogInv /\ Sound(t) /\ pc[t] = "updates" /\ answer[t] # "ok"
      /\ TableOf(t) \in Table /\ Versions(TableOf(t)) \subseteq Nat
  BY UnderWay, Typed
     DEF SendAdd, SendMark, SendMeta, AtUpdate, AnswersInv, LogInv, Sound, Answered1
<1>1. /\ pc' = [pc EXCEPT ![t] = "sent"]
      /\ UNCHANGED <<log, req, at, latest, cursor, found, rows, answer, reply, present>>
  BY DEF SendAdd, SendMark, SendMeta, Send, Goto, locals, outcome
<1>2. \A s \in Task \ {t} : Same(s)
  BY <1>0, <1>1 DEF TypeOK, Same
<1>3. pc'[t] = "sent" /\ Current(t)' = Current(t) /\ Versions(TableOf(t))' = Versions(TableOf(t))
  BY <1>0, <1>1 DEF TypeOK, Current, Versions, TableOf
<1>4. ASSUME req[t].api = "update", Current(t).op = "add" PROVE latest[t] < Current(t).version
  <2>1. ~TooOld(t) /\ Current(t).version \in Version
    BY <1>0, <1>4, AtUpdateType DEF SendAdd, SendMark, SendMeta, AtUpdate
  <2>2. latest[t] \in Versions(TableOf(t)) \cup {-1}
    BY <1>0, <1>4 DEF Sound, Knows
  <2>3. latest[t] \in Int
    BY <1>0, <2>2
  <2>4. PICK n \in Version : n = Current(t).version
    BY <2>1
  <2>5. n \in Int /\ ~(n <= latest[t])
    BY <1>4, <2>1, <2>4 DEF TooOld
  <2> QED BY <2>3, <2>4, <2>5
<1>5. Knows(t)'
  BY <1>0, <1>1, <1>3, <1>4 DEF Sound, Knows
<1> QED BY <1>0, <1>1, <1>2, <1>3, <1>5 DEF Sound, Sorted, Covers, Answered1

\* The next update, with what the handler knew or better.
LEMMA NextUpdateSound ==
  ASSUME AnswersInv, [Next]_vars, NEW t \in Task, NextUpdate(t), pc[t] \in {"updates", "sent", "created"},
         UNCHANGED <<req, cursor, found, rows, answer, reply, present>>,
         \A s \in Task \ {t} : latest'[s] = latest[s],
         latest'[t] = latest[t] \/
           (req[t].api = "update" => /\ latest'[t] \in Versions(TableOf(t))
                                     /\ \A v \in present[t] : v <= latest'[t])
  PROVE  Sound(t)' /\ \A s \in Task \ {t} : Same(s)
<1>0. /\ TypeOK /\ LogInv /\ Sound(t) /\ answer[t] # "ok" /\ TableOf(t) \in Table
  BY UnderWay DEF AnswersInv, LogInv, Sound, Answered1
<1>1. pc' = [pc EXCEPT ![t] = "updates"] /\ at' = [at EXCEPT ![t] = @ + 1]
  BY DEF NextUpdate, Goto
<1>2. \A s \in Task \ {t} : Same(s)
  BY <1>0, <1>1 DEF TypeOK, Same
<1>3. pc'[t] = "updates" /\ TableOf(t)' = TableOf(t)
  BY <1>0, <1>1 DEF TypeOK, TableOf
<1>4. Versions(TableOf(t)) \subseteq Versions(TableOf(t))'
  <2>1. PICK b \in Table : b = TableOf(t)
    BY <1>0
  <2>2. Versions(b) \subseteq DOMAIN log'[b]
    BY <1>0, Grows DEF Versions
  <2> QED BY <1>3, <2>1, <2>2 DEF Versions
<1>5. Knows(t)'
  BY <1>0, <1>3, <1>4 DEF Sound, Knows
<1> QED BY <1>0, <1>2, <1>3, <1>5 DEF Sound, Sorted, Covers, Answered1

LEMMA MarkNothingSound ==
  ASSUME AnswersInv, [Next]_vars, NEW t \in Task, MarkNothing(t)
  PROVE  Sound(t)' /\ \A s \in Task \ {t} : Same(s)
BY NextUpdateSound DEF MarkNothing, AtUpdate, outcome

LEMMA AppendedSound ==
  ASSUME AnswersInv, Version \subseteq Nat, [Next]_vars, NEW t \in Task, Appended(t)
  PROVE  Sound(t)' /\ \A s \in Task \ {t} : Same(s)
<1>0. /\ TypeOK /\ pc[t] = "created" /\ Sound(t) /\ present[t] \subseteq Nat
      /\ Current(t).op = "add" /\ Current(t).version \in Versions(TableOf(t))
      /\ TableOf(t) \in Table /\ Versions(TableOf(t)) \subseteq Nat
  BY UnderWay, Typed DEF Appended, AnswersInv, LogInv, WritesSound
<1>1. latest' = [latest EXCEPT ![t] = Current(t).version]
  BY DEF Appended
<1>2. latest'[t] = Current(t).version /\ \A s \in Task \ {t} : latest'[s] = latest[s]
  BY <1>0, <1>1 DEF TypeOK
<1>3. ASSUME req[t].api = "update", NEW v \in present[t] PROVE v <= Current(t).version
  <2>1. /\ latest[t] \in Versions(TableOf(t)) \cup {-1}
        /\ v <= latest[t] /\ latest[t] < Current(t).version
    BY <1>0, <1>3 DEF Sound, Knows
  <2>2. PICK n \in Nat : n = Current(t).version
    BY <1>0
  <2>3. v \in Int /\ latest[t] \in Int /\ v <= latest[t] /\ latest[t] < n
    BY <1>0, <2>1, <2>2
  <2> QED BY <2>2, <2>3
<1>4. NextUpdate(t) /\ UNCHANGED <<req, cursor, found, rows, answer, reply, present>>
  BY DEF Appended, outcome
<1> QED BY <1>0, <1>2, <1>3, <1>4, NextUpdateSound

LEMMA UpdatesDoneSound ==
  ASSUME AnswersInv, Version \subseteq Nat, NEW t \in Task, UpdatesDone(t)
  PROVE  Sound(t)' /\ \A s \in Task \ {t} : Same(s)
<1>0. /\ TypeOK /\ LogInv /\ pc[t] = "updates" /\ Sound(t) /\ answer[t] # "ok" /\ found[t] = {}
      /\ present[t] \subseteq Versions(TableOf(t)) /\ present[t] \subseteq Nat
      /\ req[t].api \in {"update", "commit"}
  BY UnderWay, Typed
     DEF UpdatesDone, AnswersInv, LogInv, ListingsInLog, Sound, Answered1, Sorted, Knows
<1>1. UNCHANGED <<log, req, at, rows, present>>
  BY DEF UpdatesDone, bucket
<1>2. CASE req[t].api = "update"
  <2>1. Return(t, "ok", latest[t])
    BY <1>2 DEF UpdatesDone
  <2>2. \A s \in Task \ {t} : Same(s)
    BY <1>0, <1>1, <2>1, ReturnSame
  <2>3. pc'[t] = "done" /\ reply'[t] = latest[t] /\ found'[t] = {}
    BY <1>0, <2>1 DEF Return, Goto, TypeOK
  <2>4. Versions(TableOf(t))' = Versions(TableOf(t))
    BY <1>1 DEF Versions, TableOf
  <2>5. /\ latest[t] \in Versions(TableOf(t)) \cup {-1}
        /\ \A v \in present[t] : v <= latest[t]
    BY <1>0, <1>2 DEF Sound, Knows
  <2>6. latest[t] = -1 => present[t] = {}
    BY <1>0, <2>5
  <2>7. Answered1(t)'
    BY <1>1, <1>2, <2>3, <2>4, <2>5, <2>6 DEF Answered1
  <2> QED BY <2>2, <2>3, <2>7 DEF Sound, Sorted, Knows, Covers
<1>3. CASE req[t].api # "update"
  <2>1. pc' = [pc EXCEPT ![t] = "hint"] /\ UNCHANGED <<latest, cursor, found, answer, reply>>
    BY <1>3 DEF UpdatesDone, Goto, outcome
  <2>2. \A s \in Task \ {t} : Same(s)
    BY <1>0, <1>1, <2>1 DEF TypeOK, Same
  <2>3. pc'[t] = "hint"
    BY <1>0, <2>1 DEF TypeOK
  <2> QED BY <1>0, <1>1, <2>1, <2>2, <2>3 DEF Sound, Sorted, Knows, Covers, Answered1
<1> QED BY <1>2, <1>3

LEMMA StepSound ==
  ASSUME AnswersInv, Version \subseteq Nat, [Next]_vars, NEW t \in Task, Step(t) \/ Abandon(t)
  PROVE  Sound(t)' /\ \A s \in Task \ {t} : Same(s)
<1>0. LogInv
  BY DEF AnswersInv
<1>1. CASE RejectAdd(t)
  <2>1. Return(t, "conflict", NoVersion) /\ UNCHANGED <<req, at, rows, present>>
    BY <1>1 DEF RejectAdd
  <2> QED BY <1>0, <2>1, EndSound, ReturnSame
<1>2. CASE Abandon(t)
  <2>1. Return(t, "unknown", NoVersion) /\ UNCHANGED <<req, at, rows, present>>
    BY <1>2 DEF Abandon
  <2> QED BY <1>0, <2>1, EndSound, ReturnSame
<1> QED BY <1>1, <1>2, ReadHintSound, ListBeyondSound, KeepHintSound, ListRangeSound, SendSound,
           MarkNothingSound, AppendedSound, UpdatesDoneSound DEF Step

-----------------------------------------------------------------------------
(* The object store, the network and restarts                              *)

\* The conditional PUT of a handler that waits for it has created its object.
LEMMA LandAddSound ==
  ASSUME AnswersInv, [Next]_vars, NEW m \in inflight, LandAdd(m), Waiting(m)
  PROVE  Sound(m.task)' /\ \A s \in Task \ {m.task} : Same(s)
<1> DEFINE t == m.task
<1>0. /\ TypeOK /\ LogInv /\ t \in Task /\ pc[t] = "sent" /\ Sound(t) /\ answer[t] # "ok"
      /\ TableOf(t) \in Table
  BY InFlight DEF AnswersInv, Waiting, Sound, Answered1
<1>1. /\ pc' = [pc EXCEPT ![t] = "created"]
      /\ UNCHANGED <<req, at, latest, cursor, found, rows, answer, reply, present>>
  BY DEF LandAdd, Goto, locals, outcome
<1> HIDE DEF t
<1>2. \A s \in Task \ {t} : Same(s)
  BY <1>0, <1>1 DEF TypeOK, Same
<1>3. pc'[t] = "created" /\ Current(t)' = Current(t) /\ TableOf(t)' = TableOf(t)
  BY <1>0, <1>1 DEF TypeOK, Current, TableOf
<1>4. Versions(TableOf(t)) \subseteq Versions(TableOf(t))'
  <2>1. PICK b \in Table : b = TableOf(t)
    BY <1>0
  <2>2. Versions(b) \subseteq DOMAIN log'[b]
    BY <1>0, Grows DEF Versions
  <2> QED BY <1>3, <2>1, <2>2 DEF Versions
<1>5. Knows(t)'
  BY <1>0, <1>1, <1>3, <1>4 DEF Sound, Knows
<1>6. Sound(t)'
  BY <1>0, <1>1, <1>3, <1>5 DEF Sound, Sorted, Covers, Answered1
<1> QED BY <1>2, <1>6 DEF t

LEMMA LandSound ==
  ASSUME AnswersInv, [Next]_vars, NEW m \in inflight, Land(m) \/ LandAddUnheard(m)
  PROVE  \A s \in Task : Sound(s)'
<1>0. m.task \in Task /\ LogInv /\ \A s \in Task : Sound(s)
  BY InFlight DEF AnswersInv
<1>1. ASSUME LandAddUnheard(m) \/ ~Waiting(m) PROVE \A s \in Task : Same(s)
  <2>1. UNCHANGED <<pc, req, at, latest, cursor, found, rows, answer, reply, present>>
    BY <1>1
       DEF Land, LandAdd, LandAddUnheard, Refuse, LandMark, LandMeta, Acknowledge, locals, outcome
  <2> QED BY <2>1 DEF Same
<1>2. CASE LandAddUnheard(m) \/ ~Waiting(m)
  BY <1>0, <1>1, <1>2, SameSound
<1>3. CASE Waiting(m) /\ LandAdd(m)
  BY <1>0, <1>3, LandAddSound, OneSound
<1>4. CASE Waiting(m) /\ Refuse(m)
  <2>1. Return(m.task, "conflict", NoVersion) /\ UNCHANGED <<req, at, rows, present>>
    BY <1>4 DEF Refuse, EndInConflict
  <2> QED BY <1>0, <2>1, EndSound, ReturnSame, OneSound
<1>5. CASE Waiting(m) /\ (LandMark(m) \/ LandMeta(m))
  <2>1. NextUpdate(m.task) /\ pc[m.task] = "sent"
        /\ UNCHANGED <<req, latest, cursor, found, rows, answer, reply, present>>
    BY <1>5 DEF LandMark, LandMeta, Acknowledge, Waiting, outcome
  <2> QED BY <1>0, <2>1, NextUpdateSound, OneSound
<1> QED BY <1>2, <1>3, <1>4, <1>5 DEF Land

LEMMA RestartSound ==
  ASSUME AnswersInv, [Next]_vars, NEW r \in Replica, Restart(r)
  PROVE  \A s \in Task : Sound(s)'
<1> SUFFICES ASSUME NEW s \in Task PROVE Sound(s)'
  OBVIOUS
<1>0. LogInv /\ Sound(s)
  BY DEF AnswersInv
<1>1. CASE Home[s] = r /\ pc[s] \in Running
  <2>1. pc'[s] = "done" /\ answer'[s] = "unknown" /\ found'[s] = {}
    BY <1>1 DEF Restart
  <2> QED BY <2>1 DEF Sound, Sorted, Knows, Covers, Answered1
<1>2. CASE ~(Home[s] = r /\ pc[s] \in Running)
  <2>1. Same(s)
    BY <1>2 DEF Restart, Same
  <2> QED BY <1>0, <2>1, SameSound
<1> QED BY <1>1, <1>2

-----------------------------------------------------------------------------
(* What is on its way and what has been accepted                           *)

\* A write that was not on its way is the one a handler sends for the update it is at.
LEMMA NewWrite ==
  ASSUME LogInv, [Next]_vars, NEW m \in inflight', m \notin inflight
  PROVE  \E t \in Task : /\ SendAdd(t) \/ SendMark(t) \/ SendMeta(t)
                         /\ m.task = t /\ m.step = at[t]
<1>1. ASSUME NEW t \in Task, NEW body, Send(t, body) PROVE m.task = t /\ m.step = at[t]
  BY <1>1 DEF Send
<1>2. ASSUME NEW t \in Task, NEW q \in Workload, Call(t, q) PROVE FALSE
  BY <1>2 DEF Call, bucket
<1>3. ASSUME NEW t \in Task, Step(t), ~(SendAdd(t) \/ SendMark(t) \/ SendMeta(t)) PROVE FALSE
  BY <1>3
     DEF Step, ReadHint, ListBeyond, KeepHint, ListRange, RejectAdd, MarkNothing, Appended,
         UpdatesDone, bucket
<1>4. ASSUME NEW t \in Task, Abandon(t) PROVE FALSE
  BY <1>4 DEF Abandon, bucket
<1>5. ASSUME NEW r \in Replica, Restart(r) PROVE FALSE
  BY <1>5 DEF Restart, bucket
<1>6. ASSUME NEW n \in inflight, Land(n) \/ LandAddUnheard(n) PROVE FALSE
  BY <1>6
     DEF Land, LandAdd, LandAddUnheard, Refuse, LandMark, LandMeta, Acknowledge, Answered
<1>7. CASE UNCHANGED vars
  BY <1>7 DEF vars, bucket
<1>8. ASSUME NEW t \in Task, SendAdd(t) \/ SendMark(t) \/ SendMeta(t)
      PROVE  m.task = t /\ m.step = at[t]
  BY <1>1, <1>8 DEF SendAdd, SendMark, SendMeta
<1> QED BY <1>2, <1>3, <1>4, <1>5, <1>6, <1>7, <1>8 DEF Next

LEMMA SentStaysAbove ==
  ASSUME AnswersInv, Version \subseteq Nat, [Next]_vars
  PROVE  SentAboveKnown'
<1> SUFFICES ASSUME NEW m \in inflight', UpdateOf(m)'.op = "add", req'[m.task].api = "update",
                    NEW v \in present'[m.task]
             PROVE  v < UpdateOf(m)'.version
  BY DEF SentAboveKnown
<1>0. LogInv /\ \A s \in Task : Sound(s)
  BY DEF AnswersInv
<1>1. CASE m \in inflight
  <2>1. m.task \in Task /\ pc[m.task] # "idle"
    BY <1>0, <1>1, InFlight
  <2>2. req'[m.task] = req[m.task] /\ present'[m.task] = present[m.task]
    BY <1>0, <2>1, RequestStays
  <2>3. UpdateOf(m)' = UpdateOf(m)
    BY <2>2 DEF UpdateOf
  <2> QED BY <1>1, <2>2, <2>3 DEF AnswersInv, SentAboveKnown
<1>2. CASE m \notin inflight
  <2>1. PICK t \in Task : /\ SendAdd(t) \/ SendMark(t) \/ SendMeta(t)
                          /\ m.task = t /\ m.step = at[t]
    BY <1>0, <1>2, NewWrite
  <2>2. pc[t] = "updates" /\ UNCHANGED <<req, present>>
    BY <2>1 DEF SendAdd, SendMark, SendMeta, Send, AtUpdate, locals
  <2>3. UpdateOf(m)' = Current(t) /\ req[t].api = "update" /\ v \in present[t]
    BY <2>1, <2>2 DEF UpdateOf, Current
  <2>4. SendAdd(t)
    BY <2>1, <2>3 DEF SendMark, SendMeta, AtUpdate
  <2>5. PICK n \in Nat : n = Current(t).version
    BY <1>0, <2>4, AtUpdateType DEF SendAdd
  <2>6. ~(n <= latest[t])
    BY <2>3, <2>4, <2>5 DEF SendAdd, TooOld
  <2>7. /\ latest[t] \in Versions(TableOf(t)) \cup {-1} /\ v <= latest[t]
    BY <1>0, <2>2, <2>3 DEF Sound, Knows
  <2>8. Versions(TableOf(t)) \subseteq Nat /\ v \in Nat
    BY <1>0, <2>2, <2>3, UnderWay, Typed
  <2>9. latest[t] \in Int
    BY <2>7, <2>8
  <2> QED BY <2>3, <2>5, <2>6, <2>7, <2>8, <2>9
<1> QED BY <1>1, <1>2

LEMMA AcceptedStaysAbove ==
  ASSUME AnswersInv, [Next]_vars
  PROVE  AcceptedAboveKnown'
<1> SUFFICES ASSUME NEW b \in Table, NEW v \in Versions(b)', req'[log'[b][v].by].api = "update",
                    NEW u \in present'[log'[b][v].by]
             PROVE  u < v
  BY DEF AcceptedAboveKnown
<1>0. LogInv /\ TypeOK
  BY DEF AnswersInv, LogInv
<1>1. CASE v \in Versions(b)
  <2>1. log[b][v] \in Body /\ pc[log[b][v].by] # "idle"
    BY <1>0, <1>1 DEF LogInv, RequestsKnown, TypeOK, Versions
  <2>2. log'[b][v] \in {log[b][v], [log[b][v] EXCEPT !.flag = TRUE]}
    BY <1>0, <1>1, StepWritesOnce
  <2>3. log'[b][v].by = log[b][v].by /\ log[b][v].by \in Task
    BY <2>1, <2>2 DEF Body
  <2>4. req'[log[b][v].by] = req[log[b][v].by] /\ present'[log[b][v].by] = present[log[b][v].by]
    BY <1>0, <2>1, <2>3, RequestStays
  <2> QED BY <1>1, <2>3, <2>4 DEF AnswersInv, AcceptedAboveKnown
<1>2. CASE v \notin Versions(b)
  <2>1. log' # log
    BY <1>2 DEF Versions
  <2>2. PICK m \in inflight : LandAdd(m) \/ LandAddUnheard(m) \/ LandMark(m)
    BY <2>1, LogChanges
  <2>3. /\ UpdateOf(m).op \in {"add", "mark"} /\ Write(m)
        /\ UpdateOf(m).op = "add" => KeyIsFree(m)
    BY <2>2 DEF LandAdd, LandAddUnheard, LandMark
  <2>4. /\ b = TableOf(m.task) /\ v = UpdateOf(m).version /\ log'[b][v] = m.body
    BY <1>0, <1>2, <2>3, WriteIs
  <2>5. UpdateOf(m).op = "add" /\ m.body = [by |-> m.task, step |-> m.step, flag |-> FALSE]
    BY <1>0, <1>2, <2>3, <2>4, InFlight
  <2>6. m.task \in Task /\ pc[m.task] # "idle"
    BY <1>0, InFlight
  <2>7. req'[m.task] = req[m.task] /\ present'[m.task] = present[m.task]
    BY <1>0, <2>6, RequestStays
  <2>8. log'[b][v].by = m.task
    BY <2>4, <2>5
  <2> QED BY <2>4, <2>5, <2>6, <2>7, <2>8 DEF AnswersInv, SentAboveKnown
<1> QED BY <1>1, <1>2

-----------------------------------------------------------------------------
(* The invariant                                                           *)

LEMMA InitAnswers == Init => AnswersInv
<1> SUFFICES ASSUME Init PROVE AnswersInv
  OBVIOUS
<1>1. LogInv
  BY InitLogInv
<1>2. \A t \in Task : Sound(t)
  BY DEF Init, Sound, Sorted, Knows, Covers, Answered1
<1>3. SentAboveKnown /\ AcceptedAboveKnown
  BY DEF Init, SentAboveKnown, AcceptedAboveKnown, Versions
<1> QED BY <1>1, <1>2, <1>3 DEF AnswersInv

LEMMA NextAnswers ==
  ASSUME AnswersInv, Version \subseteq Nat, [Next]_vars
  PROVE  AnswersInv'
<1>0. LogInv /\ \A t \in Task : Sound(t)
  BY DEF AnswersInv
<1>1. ASSUME NEW t \in Task, NEW q \in Workload, Call(t, q) PROVE \A s \in Task : Sound(s)'
  BY <1>1, CallSound, OneSound
<1>2. ASSUME NEW t \in Task, Step(t) \/ Abandon(t) PROVE \A s \in Task : Sound(s)'
  BY <1>2, StepSound, OneSound
<1>3. ASSUME NEW r \in Replica, Restart(r) PROVE \A s \in Task : Sound(s)'
  BY <1>3, RestartSound
<1>4. ASSUME NEW m \in inflight, Land(m) \/ LandAddUnheard(m) PROVE \A s \in Task : Sound(s)'
  BY <1>4, LandSound
<1>5. ASSUME UNCHANGED vars PROVE \A s \in Task : Sound(s)'
  <2>1. \A s \in Task : Same(s)
    BY <1>5 DEF vars, locals, outcome, Same
  <2> QED BY <1>0, <2>1, SameSound
<1>6. \A s \in Task : Sound(s)'
  BY <1>1, <1>2, <1>3, <1>4, <1>5 DEF Next
<1>7. LogInv'
  BY <1>0, NextLogInv
<1> QED BY <1>6, <1>7, SentStaysAbove, AcceptedStaysAbove DEF AnswersInv

-----------------------------------------------------------------------------
(* The theorems                                                            *)

\* However stale a process's hint is and whatever lands between the pages of a
\* listing, the version in a response is one of the table's and no lower than any
\* that was there when the request came in, and so is what update_table accepts on
\* the strength of it.  (DeltaLog::latest_version, update_table)
THEOREM AnswersAreFresh ==
  ASSUME Version \subseteq Nat
  PROVE  Spec => []FreshAnswers
<1>1. AnswersInv /\ [Next]_vars => AnswersInv'
  BY NextAnswers
<1>2. AnswersInv => FreshAnswers
  BY DEF AnswersInv, FreshAnswers, LatestIsHighest, Sound, Answered1
<1> QED BY <1>1, <1>2, InitAnswers, PTL DEF Spec

\* A range of commits that is listed page by page misses none that was there when
\* the request came in, however others append meanwhile.  (DeltaLog::versions,
\* list_for_table, get_commits)
THEOREM RangesAreComplete ==
  ASSUME Version \subseteq Nat
  PROVE  Spec => []RangesComplete
<1>1. AnswersInv /\ [Next]_vars => AnswersInv'
  BY NextAnswers
<1>2. AnswersInv => RangesComplete
  BY DEF AnswersInv, RangesComplete, Sound, Answered1
<1> QED BY <1>1, <1>2, InitAnswers, PTL DEF Spec

-----------------------------------------------------------------------------
(* The course of a request                                                 *)

\* Where a handler can be, with which request and at which of its updates.
Stage(t) ==
  /\ pc[t] = "idle" => req[t] = NoRequest /\ at[t] = 1
  /\ pc[t] = "done" <=> answer[t] # "none"
  /\ pc[t] = "range" => req[t].api = "get"
  /\ pc[t] \in {"updates", "sent", "created"} => req[t].api \in {"update", "commit"}
  /\ pc[t] \in {"hint", "beyond", "keep", "range"} =>
       IF req[t].api = "update" THEN at[t] = 1 ELSE at[t] > Len(req[t].updates)
  /\ answer[t] = "ok" => at[t] > Len(req[t].updates)
  /\ answer[t] = "requirement" => at[t] = 1
  /\ answer[t] = "conflict" => at[t] \in DOMAIN req[t].updates /\ Current(t).op = "add"

\* A write in flight is for the update that its request is at, or was at when it
\* was given up.
SentAt(m) ==
  /\ m.step = at[m.task]
  /\ pc[m.task] = "sent" \/ answer[m.task] = "unknown"

\* The commits that a request has marked and that were there when it came in.
Marked(t) ==
  pc[t] # "idle" =>
    \A i \in DOMAIN req[t].updates :
      LET u == req[t].updates[i]
      IN  i < at[t] /\ u.op = "mark" /\ u.version \in present[t] => log[TableOf(t)][u.version].flag

StageInv ==
  /\ LogInv
  /\ \A t \in Task : Stage(t) /\ Marked(t)
  /\ \A m \in inflight : SentAt(m) /\ \A n \in inflight : n.task = m.task => n = m

\* How one step moves one request, whoever takes it.
Stays(t) ==
  /\ pc'[t] = pc[t] /\ at'[t] = at[t] /\ answer'[t] = answer[t]
  /\ req'[t] = req[t] /\ present'[t] = present[t]

Goes(t, from, to, how) ==
  /\ pc[t] \in from /\ pc'[t] = to /\ answer'[t] = how
  /\ req'[t] = req[t] /\ present'[t] = present[t]

Begins(t, q) ==
  /\ Call(t, q) /\ pc[t] = "idle" /\ pc'[t] = FirstStep(q)
  /\ at'[t] = at[t] /\ answer'[t] = answer[t]
  /\ req'[t] = q /\ present'[t] = Versions(q.table)

AnswerTo(t, m) == m.task = t /\ Waiting(m)

Course(t) ==
  \/ Stays(t)
  \/ \E q \in Workload : Begins(t, q)
  \/ /\ at'[t] = at[t]
     /\ \/ Goes(t, {"hint"}, "beyond", answer[t])
        \/ Goes(t, {"beyond"}, "keep", answer[t])
        \/ Goes(t, {"range"}, "hint", answer[t])
        \/ Goes(t, {"keep"}, "updates", answer[t]) /\ req[t].api = "update"
        \/ Goes(t, {"keep"}, "done", "requirement") /\ req[t].api = "update"
        \/ Goes(t, {"keep"}, "done", "ok") /\ req[t].api # "update"
        \/ Goes(t, {"updates"}, "done", "conflict") /\ RejectAdd(t)
        \/ Goes(t, {"updates"}, "sent", answer[t]) /\ (SendAdd(t) \/ SendMark(t) \/ SendMeta(t))
        \/ /\ Goes(t, {"updates"}, "done", "ok")
           /\ req[t].api = "update" /\ at[t] > Len(req[t].updates)
        \/ /\ Goes(t, {"updates"}, "hint", answer[t])
           /\ req[t].api # "update" /\ at[t] > Len(req[t].updates)
        \/ Goes(t, Running, "done", "unknown")
        \/ Goes(t, {"sent"}, "created", answer[t]) /\ \E m \in inflight : AnswerTo(t, m) /\ LandAdd(m)
        \/ Goes(t, {"sent"}, "done", "conflict") /\ \E m \in inflight : AnswerTo(t, m) /\ Refuse(m)
  \/ /\ at'[t] = at[t] + 1
     /\ \/ Goes(t, {"updates"}, "updates", answer[t]) /\ MarkNothing(t)
        \/ Goes(t, {"created"}, "updates", answer[t]) /\ Appended(t)
        \/ /\ Goes(t, {"sent"}, "updates", answer[t])
           /\ \E m \in inflight : AnswerTo(t, m) /\ (LandMark(m) \/ LandMeta(m))

\* A handler that reads or lists.
LEMMA ReadsCourse ==
  ASSUME LogInv, NEW t \in Task, ReadHint(t) \/ ListBeyond(t) \/ KeepHint(t) \/ ListRange(t)
  PROVE  Course(t) /\ \A s \in Task \ {t} : Stays(s)
<1>0. TypeOK
  BY DEF LogInv
<1>1. UNCHANGED <<req, at, present>>
  BY DEF ReadHint, ListBeyond, KeepHint, ListRange, locals
<1>2. CASE ReadHint(t)
  <2>1. pc[t] = "hint" /\ pc' = [pc EXCEPT ![t] = "beyond"] /\ answer' = answer
    BY <1>2 DEF ReadHint, Goto, outcome
  <2> QED BY <1>0, <1>1, <2>1 DEF Course, Goes, Stays, TypeOK
<1>3. CASE ListBeyond(t)
  <2>1. pc[t] = "beyond" /\ (pc' = pc \/ pc' = [pc EXCEPT ![t] = "keep"]) /\ answer' = answer
    BY <1>3 DEF ListBeyond, ListOn, Goto, outcome
  <2> QED BY <1>0, <1>1, <2>1 DEF Course, Goes, Stays, TypeOK
<1>4. CASE ListRange(t)
  <2>1. pc[t] = "range" /\ (pc' = pc \/ pc' = [pc EXCEPT ![t] = "hint"]) /\ answer' = answer
    BY <1>4 DEF ListRange, ListOn, Goto, outcome
  <2> QED BY <1>0, <1>1, <2>1 DEF Course, Goes, Stays, TypeOK
<1>5. CASE KeepHint(t)
  <2>1. /\ pc[t] = "keep"
        /\ \/ /\ req[t].api = "update" /\ pc' = [pc EXCEPT ![t] = "updates"] /\ answer' = answer
           \/ /\ req[t].api = "update" /\ pc' = [pc EXCEPT ![t] = "done"]
              /\ answer' = [answer EXCEPT ![t] = "requirement"]
           \/ /\ req[t].api # "update" /\ pc' = [pc EXCEPT ![t] = "done"]
              /\ answer' = [answer EXCEPT ![t] = "ok"]
    BY <1>5 DEF KeepHint, Return, Goto, outcome
  <2> QED BY <1>0, <1>1, <2>1 DEF Course, Goes, Stays, TypeOK
<1> QED BY <1>2, <1>3, <1>4, <1>5

\* A handler that works on its updates.
LEMMA UpdatesCourse ==
  ASSUME LogInv, NEW t \in Task,
         \/ RejectAdd(t) \/ SendAdd(t) \/ SendMark(t) \/ SendMeta(t)
         \/ MarkNothing(t) \/ Appended(t) \/ UpdatesDone(t)
  PROVE  Course(t) /\ \A s \in Task \ {t} : Stays(s)
<1>0. TypeOK
  BY DEF LogInv
<1>1. UNCHANGED <<req, present>>
  BY DEF RejectAdd, SendAdd, SendMark, SendMeta, Send, MarkNothing, Appended, UpdatesDone, locals
<1>2. CASE RejectAdd(t)
  <2>1. /\ pc[t] = "updates" /\ pc' = [pc EXCEPT ![t] = "done"] /\ at' = at
        /\ answer' = [answer EXCEPT ![t] = "conflict"]
    BY <1>2 DEF RejectAdd, AtUpdate, Return, Goto
  <2> QED BY <1>0, <1>1, <1>2, <2>1 DEF Course, Goes, Stays, TypeOK
<1>3. CASE SendAdd(t) \/ SendMark(t) \/ SendMeta(t)
  <2>1. pc[t] = "updates" /\ pc' = [pc EXCEPT ![t] = "sent"] /\ at' = at /\ answer' = answer
    BY <1>3 DEF SendAdd, SendMark, SendMeta, Send, AtUpdate, Goto, locals, outcome
  <2> QED BY <1>0, <1>1, <1>3, <2>1 DEF Course, Goes, Stays, TypeOK
<1>4. CASE MarkNothing(t) \/ Appended(t)
  <2>1. /\ \/ pc[t] = "updates" /\ MarkNothing(t)
           \/ pc[t] = "created" /\ Appended(t)
        /\ pc' = [pc EXCEPT ![t] = "updates"] /\ at' = [at EXCEPT ![t] = @ + 1] /\ answer' = answer
    BY <1>4 DEF MarkNothing, Appended, AtUpdate, NextUpdate, Goto, outcome
  <2> QED BY <1>0, <1>1, <2>1 DEF Course, Goes, Stays, TypeOK
<1>5. CASE UpdatesDone(t)
  <2>1. /\ pc[t] = "updates" /\ at' = at /\ at[t] > Len(req[t].updates)
        /\ \/ /\ req[t].api = "update" /\ pc' = [pc EXCEPT ![t] = "done"]
              /\ answer' = [answer EXCEPT ![t] = "ok"]
           \/ req[t].api # "update" /\ pc' = [pc EXCEPT ![t] = "hint"] /\ answer' = answer
    BY <1>5 DEF UpdatesDone, Return, Goto, outcome
  <2> QED BY <1>0, <1>1, <2>1 DEF Course, Goes, Stays, TypeOK
<1> QED BY <1>2, <1>3, <1>4, <1>5

\* A write that lands, with its handler waiting or not.
LEMMA LandCourse ==
  ASSUME LogInv, NEW m \in inflight, Land(m) \/ LandAddUnheard(m)
  PROVE  \A s \in Task : Course(s)
<1>0. TypeOK /\ m.task \in Task
  BY InFlight
<1>1. CASE LandAddUnheard(m) \/ ~Waiting(m)
  <2>1. UNCHANGED <<pc, req, at, answer, present>>
    BY <1>1
       DEF Land, LandAdd, LandAddUnheard, Refuse, LandMark, LandMeta, Acknowledge, locals, outcome
  <2> QED BY <2>1 DEF Course, Stays
<1>2. CASE Land(m) /\ Waiting(m)
  <2> DEFINE t == m.task
  <2>1. /\ pc[t] = "sent" /\ UNCHANGED <<req, present>> /\ t \in Task
        /\ \/ /\ LandAdd(m) /\ pc' = [pc EXCEPT ![t] = "created"] /\ at' = at /\ answer' = answer
           \/ /\ Refuse(m) /\ pc' = [pc EXCEPT ![t] = "done"] /\ at' = at
              /\ answer' = [answer EXCEPT ![t] = "conflict"]
           \/ /\ LandMark(m) \/ LandMeta(m)
              /\ pc' = [pc EXCEPT ![t] = "updates"] /\ at' = [at EXCEPT ![t] = @ + 1]
              /\ answer' = answer
    BY <1>0, <1>2
       DEF Land, LandAdd, Refuse, EndInConflict, LandMark, LandMeta, Acknowledge, NextUpdate,
           Return, Goto, Waiting, locals, outcome
  <2>2. AnswerTo(t, m)
    BY <1>2 DEF AnswerTo
  <2> HIDE DEF t
  <2>3. \A s \in Task \ {t} : Stays(s)
    BY <1>0, <2>1 DEF Stays, TypeOK
  <2>4. Course(t)
    BY <1>0, <2>1, <2>2 DEF Course, Goes, TypeOK
  <2> QED BY <2>3, <2>4 DEF Course
<1> QED BY <1>1, <1>2

LEMMA EveryCourse ==
  ASSUME LogInv, [Next]_vars
  PROVE  \A s \in Task : Course(s)
<1>0. TypeOK
  BY DEF LogInv
<1>1. ASSUME NEW t \in Task, NEW q \in Workload, Call(t, q) PROVE \A s \in Task : Course(s)
  <2>1. \A s \in Task \ {t} : Stays(s)
    BY <1>0, <1>1 DEF Call, Goto, Stays, TypeOK, outcome
  <2>2. Begins(t, q)
    BY <1>0, <1>1 DEF Call, Goto, Begins, TypeOK, outcome
  <2> QED BY <2>1, <2>2 DEF Course
<1>2. ASSUME NEW t \in Task, Step(t) PROVE \A s \in Task : Course(s)
  <2>1. Course(t) /\ \A s \in Task \ {t} : Stays(s)
    BY <1>2, ReadsCourse, UpdatesCourse DEF Step
  <2> QED BY <2>1 DEF Course
<1>3. ASSUME NEW t \in Task, Abandon(t) PROVE \A s \in Task : Course(s)
  <2>1. /\ pc[t] \in Running /\ pc' = [pc EXCEPT ![t] = "done"]
        /\ answer' = [answer EXCEPT ![t] = "unknown"] /\ UNCHANGED <<req, at, present>>
    BY <1>3 DEF Abandon, Return, Goto
  <2>2. Goes(t, Running, "done", "unknown") /\ at'[t] = at[t]
    BY <1>0, <2>1 DEF Goes, TypeOK
  <2>3. \A s \in Task \ {t} : Stays(s)
    BY <1>0, <2>1 DEF Stays, TypeOK
  <2> QED BY <2>2, <2>3 DEF Course
<1>4. ASSUME NEW r \in Replica, Restart(r) PROVE \A s \in Task : Course(s)
  <2>1. \A s \in Task : Stays(s) \/ (at'[s] = at[s] /\ Goes(s, Running, "done", "unknown"))
    BY <1>0, <1>4 DEF Restart, Stays, Goes, TypeOK
  <2> QED BY <2>1 DEF Course
<1>5. ASSUME NEW m \in inflight, Land(m) \/ LandAddUnheard(m) PROVE \A s \in Task : Course(s)
  BY <1>5, LandCourse
<1>6. CASE UNCHANGED vars
  BY <1>6 DEF vars, locals, outcome, Course, Stays
<1> QED BY <1>1, <1>2, <1>3, <1>4, <1>5, <1>6 DEF Next

LEMMA NextStage ==
  ASSUME LogInv, [Next]_vars, NEW t \in Task, Stage(t)
  PROVE  Stage(t)'
<1>0. TypeOK /\ at[t] \in Nat \ {0} /\ Course(t)
  BY EveryCourse DEF LogInv, TypeOK
<1>1. CASE Stays(t)
  BY <1>1 DEF Stays, Stage, Current
<1>2. ASSUME NEW q \in Workload, Begins(t, q) PROVE Stage(t)'
  <2>1. /\ q.api \in {"update", "commit", "load", "get"}
        /\ q.api \in {"load", "get"} => Len(q.updates) = 0
    <3>1. q.api \in {"load", "get"} => q.updates = <<>>
      BY DeltaAssumption
    <3> QED BY <3>1, RequestType
  <2>2. pc[t] = "idle" /\ at'[t] = 1 /\ answer'[t] = "none" /\ req'[t] = q
    BY <1>2 DEF Begins, Stage, LogInv, ListingsInLog
  <2>3. pc'[t] = FirstStep(q)
    BY <1>2 DEF Begins
  <2> QED BY <2>1, <2>2, <2>3 DEF FirstStep, Stage
<1>3. ASSUME at'[t] = at[t], NEW from, NEW to \in {"beyond", "keep", "hint"},
             Goes(t, from, to, answer[t]),
             \/ from \in {{"hint"}, {"beyond"}, {"range"}}
             \/ from = {"updates"} /\ req[t].api # "update" /\ at[t] > Len(req[t].updates)
      PROVE  Stage(t)'
  <2>1. pc[t] \in {"hint", "beyond", "range", "updates"} /\ answer[t] = "none"
    BY <1>3 DEF Goes, Stage
  <2> QED BY <1>3, <2>1 DEF Goes, Stage
<1>4. ASSUME Goes(t, {"keep"}, "updates", answer[t]), req[t].api = "update" PROVE Stage(t)'
  BY <1>4 DEF Goes, Stage
<1>5. ASSUME at'[t] = at[t], Goes(t, {"keep"}, "done", "requirement"), req[t].api = "update"
      PROVE  Stage(t)'
  BY <1>5 DEF Goes, Stage
<1>6. ASSUME at'[t] = at[t], Goes(t, {"keep"}, "done", "ok"), req[t].api # "update" PROVE Stage(t)'
  BY <1>6 DEF Goes, Stage
<1>7. ASSUME at'[t] = at[t], Goes(t, {"updates"}, "done", "conflict"), RejectAdd(t) PROVE Stage(t)'
  <2>1. at[t] \in DOMAIN req[t].updates /\ Current(t).op = "add"
    BY <1>7, AtUpdateType DEF RejectAdd
  <2> QED BY <1>7, <2>1 DEF Goes, Stage, Current
<1>8. ASSUME NEW from \in {{"updates"}, {"sent"}, {"created"}}, NEW to \in {"updates", "sent", "created"},
             Goes(t, from, to, answer[t])
      PROVE  Stage(t)'
  <2>1. req[t].api \in {"update", "commit"} /\ answer[t] = "none" /\ answer'[t] = "none"
        /\ req'[t] = req[t] /\ pc'[t] \in {"updates", "sent", "created"}
    BY <1>8 DEF Goes, Stage
  <2> QED BY <2>1 DEF Stage
<1>9. ASSUME at'[t] = at[t], Goes(t, {"updates"}, "done", "ok"), at[t] > Len(req[t].updates)
      PROVE  Stage(t)'
  BY <1>9 DEF Goes, Stage
<1>10. ASSUME Goes(t, Running, "done", "unknown") PROVE Stage(t)'
  BY <1>10 DEF Goes, Stage
<1>11. ASSUME at'[t] = at[t], Goes(t, {"sent"}, "done", "conflict"),
              NEW m \in inflight, AnswerTo(t, m), Refuse(m)
       PROVE  Stage(t)'
  <2>1. at[t] \in DOMAIN req[t].updates /\ Current(t) = UpdateOf(m) /\ UpdateOf(m).op = "add"
    BY <1>11 DEF AnswerTo, Waiting, Refuse, UpdateOf, Current, LogInv, RequestsKnown
  <2> QED BY <1>11, <2>1 DEF Goes, Stage, Current
<1> QED BY <1>0, <1>1, <1>2, <1>3, <1>4, <1>5, <1>6, <1>7, <1>8, <1>9, <1>10, <1>11 DEF Course

\* A write in flight stays where its request is until it is answered.
LEMMA NextSentAt ==
  ASSUME StageInv, [Next]_vars
  PROVE  \A m \in inflight' : SentAt(m)' /\ \A n \in inflight' : n.task = m.task => n = m
<1>0. LogInv /\ TypeOK
  BY DEF StageInv, LogInv
<1>1. ASSUME NEW t \in Task, SendAdd(t) \/ SendMark(t) \/ SendMeta(t)
      PROVE  /\ \E m : m.task = t /\ m.step = at[t] /\ inflight' = inflight \cup {m}
             /\ pc[t] = "updates" /\ pc' = [pc EXCEPT ![t] = "sent"] /\ at' = at /\ answer' = answer
  <2>1. PICK body : Send(t, body)
    BY <1>1 DEF SendAdd, SendMark, SendMeta
  <2>2. PICK m : m = [task |-> t, step |-> at[t], body |-> body]
    OBVIOUS
  <2>3. m.task = t /\ m.step = at[t] /\ inflight' = inflight \cup {m}
    BY <2>1, <2>2 DEF Send
  <2> QED BY <1>1, <2>1, <2>3 DEF SendAdd, SendMark, SendMeta, AtUpdate, Send, Goto, locals, outcome
<1>2. ASSUME NEW t \in Task, SendAdd(t) \/ SendMark(t) \/ SendMeta(t)
      PROVE  \A m \in inflight' : SentAt(m)' /\ \A n \in inflight' : n.task = m.task => n = m
  <2>1. PICK w : w.task = t /\ w.step = at[t] /\ inflight' = inflight \cup {w}
    BY <1>1, <1>2
  <2>2. pc[t] = "updates" /\ pc' = [pc EXCEPT ![t] = "sent"] /\ at' = at /\ answer' = answer
    BY <1>1, <1>2
  <2>3. answer[t] = "none"
    BY <2>2 DEF StageInv, Stage
  <2>4. \A m \in inflight : m.task \in Task /\ m.task # t
    BY <1>0, <2>2, <2>3, InFlight DEF StageInv, SentAt
  <2> QED BY <1>0, <2>1, <2>2, <2>4 DEF StageInv, SentAt, TypeOK
<1>3. ASSUME inflight' \subseteq inflight, NEW m \in inflight' PROVE SentAt(m)'
  <2>1. m \in inflight /\ m.task \in Task /\ SentAt(m) /\ Stage(m.task) /\ Course(m.task)
    BY <1>0, <1>3, InFlight, EveryCourse DEF StageInv
  <2>2. PICK t \in Task : t = m.task
    BY <2>1
  <2>3. pc[t] \in {"sent", "done"} /\ (pc[t] = "sent" \/ answer[t] = "unknown")
    BY <2>1, <2>2 DEF SentAt, Stage
  <2>4. ASSUME NEW n \in inflight, AnswerTo(t, n), LandAdd(n) \/ Refuse(n) \/ LandMark(n) \/ LandMeta(n)
        PROVE  FALSE
    <3>1. n = m
      BY <2>1, <2>2, <2>4 DEF AnswerTo, StageInv
    <3>2. inflight' = inflight \ {n}
      BY <2>4 DEF LandAdd, Refuse, LandMark, LandMeta, Acknowledge, Answered
    <3> QED BY <1>3, <3>1, <3>2
  <2>5. Stays(t) \/ (at'[t] = at[t] /\ Goes(t, Running, "done", "unknown"))
    BY <2>1, <2>2, <2>3, <2>4 DEF Course, Goes, Begins
  <2> QED BY <2>1, <2>2, <2>3, <2>5 DEF SentAt, Stays, Goes
<1>4. CASE inflight' \subseteq inflight
  BY <1>3, <1>4 DEF StageInv
<1>5. CASE ~(inflight' \subseteq inflight)
  <2>1. PICK m \in inflight' : m \notin inflight
    BY <1>5
  <2>2. PICK t \in Task : SendAdd(t) \/ SendMark(t) \/ SendMeta(t)
    BY <1>0, <2>1, NewWrite
  <2> QED BY <1>2, <2>2
<1> QED BY <1>4, <1>5

\* The latch that a mark set, or found no commit to set, stays set.
LEMMA NextMarked ==
  ASSUME StageInv, [Next]_vars, NEW t \in Task
  PROVE  Marked(t)'
<1>0. LogInv /\ TypeOK /\ Stage(t) /\ Marked(t) /\ Course(t)
  BY EveryCourse DEF StageInv, LogInv
<1>1. SUFFICES ASSUME pc'[t] # "idle", NEW i \in DOMAIN req'[t].updates, i < at'[t],
                      req'[t].updates[i].op = "mark", req'[t].updates[i].version \in present'[t]
               PROVE  log'[req'[t].table][req'[t].updates[i].version].flag
  BY DEF Marked, TableOf
<1>2. CASE pc[t] = "idle"
  <2>1. PICK q \in Workload : Begins(t, q)
    BY <1>0, <1>1, <1>2 DEF Course, Stays, Goes, Running
  <2>2. at'[t] = 1 /\ i \in Nat \ {0}
    BY <1>0, <1>1, <1>2, <2>1, RequestType DEF Begins, Stage
  <2> QED BY <1>1, <2>2
<1>3. CASE pc[t] # "idle"
  <2> DEFINE u == req[t].updates[i]
  <2>0. /\ req'[t] = req[t] /\ present'[t] = present[t] /\ i \in DOMAIN req[t].updates
        /\ i \in Nat \ {0} /\ u.op = "mark" /\ u.version \in present[t] /\ at[t] \in Nat
    <3>1. req'[t] = req[t] /\ present'[t] = present[t] /\ req[t] \in Workload
      BY <1>0, <1>3, RequestStays, UnderWay
    <3> QED BY <1>0, <1>1, <3>1, RequestType DEF TypeOK
  <2>1. PICK b \in Table : b = TableOf(t)
    BY <1>0, <1>3, UnderWay
  <2>2. u.version \in Versions(b) /\ log[b][u.version] \in Body
    BY <1>0, <1>3, <2>0, <2>1 DEF LogInv, ListingsInLog, TypeOK, Versions
  <2>3. PICK v : v = u.version
    OBVIOUS
  <2>4. log'[b][v] \in {log[b][v], [log[b][v] EXCEPT !.flag = TRUE]}
    BY <1>0, <2>2, <2>3, StepWritesOnce
  <2>5. CASE i < at[t]
    <3>1. log[b][v].flag
      BY <1>0, <1>3, <2>0, <2>1, <2>3, <2>5 DEF Marked
    <3> QED BY <2>0, <2>1, <2>2, <2>3, <2>4, <3>1 DEF Body, TableOf
  <2>6. CASE ~(i < at[t])
    <3>1. at'[t] = at[t] + 1 /\ i = at[t] /\ u = Current(t)
      <4>1. at'[t] \in {at[t], at[t] + 1}
        BY <1>0, <1>3 DEF Course, Stays, Begins
      <4> QED BY <1>1, <2>0, <2>6, <4>1 DEF Current
    <3>2. ASSUME MarkNothing(t) PROVE FALSE
      BY <2>1, <2>2, <3>1, <3>2 DEF MarkNothing
    <3>3. ASSUME Appended(t) PROVE FALSE
      BY <1>0, <2>0, <3>1, <3>3 DEF Appended, LogInv, WritesSound
    <3>4. at'[t] # at[t]
      BY <2>0, <3>1
    <3>5. PICK m \in inflight : AnswerTo(t, m) /\ (LandMark(m) \/ LandMeta(m))
      BY <1>0, <1>3, <3>2, <3>3, <3>4 DEF Course, Stays, Begins
    <3>6. UpdateOf(m) = u /\ LandMark(m) /\ m.task = t
      BY <2>0, <3>1, <3>5 DEF AnswerTo, Waiting, UpdateOf, Current, LandMeta
    <3>7. m.body = [log[b][v] EXCEPT !.flag = TRUE] /\ Write(m)
      BY <1>0, <2>0, <2>1, <2>3, <3>6, InFlight DEF LandMark
    <3>8. log'[b][v] = m.body
      BY <1>0, <2>1, <2>2, <2>3, <3>6, <3>7 DEF Write, TypeOK
    <3> QED BY <2>0, <2>1, <2>2, <2>3, <3>7, <3>8 DEF Body, TableOf
  <2> QED BY <2>5, <2>6
<1> QED BY <1>2, <1>3

LEMMA InitStage == Init => StageInv
<1> SUFFICES ASSUME Init PROVE StageInv
  OBVIOUS
<1>1. LogInv
  BY InitLogInv
<1>2. \A t \in Task : Stage(t) /\ Marked(t)
  BY DEF Init, Stage, Marked
<1>3. inflight = {}
  BY DEF Init
<1> QED BY <1>1, <1>2, <1>3 DEF StageInv

LEMMA NextStages ==
  ASSUME StageInv, [Next]_vars
  PROVE  StageInv'
<1>1. LogInv' /\ \A t \in Task : Stage(t)'
  BY NextLogInv, NextStage DEF StageInv
<1>2. \A t \in Task : Marked(t)'
  BY NextMarked
<1> QED BY <1>1, <1>2, NextSentAt DEF StageInv

\* A request that is under way is where its kind of request is at that point.
THEOREM StageInvariant == Spec => []StageInv
<1>1. StageInv /\ [Next]_vars => StageInv'
  BY NextStages
<1> QED BY <1>1, InitStage, PTL DEF Spec

\* A commit that was there when update_table was asked to mark it backfilled is
\* marked when it answers Ok, and stays so whoever rewrites the object.
\* (DeltaLog::mark_backfilled, mutate_commit)
THEOREM BackfillMarksStick == Spec => []MarksStick
<1>1. StageInv => MarksStick
  <2> SUFFICES ASSUME StageInv, NEW t \in Task, answer[t] = "ok",
                      NEW i \in DOMAIN req[t].updates
               PROVE  LET u == req[t].updates[i]
                      IN  u.op = "mark" /\ u.version \in present[t] =>
                            log[TableOf(t)][u.version].flag
    BY DEF MarksStick
  <2>1. LogInv /\ pc[t] # "idle" /\ at[t] > Len(req[t].updates) /\ TypeOK /\ Marked(t)
    BY DEF StageInv, Stage, LogInv
  <2>2. req[t].updates \in Seq(Update)
    BY <2>1, UnderWay, RequestType
  <2>3. i < at[t]
    BY <2>1, <2>2 DEF TypeOK
  <2> QED BY <2>1, <2>3 DEF Marked
<1> QED BY <1>1, StageInvariant, PTL

-----------------------------------------------------------------------------
(* What a request has done                                                 *)

\* The writes among the first updates of a request.
WritesBelow(t, n) == {i \in Writes(req[t]) : i < n}

\* The commit that t waits for is there, and its answer was lost.
Resent(t) ==
  /\ <<t, at[t]>> \in unheard
  /\ \/ pc[t] = "sent" /\ Current(t).op = "add"
     \/ answer[t] = "conflict"

\* A handler has done what lies before the update it is at, and that one too once
\* its object is created; of one that was given up nobody knows.
DoneSoFar(t) ==
  pc[t] # "idle" =>
    \/ Effects(t) = WritesBelow(t, at[t]) /\ pc[t] # "created"
    \/ /\ Effects(t) = WritesBelow(t, at[t] + 1)
       /\ pc[t] = "created" \/ answer[t] = "unknown" \/ Resent(t)

\* Of a write in flight nothing has landed, unless it is being sent again.
NotYetDone(m) ==
  \/ Effects(m.task) = WritesBelow(m.task, at[m.task])
  \/ /\ Effects(m.task) = WritesBelow(m.task, at[m.task] + 1)
     /\ UpdateOf(m).op = "add" /\ ~KeyIsFree(m) /\ <<m.task, m.step>> \in unheard

\* A refused commit was refused for one that is there, or for another request's.
RefusedByLog(t) ==
  answer[t] = "conflict" =>
    Contended(t) \/ \E v \in Versions(TableOf(t)) : v >= Current(t).version

EffectsInv ==
  /\ AnswersInv /\ StageInv
  /\ \A x \in metadata : pc[x[1]] # "idle"
  /\ \A t \in Task : DoneSoFar(t) /\ RefusedByLog(t)
  /\ \A m \in inflight : NotYetDone(m)

\* Whose a commit is does not change.
LEMMA ClaimsStay ==
  ASSUME LogInv, [Next]_vars, NEW b \in Table, NEW v \in Versions(b)
  PROVE  /\ v \in Versions(b)'
         /\ log'[b][v].by = log[b][v].by /\ log'[b][v].step = log[b][v].step
         /\ log[b][v].by \in Task
<1>1. log[b][v] \in Body
  BY DEF LogInv, TypeOK, Versions
<1>2. v \in DOMAIN log'[b] /\ log'[b][v] \in {log[b][v], [log[b][v] EXCEPT !.flag = TRUE]}
  BY StepWritesOnce
<1> QED BY <1>1, <1>2 DEF Body, Versions

Lands(m) == LandAdd(m) \/ LandAddUnheard(m) \/ LandMeta(m)

\* A commit or a metastore write that lands is an update of its request, and the
\* only news in that step.
LEMMA LandsIs ==
  ASSUME LogInv, [Next]_vars, NEW m \in inflight, Lands(m)
  PROVE  /\ m.task \in Task /\ m.step \in Writes(req[m.task])
         /\ m.step \in Effects(m.task)'
         /\ \A b \in Table : \A v \in Versions(b)' \ Versions(b) :
              log'[b][v].by = m.task /\ log'[b][v].step = m.step
         /\ metadata' \subseteq metadata \cup {<<m.task, m.step>>}
<1>0. /\ LogInv /\ m.task \in Task /\ pc[m.task] # "idle" /\ m.step \in DOMAIN req[m.task].updates
      /\ TableOf(m.task) \in Table
  BY InFlight DEF LogInv, RequestsKnown
<1>1. req'[m.task] = req[m.task]
  BY <1>0, RequestStays
<1>2. m.step \in Writes(req[m.task])
  BY <1>0 DEF Lands, LandAdd, LandAddUnheard, LandMeta, UpdateOf, Writes
<1>3. CASE LandMeta(m)
  <2>1. log' = log /\ metadata' = metadata \cup {<<m.task, m.step>>}
    BY <1>3 DEF LandMeta
  <2> QED BY <1>0, <1>1, <1>2, <2>1 DEF Effects, Versions
<1>4. CASE LandAdd(m) \/ LandAddUnheard(m)
  <2>1. UpdateOf(m).op = "add" /\ KeyIsFree(m) /\ Write(m) /\ metadata' = metadata
    BY <1>4 DEF LandAdd, LandAddUnheard, bucket
  <2>2. m.body = [by |-> m.task, step |-> m.step, flag |-> FALSE]
    BY <2>1, InFlight
  <2>3. \A b \in Table : \A v \in Versions(b)' \ Versions(b) : log'[b][v] = m.body
    BY <2>1, WriteIs
  <2>4. PICK b \in Table : b = TableOf(m.task)
    BY <1>0
  <2>5. PICK v : v = UpdateOf(m).version
    OBVIOUS
  <2>6. v \in Versions(b)' \ Versions(b)
    <3>1. Versions(b)' = Versions(b) \cup {v}
      BY <2>1, <2>4, <2>5, WriteIs
    <3> QED BY <2>1, <2>4, <2>5, <3>1 DEF KeyIsFree
  <2>7. log'[b][v].by = m.task /\ log'[b][v].step = m.step
    BY <2>2, <2>3, <2>6
  <2>8. TableOf(m.task)' = b
    BY <1>1, <2>4 DEF TableOf
  <2>9. m.step \in Effects(m.task)'
    BY <1>1, <1>2, <2>6, <2>7, <2>8 DEF Effects, Versions
  <2> QED BY <1>0, <1>2, <2>1, <2>2, <2>3, <2>9
<1> QED BY <1>3, <1>4 DEF Lands

\* Only that adds to what has been done.
LEMMA OnlyLands ==
  ASSUME LogInv, [Next]_vars, \A m \in inflight : ~Lands(m)
  PROVE  metadata' = metadata /\ \A b \in Table : Versions(b)' = Versions(b)
<1>1. metadata' = metadata
  <2>1. ASSUME NEW t \in Task, NEW q \in Workload, Call(t, q) PROVE metadata' = metadata
    BY <2>1 DEF Call, bucket
  <2>2. ASSUME NEW t \in Task, Step(t) PROVE metadata' = metadata
    BY <2>2
       DEF Step, ReadHint, ListBeyond, KeepHint, ListRange, RejectAdd, SendAdd, MarkNothing,
           SendMark, SendMeta, Send, Appended, UpdatesDone, bucket
  <2>3. ASSUME NEW t \in Task, Abandon(t) PROVE metadata' = metadata
    BY <2>3 DEF Abandon, bucket
  <2>4. ASSUME NEW r \in Replica, Restart(r) PROVE metadata' = metadata
    BY <2>4 DEF Restart, bucket
  <2>5. ASSUME NEW m \in inflight, Land(m) \/ LandAddUnheard(m) PROVE metadata' = metadata
    BY <2>5 DEF Land, LandAddUnheard, LandAdd, Refuse, LandMark, Lands
  <2> QED BY <2>1, <2>2, <2>3, <2>4, <2>5 DEF Next, vars, bucket
<1>2. CASE log' = log
  BY <1>1, <1>2 DEF Versions
<1>3. CASE log' # log
  <2>1. PICK m \in inflight : LandMark(m)
    BY <1>3, LogChanges DEF Lands
  <2>2. UpdateOf(m).op = "mark" /\ Write(m)
    BY <2>1 DEF LandMark
  <2>3. UpdateOf(m).version \in Versions(TableOf(m.task))
    BY <2>2, InFlight
  <2>4. \A b \in Table : Versions(b)' = IF b = TableOf(m.task)
                                        THEN Versions(b) \cup {UpdateOf(m).version}
                                        ELSE Versions(b)
    BY <2>2, WriteIs
  <2> QED BY <1>1, <2>3, <2>4
<1> QED BY <1>2, <1>3

LEMMA EffectsGrow ==
  ASSUME LogInv, [Next]_vars, NEW t \in Task, pc[t] # "idle"
  PROVE  /\ \A m \in inflight : Lands(m) /\ m.task = t => Effects(t)' = Effects(t) \cup {m.step}
         /\ (\A m \in inflight : ~(Lands(m) /\ m.task = t)) => Effects(t)' = Effects(t)
<1>0. req'[t] = req[t] /\ TableOf(t) \in Table /\ TableOf(t)' = TableOf(t)
  <2>1. req'[t] = req[t] /\ TableOf(t) \in Table
    BY RequestStays, UnderWay
  <2> QED BY <2>1 DEF TableOf
<1>1. PICK b \in Table : b = TableOf(t)
  BY <1>0
<1>2. /\ Effects(t) = {i \in Writes(req[t]) :
           <<t, i>> \in metadata \/ \E v \in Versions(b) : log[b][v].by = t /\ log[b][v].step = i}
      /\ Effects(t)' = {i \in Writes(req[t]) :
           <<t, i>> \in metadata' \/ \E v \in Versions(b)' : log'[b][v].by = t /\ log'[b][v].step = i}
  BY <1>0, <1>1 DEF Effects, Versions
<1>3. metadata \subseteq metadata'
  <2>1. ASSUME NEW m \in inflight, Lands(m) PROVE metadata \subseteq metadata'
    BY <2>1 DEF Lands, LandAdd, LandAddUnheard, LandMeta
  <2> QED BY <2>1, OnlyLands
<1>4. \A v \in Versions(b) : /\ v \in Versions(b)' /\ log'[b][v].by = log[b][v].by
                             /\ log'[b][v].step = log[b][v].step
  BY ClaimsStay
<1>5. Effects(t) \subseteq Effects(t)'
  BY <1>2, <1>3, <1>4
<1>6. ASSUME NEW m \in inflight, Lands(m) PROVE
        /\ m.task = t => Effects(t)' = Effects(t) \cup {m.step}
        /\ m.task # t => Effects(t)' = Effects(t)
  <2>1. /\ \A v \in Versions(b)' \ Versions(b) : log'[b][v].by = m.task /\ log'[b][v].step = m.step
        /\ metadata' \subseteq metadata \cup {<<m.task, m.step>>} /\ m.task \in Task
        /\ m.step \in Effects(m.task)'
    BY <1>6, LandsIs
  <2>2. \A i \in Effects(t)' : i \in Effects(t) \/ (m.task = t /\ i = m.step)
    BY <1>2, <1>4, <2>1
  <2> QED BY <1>5, <2>1, <2>2
<1>7. ASSUME \A m \in inflight : ~Lands(m) PROVE Effects(t)' = Effects(t)
  BY <1>2, <1>4, <1>7, OnlyLands
<1> QED BY <1>6, <1>7

\* What was not heard of stays so.
LEMMA UnheardGrows ==
  ASSUME [Next]_vars
  PROVE  unheard \subseteq unheard'
<1>1. ASSUME NEW t \in Task, NEW q \in Workload, Call(t, q) PROVE unheard' = unheard
  BY <1>1 DEF Call, bucket
<1>2. ASSUME NEW t \in Task, Step(t) PROVE unheard' = unheard
  BY <1>2
     DEF Step, ReadHint, ListBeyond, KeepHint, ListRange, RejectAdd, SendAdd, MarkNothing,
         SendMark, SendMeta, Send, Appended, UpdatesDone, bucket
<1>3. ASSUME NEW t \in Task, Abandon(t) PROVE unheard' = unheard
  BY <1>3 DEF Abandon, bucket
<1>4. ASSUME NEW r \in Replica, Restart(r) PROVE unheard' = unheard
  BY <1>4 DEF Restart, bucket
<1>5. ASSUME NEW m \in inflight, Land(m) \/ LandAddUnheard(m) PROVE unheard \subseteq unheard'
  BY <1>5 DEF Land, LandAddUnheard, LandAdd, Refuse, LandMark, LandMeta, Acknowledge
<1> QED BY <1>1, <1>2, <1>3, <1>4, <1>5 DEF Next, vars, bucket

\* What lands is not there twice.
LEMMA LandsOnce ==
  ASSUME EffectsInv, NEW m \in inflight, Lands(m)
  PROVE  Effects(m.task) = WritesBelow(m.task, at[m.task])
<1>1. UpdateOf(m).op = "add" => KeyIsFree(m)
  BY DEF Lands, LandAdd, LandAddUnheard, LandMeta
<1> QED BY <1>1 DEF EffectsInv, NotYetDone

LEMMA NextDoneSoFar ==
  ASSUME EffectsInv, [Next]_vars, NEW t \in Task
  PROVE  DoneSoFar(t)'
<1>0. LogInv /\ StageInv /\ TypeOK /\ Stage(t) /\ DoneSoFar(t) /\ Course(t) /\ at[t] \in Nat \ {0}
  BY EveryCourse DEF EffectsInv, StageInv, LogInv, TypeOK
<1>1. CASE pc[t] = "idle"
  <2>1. CASE pc'[t] = "idle"
    BY <2>1 DEF DoneSoFar
  <2>2. CASE pc'[t] # "idle"
    <3>1. PICK q \in Workload : Begins(t, q)
      BY <1>0, <1>1, <2>2 DEF Course, Stays, Goes, Running
    <3>2. /\ at'[t] = 1 /\ req'[t] = q /\ pc'[t] # "created"
          /\ UNCHANGED <<log, metadata>> /\ q.table \in Table
      BY <1>0, <1>1, <3>1, RequestType DEF Begins, Call, Stage, FirstStep, bucket
    <3>3. Effects(t)' = {}
      <4>1. \A i : <<t, i>> \notin metadata
        BY <1>1 DEF EffectsInv
      <4>2. \A v \in Versions(q.table) : log[q.table][v].by # t
        BY <1>0, <1>1, <3>2 DEF LogInv, RequestsKnown
      <4> QED BY <3>2, <4>1, <4>2 DEF Effects, Versions, TableOf
    <3>4. WritesBelow(t, at[t])' = {}
      BY <3>1, <3>2, RequestType DEF WritesBelow, Writes
    <3> QED BY <3>2, <3>3, <3>4 DEF DoneSoFar
  <2> QED BY <2>1, <2>2
<1>2. CASE pc[t] # "idle"
  <2>0. req'[t] = req[t] /\ pc'[t] # "idle" /\ req[t] \in Workload
    BY <1>0, <1>2, RequestStays, UnderWay
  <2>1. \A n : WritesBelow(t, n)' = {i \in Writes(req[t]) : i < n'}
    BY <2>0 DEF WritesBelow, Writes
  <2>2. \A i \in Writes(req[t]) : i \in Nat \ {0} /\ i \in DOMAIN req[t].updates
    BY <2>0, RequestType DEF Writes
  <2>a. at'[t] = at[t] => Current(t)' = Current(t)
    BY <2>0 DEF Current
  <2>b. unheard \subseteq unheard'
    BY UnheardGrows
  <2>3. ASSUME NEW m \in inflight, Lands(m), m.task = t PROVE DoneSoFar(t)'
    <3>1. /\ Effects(t)' = Effects(t) \cup {m.step} /\ m.step \in Writes(req[t])
          /\ Effects(t) = WritesBelow(t, at[t]) /\ m.step = at[t]
          /\ pc[t] = "sent" \/ answer[t] = "unknown"
      BY <1>0, <1>2, <2>3, EffectsGrow, LandsIs, LandsOnce DEF StageInv, SentAt
    <3>2. Effects(t)' = {i \in Writes(req[t]) : i < at[t] + 1}
      BY <1>0, <2>2, <3>1 DEF WritesBelow
    <3>3. CASE Waiting(m) /\ LandAdd(m)
      <4>1. pc'[t] = "created" /\ at'[t] = at[t]
        BY <1>0, <2>3, <3>3 DEF LandAdd, Goto, locals, TypeOK
      <4> QED BY <2>1, <3>2, <4>1 DEF DoneSoFar
    <3>4. CASE Waiting(m) /\ LandMeta(m)
      <4>1. pc'[t] = "updates" /\ at'[t] = at[t] + 1
        BY <1>0, <2>3, <3>4 DEF LandMeta, Acknowledge, NextUpdate, Goto, TypeOK
      <4> QED BY <2>1, <3>2, <4>1 DEF DoneSoFar
    <3>5. CASE ~Waiting(m)
      <4>1. pc' = pc /\ at' = at /\ answer' = answer
        BY <2>3, <3>5
           DEF Lands, LandAdd, LandAddUnheard, LandMeta, Acknowledge, locals, outcome
      <4>2. answer[t] = "unknown"
        BY <2>3, <3>1, <3>5 DEF Waiting
      <4> QED BY <2>1, <3>2, <4>1, <4>2 DEF DoneSoFar
    <3>6. CASE Waiting(m) /\ LandAddUnheard(m)
      <4>1. pc'[t] = "sent" /\ at'[t] = at[t] /\ Current(t).op = "add" /\ <<t, at[t]>> \in unheard'
        BY <2>3, <3>1, <3>6 DEF LandAddUnheard, Waiting, UpdateOf, Current, locals
      <4> QED BY <2>1, <2>a, <3>2, <4>1 DEF DoneSoFar, Resent
    <3> QED BY <2>3, <3>3, <3>4, <3>5, <3>6 DEF Lands
  <2>4. ASSUME \A m \in inflight : ~(Lands(m) /\ m.task = t) PROVE DoneSoFar(t)'
    <3>0. Effects(t)' = Effects(t)
      BY <1>0, <1>2, <2>4, EffectsGrow
    <3>1. CASE Stays(t)
      BY <1>0, <2>0, <2>1, <2>a, <2>b, <3>0, <3>1 DEF Stays, DoneSoFar, Resent, WritesBelow
    <3>2. CASE at'[t] = at[t] /\ Goes(t, Running, "done", "unknown")
      BY <1>0, <1>2, <2>0, <2>1, <3>0, <3>2 DEF Goes, DoneSoFar, WritesBelow
    <3>3. CASE Appended(t) /\ at'[t] = at[t] + 1 /\ Goes(t, {"created"}, "updates", answer[t])
      <4>1. answer[t] = "none" /\ pc[t] = "created"
        BY <1>0, <3>3 DEF Goes, Stage
      <4>2. Effects(t) = WritesBelow(t, at[t] + 1)
        BY <1>0, <1>2, <4>1 DEF DoneSoFar
      <4> QED BY <2>0, <2>1, <3>0, <3>3, <4>1, <4>2 DEF Goes, DoneSoFar, WritesBelow
    <3>4. ASSUME NEW m \in inflight, AnswerTo(t, m), LandMark(m) \/ LandMeta(m), at'[t] = at[t] + 1,
                 Goes(t, {"sent"}, "updates", answer[t])
          PROVE  DoneSoFar(t)'
      <4>1. LandMark(m) /\ Current(t).op = "mark"
        BY <2>4, <3>4 DEF AnswerTo, Lands, LandMark, Waiting, UpdateOf, Current
      <4>2. Effects(t) = WritesBelow(t, at[t])
        BY <1>0, <1>2, <3>4, <4>1 DEF Goes, DoneSoFar, Resent, Stage
      <4>3. at[t] \notin Writes(req[t])
        BY <4>1 DEF Writes, Current
      <4>4. \A i \in Writes(req[t]) : i < at[t] <=> i < at[t] + 1
        BY <1>0, <2>2, <4>3
      <4> QED BY <2>1, <3>0, <3>4, <4>2, <4>4 DEF Goes, DoneSoFar, WritesBelow
    <3>5. CASE MarkNothing(t) /\ at'[t] = at[t] + 1 /\ Goes(t, {"updates"}, "updates", answer[t])
      <4>1. Current(t).op = "mark"
        BY <3>5 DEF MarkNothing, AtUpdate
      <4>2. Effects(t) = WritesBelow(t, at[t])
        BY <1>0, <1>2, <3>5 DEF Goes, DoneSoFar, Resent, Stage
      <4>3. at[t] \notin Writes(req[t])
        BY <4>1 DEF Writes, Current
      <4>4. \A i \in Writes(req[t]) : i < at[t] <=> i < at[t] + 1
        BY <1>0, <2>2, <4>3
      <4> QED BY <2>1, <3>0, <3>5, <4>2, <4>4 DEF Goes, DoneSoFar, WritesBelow
    <3>6. ASSUME NEW to, NEW how, NEW from \in {{"hint"}, {"beyond"}, {"range"}, {"keep"}, {"updates"}, {"sent"}},
                 Goes(t, from, to, how), to # "created", at'[t] = at[t],
                 from = {"sent"} => how = "conflict"
          PROVE  DoneSoFar(t)'
      <4>1. pc[t] \in Running \ {"created"} /\ pc'[t] # "created"
        BY <3>6 DEF Goes, Running
      <4>2. answer[t] = "none"
        BY <1>0, <4>1 DEF Stage, Running
      <4>3. CASE Effects(t) = WritesBelow(t, at[t])
        BY <2>1, <3>0, <3>6, <4>1, <4>3 DEF DoneSoFar, WritesBelow
      <4>4. CASE Effects(t) # WritesBelow(t, at[t])
        <5>1. Effects(t) = WritesBelow(t, at[t] + 1) /\ <<t, at[t]>> \in unheard /\ pc[t] = "sent"
          BY <1>0, <1>2, <4>1, <4>2, <4>4 DEF DoneSoFar, Resent
        <5>2. answer'[t] = "conflict"
          BY <3>6, <5>1 DEF Goes
        <5> QED BY <2>1, <2>b, <3>0, <3>6, <5>1, <5>2 DEF DoneSoFar, Resent, WritesBelow
      <4> QED BY <4>3, <4>4
    <3>7. ASSUME NEW m \in inflight, AnswerTo(t, m), LandAdd(m) PROVE FALSE
      BY <2>4, <3>7 DEF AnswerTo, Lands
    <3>8. ASSUME NEW q \in Workload, Begins(t, q) PROVE FALSE
      BY <1>2, <3>8 DEF Begins
    <3> QED BY <1>0, <3>1, <3>2, <3>3, <3>4, <3>5, <3>6, <3>7, <3>8 DEF Course
  <2> QED BY <2>3, <2>4
<1> QED BY <1>1, <1>2

\* The reason for a conflict stays in the log.
LEMMA NextRefused ==
  ASSUME EffectsInv, Version \subseteq Nat, [Next]_vars, NEW t \in Task
  PROVE  RefusedByLog(t)'
<1>0. LogInv /\ Stage(t) /\ Course(t) /\ RefusedByLog(t) /\ Knows(t)
  BY EveryCourse DEF EffectsInv, StageInv, LogInv, AnswersInv, Sound
<1>1. SUFFICES ASSUME answer'[t] = "conflict"
               PROVE  \/ Contended(t)'
                      \/ \E v \in Versions(TableOf(t))' : v >= Current(t)'.version
  BY DEF RefusedByLog
<1>2. pc[t] # "idle"
  <2>1. pc[t] = "idle" => answer[t] = "none"
    BY <1>0 DEF Stage
  <2> QED BY <1>0, <1>1, <2>1 DEF Course, Stays, Begins, Goes, Running
<1>3. PICK b \in Table : b = TableOf(t)
  BY <1>0, <1>2, UnderWay
<1>4. TableOf(t)' = b /\ Versions(b) \subseteq Versions(b)' /\ Versions(b) \subseteq Nat
  BY <1>0, <1>2, <1>3, RequestStays, Grows, Typed DEF TableOf
<1>5. /\ at'[t] = at[t]
      /\ \/ answer[t] = "conflict"
         \/ RejectAdd(t)
         \/ \E m \in inflight : AnswerTo(t, m) /\ Refuse(m)
  BY <1>0, <1>1, <1>2 DEF Course, Stays, Begins, Goes, Stage
<1>6. Current(t)' = Current(t)
  BY <1>0, <1>2, <1>5, RequestStays DEF Current
<1>a. ASSUME NEW s \in Task \ {t}, pc[s] # "idle", TableOf(s) = b,
             NEW i \in Adds(req[s]), i <= at[s], req[s].updates[i].version = Current(t).version
      PROVE  Contended(t)'
  <2>1. Course(s) /\ at[s] \in Nat \ {0} /\ i \in Nat /\ req[s] \in Workload
    <3>1. Course(s) /\ at[s] \in Nat \ {0} /\ req[s] \in Workload
      BY <1>0, <1>a, EveryCourse, UnderWay DEF LogInv, TypeOK
    <3> QED BY <1>a, <3>1, RequestType DEF Adds
  <2>2. pc'[s] # "idle" /\ req'[s] = req[s]
    BY <1>0, <1>a, RequestStays
  <2>3. at'[s] \in {at[s], at[s] + 1}
    BY <1>a, <2>1 DEF Course, Stays, Begins
  <2>4. i <= at'[s]
    BY <1>a, <2>1, <2>3
  <2>5. TableOf(s)' = TableOf(t)'
    BY <1>4, <1>a, <2>2 DEF TableOf
  <2>6. i \in Adds(req'[s]) /\ req'[s].updates[i].version = Current(t)'.version
    BY <1>6, <1>a, <2>2
  <2> QED BY <2>2, <2>4, <2>5, <2>6 DEF Contended
<1>b. Contended(t) => Contended(t)'
  BY <1>3, <1>a DEF Contended
<1>7. CASE answer[t] = "conflict"
  BY <1>0, <1>3, <1>4, <1>6, <1>7, <1>b DEF RefusedByLog, Versions
<1>8. CASE RejectAdd(t)
  <2>1. /\ pc[t] = "updates" /\ req[t].api = "update" /\ Current(t).version <= latest[t]
        /\ Current(t).version \in Nat
    BY <1>0, <1>8, AtUpdateType DEF RejectAdd, TooOld
  <2>2. latest[t] \in Versions(b) \cup {-1}
    BY <1>0, <1>3, <2>1 DEF Knows
  <2>3. PICK v \in Nat : v = Current(t).version
    BY <2>1
  <2>4. latest[t] \in Versions(b) /\ latest[t] >= v
    BY <1>4, <2>1, <2>2, <2>3
  <2> QED BY <1>4, <1>6, <2>3, <2>4 DEF Versions
<1>9. ASSUME NEW m \in inflight, AnswerTo(t, m), Refuse(m)
      PROVE  Contended(t)' \/ \E v \in Versions(b) : v >= Current(t).version
  <2>0. m.task = t /\ Current(t) = UpdateOf(m) /\ UpdateOf(m).op = "add"
    BY <1>9 DEF AnswerTo, Refuse, Waiting, Current, UpdateOf
  <2>1. CASE ~KeyIsFree(m)
    <3>1. UpdateOf(m).version \in Versions(b)
      BY <1>3, <2>0, <2>1 DEF KeyIsFree
    <3>2. PICK v \in Nat : v = UpdateOf(m).version
      BY <1>4, <3>1
    <3> QED BY <2>0, <3>1, <3>2
  <2>2. CASE KeyIsFree(m)
    <3>1. PICK l \in inflight : l.task # t /\ TableOf(l.task) = b /\ UpdateOf(l) = UpdateOf(m)
      BY <1>3, <1>9, <2>0, <2>2 DEF Refuse, TakenOrContended
    <3>2. PICK s \in Task \ {t} : s = l.task /\ pc[s] # "idle" /\ at[s] \in Nat
      BY <1>0, <3>1, InFlight DEF LogInv, TypeOK
    <3>3. l.step = at[s] /\ at[s] \in DOMAIN req[s].updates
      BY <1>0, <3>1, <3>2 DEF EffectsInv, StageInv, SentAt, LogInv, RequestsKnown
    <3>4. at[s] \in Adds(req[s]) /\ req[s].updates[at[s]].version = Current(t).version
      BY <2>0, <3>1, <3>2, <3>3 DEF Adds, UpdateOf
    <3> QED BY <1>a, <3>1, <3>2, <3>4
  <2> QED BY <2>1, <2>2
<1>10. CASE \E m \in inflight : AnswerTo(t, m) /\ Refuse(m)
  BY <1>4, <1>6, <1>9, <1>10 DEF Versions
<1> QED BY <1>5, <1>7, <1>8, <1>10

LEMMA NextEffects ==
  ASSUME EffectsInv, Version \subseteq Nat, [Next]_vars
  PROVE  EffectsInv'
<1>0. LogInv /\ StageInv /\ TypeOK /\ AnswersInv
  BY DEF EffectsInv, StageInv, LogInv
<1>1. AnswersInv' /\ StageInv'
  BY <1>0, NextAnswers, NextStages
<1>2. ASSUME NEW x \in metadata' PROVE pc'[x[1]] # "idle"
  <2>1. CASE x \in metadata
    <3>1. x[1] \in Task /\ pc[x[1]] # "idle"
      BY <1>0, <2>1 DEF EffectsInv, TypeOK
    <3> QED BY <1>0, <3>1, RequestStays
  <2>2. CASE x \notin metadata
    <3>1. PICK m \in inflight : Lands(m)
      BY <1>0, <1>2, <2>2, OnlyLands
    <3>2. x = <<m.task, m.step>> /\ m.task \in Task /\ pc[m.task] # "idle"
      BY <1>0, <1>2, <2>2, <3>1, LandsIs, InFlight
    <3> QED BY <1>0, <3>2, RequestStays
  <2> QED BY <2>1, <2>2
<1>3. ASSUME NEW m \in inflight' PROVE NotYetDone(m)'
  <2>1. CASE m \in inflight
    <3>1. PICK t \in Task : t = m.task
      BY <1>0, <2>1, InFlight
    <3>2. /\ pc[t] # "idle" /\ m.step = at[t] /\ m.step = at'[t] /\ NotYetDone(m)
          /\ TableOf(t) \in Table
      BY <1>0, <1>1, <1>3, <2>1, <3>1, InFlight DEF EffectsInv, StageInv, SentAt
    <3>3. req'[t] = req[t] /\ UpdateOf(m)' = UpdateOf(m) /\ TableOf(t)' = TableOf(t)
      BY <1>0, <3>1, <3>2, RequestStays DEF UpdateOf, TableOf
    <3>4. unheard \subseteq unheard' /\ (~KeyIsFree(m) => ~KeyIsFree(m)')
      <4>1. PICK b \in Table : b = TableOf(t)
        BY <3>2
      <4>2. Versions(b) \subseteq Versions(b)'
        BY <1>0, Grows
      <4> QED BY <3>1, <3>3, <4>1, <4>2, UnheardGrows DEF KeyIsFree, Versions
    <3>5. ASSUME NEW n \in inflight, Lands(n), n.task = t PROVE NotYetDone(m)'
      <4>1. n = m
        BY <1>0, <2>1, <3>1, <3>5 DEF StageInv
      <4>2. LandAddUnheard(m)
        <5>1. inflight' = inflight \ {n} \/ LandAddUnheard(n)
          BY <3>5 DEF Lands, LandAdd, LandMeta, Acknowledge, Answered
        <5> QED BY <1>3, <4>1, <5>1
      <4>3. Effects(t)' = Effects(t) \cup {at[t]} /\ Effects(t) = WritesBelow(t, at[t])
            /\ at[t] \in Writes(req[t])
        BY <1>0, <3>1, <3>2, <3>5, <4>1, EffectsGrow, LandsIs, LandsOnce
      <4>4. Effects(t)' = WritesBelow(t, at[t] + 1)'
        <5>1. \A i \in Writes(req[t]) : i \in Nat
          BY <1>0, <3>2, UnderWay, RequestType DEF Writes
        <5>2. at[t] \in Nat
          BY <1>0 DEF TypeOK
        <5>3. \A i \in Writes(req[t]) : i < at[t] + 1 <=> i < at[t] \/ i = at[t]
          BY <5>1, <5>2
        <5> QED BY <3>2, <3>3, <4>3, <5>3 DEF WritesBelow
      <4>5. ~KeyIsFree(m)'
        <5>1. Write(m) /\ UpdateOf(m).op = "add" /\ KeyIsFree(m)
          BY <4>2 DEF LandAddUnheard
        <5>2. PICK b \in Table : b = TableOf(m.task)
          BY <3>1, <3>2
        <5>3. UpdateOf(m).version \in Versions(b)'
          <6>1. Versions(b)' = Versions(b) \cup {UpdateOf(m).version}
            BY <1>0, <2>1, <5>1, <5>2, WriteIs
          <6> QED BY <6>1
        <5> QED BY <3>1, <3>3, <5>2, <5>3 DEF KeyIsFree, Versions
      <4>6. <<m.task, m.step>> \in unheard' /\ UpdateOf(m).op = "add"
        BY <4>2 DEF LandAddUnheard
      <4> QED BY <3>1, <3>3, <4>4, <4>5, <4>6 DEF NotYetDone
    <3>6. ASSUME \A n \in inflight : ~(Lands(n) /\ n.task = t) PROVE NotYetDone(m)'
      <4>1. Effects(t)' = Effects(t)
        BY <1>0, <3>2, <3>6, EffectsGrow
      <4> QED BY <3>1, <3>2, <3>3, <3>4, <4>1 DEF NotYetDone, WritesBelow
    <3> QED BY <3>5, <3>6
  <2>2. CASE m \notin inflight
    <3>1. PICK t \in Task : /\ SendAdd(t) \/ SendMark(t) \/ SendMeta(t)
                            /\ m.task = t /\ m.step = at[t]
      BY <1>0, <1>3, <2>2, NewWrite
    <3>2. pc[t] = "updates" /\ UNCHANGED <<log, metadata, req, at>>
      BY <3>1 DEF SendAdd, SendMark, SendMeta, Send, AtUpdate, locals
    <3>3. Effects(t) = WritesBelow(t, at[t])
      BY <1>0, <3>2 DEF EffectsInv, DoneSoFar, Resent, StageInv, Stage
    <3>4. Effects(t)' = Effects(t) /\ WritesBelow(t, at[t])' = WritesBelow(t, at[t])
      BY <3>2 DEF Effects, Versions, TableOf, WritesBelow
    <3> QED BY <3>1, <3>3, <3>4 DEF NotYetDone
  <2> QED BY <2>1, <2>2
<1>4. \A t \in Task : DoneSoFar(t)' /\ RefusedByLog(t)'
  BY NextDoneSoFar, NextRefused
<1> QED BY <1>1, <1>2, <1>3, <1>4 DEF EffectsInv

LEMMA InitEffects == Init => EffectsInv
<1> SUFFICES ASSUME Init PROVE EffectsInv
  OBVIOUS
<1>1. AnswersInv /\ StageInv
  BY InitAnswers, InitStage
<1>2. /\ metadata = {} /\ inflight = {}
      /\ \A t \in Task : DoneSoFar(t) /\ RefusedByLog(t)
  BY DEF Init, DoneSoFar, RefusedByLog
<1> QED BY <1>1, <1>2 DEF EffectsInv

\* A response to an update or a commit says what became of it: all on Ok, what
\* precedes the refused commit on a conflict, nothing on a failed requirement,
\* and never a later part without an earlier one, although the updates are
\* separate writes and the last may land after its request is gone.  The refused
\* commit is there only if the network lost the answer that it was created.
\* (update_table, DeltaLog::append)
THEOREM AnswersTellEffects ==
  ASSUME Version \subseteq Nat
  PROVE  Spec => []AnswersMatchEffects
<1>1. EffectsInv /\ [Next]_vars => EffectsInv'
  BY NextEffects
<1>2. EffectsInv => AnswersMatchEffects
  <2> SUFFICES ASSUME EffectsInv, NEW t \in Task, pc[t] # "idle"
               PROVE  /\ \A i \in Effects(t), j \in Writes(req[t]) : j < i => j \in Effects(t)
                      /\ answer[t] = "ok" => Effects(t) = Writes(req[t])
                      /\ answer[t] = "conflict" =>
                           /\ Effects(t) \ {at[t]} = {i \in Writes(req[t]) : i < at[t]}
                           /\ at[t] \in Effects(t) => <<t, at[t]>> \in unheard
                      /\ answer[t] = "requirement" => Effects(t) = {}
                      /\ RefusedByLog(t)
    BY DEF AnswersMatchEffects, RefusedByLog
  <2>1. LogInv /\ TypeOK /\ Stage(t) /\ DoneSoFar(t) /\ at[t] \in Nat \ {0} /\ req[t] \in Workload
    BY UnderWay DEF EffectsInv, StageInv, LogInv, TypeOK
  <2>2. /\ req[t].updates \in Seq(Update)
        /\ \A i \in Writes(req[t]) : i \in 1..Len(req[t].updates)
    BY <2>1, RequestType DEF Writes
  <2>3. Len(req[t].updates) \in Nat
    BY <2>2
  <2>4. \A i \in Effects(t), j \in Writes(req[t]) : j < i => j \in Effects(t)
    BY <2>1, <2>2 DEF DoneSoFar, WritesBelow
  <2>5. answer[t] \in {"ok", "requirement"} => Effects(t) = WritesBelow(t, at[t])
    BY <2>1 DEF Stage, DoneSoFar, Resent
  <2>6. answer[t] = "ok" => Effects(t) = Writes(req[t])
    <3>1. ASSUME at[t] > Len(req[t].updates), NEW i \in Writes(req[t]) PROVE i < at[t]
      BY <2>1, <2>2, <2>3, <3>1
    <3>2. answer[t] = "ok" => at[t] > Len(req[t].updates)
      BY <2>1 DEF Stage
    <3> QED BY <2>5, <3>1, <3>2 DEF WritesBelow
  <2>7. answer[t] = "requirement" => Effects(t) = {}
    BY <2>1, <2>2, <2>5 DEF Stage, WritesBelow
  <2>8. ASSUME answer[t] = "conflict"
        PROVE  /\ Effects(t) \ {at[t]} = {i \in Writes(req[t]) : i < at[t]}
               /\ at[t] \in Effects(t) => <<t, at[t]>> \in unheard
    <3>1. \A i \in Writes(req[t]) : i < at[t] + 1 <=> i < at[t] \/ i = at[t]
      BY <2>1, <2>2
    <3>2. \/ Effects(t) = WritesBelow(t, at[t])
          \/ Effects(t) = WritesBelow(t, at[t] + 1) /\ <<t, at[t]>> \in unheard
      BY <2>1, <2>8 DEF Stage, DoneSoFar, Resent
    <3>3. \A i \in Writes(req[t]) : i < at[t] => i # at[t]
      BY <2>1, <2>2
    <3> QED BY <3>1, <3>2, <3>3 DEF WritesBelow
  <2> QED BY <2>4, <2>6, <2>7, <2>8 DEF EffectsInv
<1> QED BY <1>1, <1>2, InitEffects, PTL DEF Spec

-----------------------------------------------------------------------------
(* Clients that commit right above what they were told                     *)

AddsBelow(q, i) == {j \in Adds(q) : j < i}

\* A request continues a history without holes, as far as it has come.
Continues(t) ==
  pc[t] # "idle" /\ Adds(req[t]) # {} =>
    \E base \in Nat \cup {-1} :
      /\ \A i \in Adds(req[t]) :
           req[t].updates[i].version = base + Cardinality({j \in Adds(req[t]) : j <= i})
      /\ \A u \in Nat : u <= base + Cardinality(AddsBelow(req[t], at[t])) => u \in Known(TableOf(t))

\* A client is told a version of the table, or that it has none: in one of two ways.
ToldVersion(t) == answer[t] = "ok" => reply[t] \in Known(TableOf(t)) \cup {-1}

HistoryInv ==
  /\ AnswersInv /\ StageInv /\ HistoryContiguous
  /\ \A t \in Task : Continues(t) /\ ToldVersion(t)

\* Counting the commits of a request up to one of its updates.
LEMMA AddsCount ==
  ASSUME NEW q \in Workload, NEW i \in Nat \ {0}
  PROVE  /\ Cardinality(AddsBelow(q, i)) \in Nat /\ Cardinality(AddsBelow(q, i + 1)) \in Nat
         /\ AddsBelow(q, i + 1) = {j \in Adds(q) : j <= i}
         /\ i \in Adds(q) =>
              Cardinality(AddsBelow(q, i + 1)) = Cardinality(AddsBelow(q, i)) + 1
         /\ i \notin Adds(q) => AddsBelow(q, i + 1) = AddsBelow(q, i)
         /\ Cardinality(AddsBelow(q, 1)) = 0
<1>1. /\ q.updates \in Seq(Update) /\ Len(q.updates) \in Nat
      /\ \A j \in Adds(q) : j \in 1..Len(q.updates) /\ j \in Nat \ {0}
  BY RequestType DEF Adds
<1>2. IsFiniteSet(Adds(q))
  <2>1. IsFiniteSet(1..Len(q.updates)) /\ Adds(q) \subseteq 1..Len(q.updates)
    BY <1>1, FS_Interval
  <2> QED BY <2>1, FS_Subset
<1>3. ASSUME NEW n PROVE IsFiniteSet(AddsBelow(q, n)) /\ Cardinality(AddsBelow(q, n)) \in Nat
  <2>1. AddsBelow(q, n) \subseteq Adds(q)
    BY DEF AddsBelow
  <2> QED BY <1>2, <2>1, FS_Subset, FS_CardinalityType
<1>4. AddsBelow(q, i + 1) = {j \in Adds(q) : j <= i}
  BY <1>1 DEF AddsBelow
<1>5. ASSUME i \in Adds(q)
      PROVE  Cardinality(AddsBelow(q, i + 1)) = Cardinality(AddsBelow(q, i)) + 1
  <2>0. \A j \in Adds(q) : j \in Nat /\ (j < i + 1 <=> j < i \/ j = i)
    BY <1>1
  <2>1. AddsBelow(q, i + 1) = AddsBelow(q, i) \cup {i} /\ i \notin AddsBelow(q, i)
    <3>1. \A j : j \in AddsBelow(q, i + 1) <=> j \in AddsBelow(q, i) \cup {i}
      BY <1>5, <2>0 DEF AddsBelow
    <3>2. i \notin AddsBelow(q, i)
      BY DEF AddsBelow
    <3> QED BY <3>1, <3>2
  <2> QED BY <1>3, <2>1, FS_AddElement
<1>6. i \notin Adds(q) => AddsBelow(q, i + 1) = AddsBelow(q, i)
  BY <1>1 DEF AddsBelow
<1>7. AddsBelow(q, 1) = {}
  BY <1>1 DEF AddsBelow
<1> QED BY <1>3, <1>4, <1>5, <1>6, <1>7, FS_EmptySet

\* A table gets a new version when a conditional PUT creates it.
LEMMA NewVersion ==
  ASSUME LogInv, [Next]_vars, NEW b \in Table, NEW v \in Versions(b)', v \notin Versions(b)
  PROVE  \E m \in inflight : UpdateOf(m).op = "add" /\ b = TableOf(m.task) /\ v = UpdateOf(m).version
<1>1. log' # log
  BY DEF Versions
<1>2. PICK m \in inflight : LandAdd(m) \/ LandAddUnheard(m) \/ LandMark(m)
  BY <1>1, LogChanges
<1>3. /\ UpdateOf(m).op \in {"add", "mark"} /\ Write(m)
      /\ UpdateOf(m).op = "add" => KeyIsFree(m)
  BY <1>2 DEF LandAdd, LandAddUnheard, LandMark
<1>4. b = TableOf(m.task) /\ v = UpdateOf(m).version
  BY <1>3, WriteIs
<1>5. UpdateOf(m).op = "add"
  BY <1>3, <1>4, InFlight
<1> QED BY <1>4, <1>5

\* The commit that a request is at follows all that came before it.
LEMMA NextToCommit ==
  ASSUME HistoryInv, NEW t \in Task, pc[t] # "idle", at[t] \in Adds(req[t])
  PROVE  /\ Current(t).version \in Nat
         /\ \A u \in Nat : u < Current(t).version => u \in Known(TableOf(t))
         /\ Current(t).version \in Versions(TableOf(t)) =>
              \A base \in Nat \cup {-1} :
                /\ \A i \in Adds(req[t]) :
                     req[t].updates[i].version = base + Cardinality({j \in Adds(req[t]) : j <= i})
                /\ \A u \in Nat : u <= base + Cardinality(AddsBelow(req[t], at[t])) =>
                     u \in Known(TableOf(t))
                => \A u \in Nat : u <= base + Cardinality(AddsBelow(req[t], at[t] + 1)) =>
                     u \in Known(TableOf(t))
<1>0. LogInv /\ req[t] \in Workload /\ at[t] \in Nat \ {0} /\ Continues(t)
  <2>1. LogInv /\ Continues(t)
    BY DEF HistoryInv, AnswersInv
  <2> QED BY <2>1, UnderWay DEF LogInv, TypeOK
<1> DEFINE below == Cardinality(AddsBelow(req[t], at[t]))
           upto == Cardinality(AddsBelow(req[t], at[t] + 1))
<1>k. Versions(TableOf(t)) \subseteq Known(TableOf(t))
  BY DEF Known
<1>1. /\ below \in Nat /\ upto = below + 1
      /\ upto = Cardinality({j \in Adds(req[t]) : j <= at[t]})
  BY <1>0, AddsCount
<1>2. ASSUME NEW base \in Nat \cup {-1},
             \A i \in Adds(req[t]) :
               req[t].updates[i].version = base + Cardinality({j \in Adds(req[t]) : j <= i}),
             \A u \in Nat : u <= base + below => u \in Known(TableOf(t))
      PROVE  /\ Current(t).version = base + below + 1
             /\ Current(t).version \in Nat
             /\ \A u \in Nat : u < Current(t).version => u \in Known(TableOf(t))
             /\ Current(t).version \in Versions(TableOf(t)) =>
                  \A u \in Nat : u <= base + upto => u \in Known(TableOf(t))
  <2>1. Current(t).version = base + upto
    BY <1>1, <1>2 DEF Current
  <2> HIDE DEF below, upto
  <2>2. PICK n : n = Current(t).version
    OBVIOUS
  <2>3. n = base + below + 1 /\ n \in Nat
    BY <1>1, <2>1, <2>2
  <2>4. \A u \in Nat : u < n => u <= base + below
    BY <1>1, <2>3
  <2>5. \A u \in Nat : u <= base + upto => u <= base + below \/ u = n
    BY <1>1, <2>3
  <2> QED BY <1>2, <1>k, <2>2, <2>3, <2>4, <2>5
<1>3. PICK base \in Nat \cup {-1} :
        /\ \A i \in Adds(req[t]) :
             req[t].updates[i].version = base + Cardinality({j \in Adds(req[t]) : j <= i})
        /\ \A u \in Nat : u <= base + below => u \in Known(TableOf(t))
  BY <1>0 DEF Continues
<1>4. /\ Current(t).version \in Nat
      /\ \A u \in Nat : u < Current(t).version => u \in Known(TableOf(t))
  BY <1>2, <1>3
<1> QED BY <1>2, <1>4

\* The version in a response.
LEMMA ReplyIs ==
  ASSUME LogInv, [Next]_vars, NEW t \in Task, answer'[t] = "ok"
  PROVE  \/ answer[t] = "ok" /\ reply'[t] = reply[t]
         \/ UpdatesDone(t) /\ req[t].api = "update" /\ reply'[t] = latest[t]
         \/ /\ KeepHint(t) /\ req[t].api # "update"
            /\ reply'[t] = IF latest[t] = NoVersion THEN WhenEmpty(t) ELSE latest[t]
<1>0. TypeOK
  BY DEF LogInv
<1> DEFINE Kept == answer[t] = "ok" /\ reply'[t] = reply[t]
<1>1. ASSUME NEW s \in Task, NEW q \in Workload, Call(s, q) PROVE Kept
  BY <1>1 DEF Call, outcome
<1>2. ASSUME NEW s \in Task, Step(s), ~UpdatesDone(s), ~KeepHint(s) PROVE Kept
  <2>1. \/ answer' = answer /\ reply' = reply
        \/ Return(s, "conflict", NoVersion)
    BY <1>2 DEF Step, ReadHint, ListBeyond, ListRange, RejectAdd, SendAdd, MarkNothing,
                SendMark, SendMeta, Send, Appended, outcome
  <2> QED BY <1>0, <2>1 DEF Return, TypeOK
<1>3. ASSUME NEW s \in Task, Abandon(s) PROVE Kept
  BY <1>0, <1>3 DEF Abandon, Return, TypeOK
<1>4. ASSUME NEW r \in Replica, Restart(r) PROVE Kept
  BY <1>0, <1>4 DEF Restart, TypeOK
<1>5. ASSUME NEW m \in inflight, Land(m) \/ LandAddUnheard(m) PROVE Kept
  <2>1. \/ answer' = answer /\ reply' = reply
        \/ Return(m.task, "conflict", NoVersion)
    BY <1>5 DEF Land, LandAdd, LandAddUnheard, Refuse, EndInConflict, LandMark, LandMeta,
                Acknowledge, outcome
  <2> QED BY <1>0, <2>1 DEF Return, TypeOK
<1>6. CASE UNCHANGED vars
  BY <1>6 DEF vars, outcome
<1>7. ASSUME NEW s \in Task, UpdatesDone(s)
      PROVE  Kept \/ (s = t /\ req[t].api = "update" /\ reply'[t] = latest[t])
  <2>1. \/ answer' = answer /\ reply' = reply
        \/ req[s].api = "update" /\ Return(s, "ok", latest[s])
    BY <1>7 DEF UpdatesDone, outcome
  <2> QED BY <1>0, <2>1 DEF Return, TypeOK
<1>8. ASSUME NEW s \in Task, KeepHint(s)
      PROVE  Kept \/ /\ s = t /\ req[t].api # "update"
                     /\ reply'[t] = IF latest[t] = NoVersion THEN WhenEmpty(t) ELSE latest[t]
  <2>1. \/ answer' = answer /\ reply' = reply
        \/ Return(s, "requirement", NoVersion)
        \/ /\ req[s].api # "update"
           /\ Return(s, "ok", IF latest[s] = NoVersion THEN WhenEmpty(s) ELSE latest[s])
    BY <1>8 DEF KeepHint, outcome
  <2> QED BY <1>0, <2>1 DEF Return, TypeOK
<1> QED BY <1>1, <1>2, <1>3, <1>4, <1>5, <1>6, <1>7, <1>8 DEF Next

\* What a table is known to have it has, or is said to have, from then on.
LEMMA KnownGrows ==
  ASSUME StageInv, [Next]_vars, NEW b \in Table
  PROVE  Known(b) \subseteq Known(b)'
<1>0. LogInv
  BY DEF StageInv
<1>1. Versions(b) \subseteq Versions(b)'
  BY <1>0, Grows
<1>2. ASSUME NEW t \in Task, answer[t] = "ok", req[t].api = "load", TableOf(t) = b, reply[t] = 0
      PROVE  ToldZero(b)'
  <2>1. pc[t] = "done" /\ Course(t)
    BY <1>0, <1>2, EveryCourse DEF StageInv, Stage
  <2>2. Stays(t)
    BY <2>1 DEF Course, Begins, Goes, Running
  <2>3. answer'[t] = "ok" /\ req'[t] = req[t]
    BY <1>2, <2>2 DEF Stays
  <2>4. reply'[t] = reply[t]
    BY <1>0, <2>1, <2>3, ReplyIs DEF UpdatesDone, KeepHint
  <2> QED BY <1>2, <2>3, <2>4 DEF ToldZero, TableOf
<1>3. ToldZero(b) => ToldZero(b)'
  BY <1>2 DEF ToldZero
<1> QED BY <1>1, <1>3 DEF Known

LEMMA NextContiguous ==
  ASSUME HistoryInv, Version \subseteq Nat, [Next]_vars
  PROVE  HistoryContiguous'
<1>0. LogInv /\ StageInv
  BY DEF HistoryInv, AnswersInv
<1> SUFFICES ASSUME NEW b \in Table, NEW v \in Versions(b)'
             PROVE  v >= 0 /\ 0..v \subseteq Known(b)'
  BY DEF HistoryContiguous
<1>1. Known(b) \subseteq Known(b)' /\ Versions(b)' \subseteq Known(b)' /\ Versions(b) \subseteq Nat
  <2>1. Versions(b) \subseteq Nat
    <3>1. Versions(b) \subseteq Version
      BY <1>0 DEF LogInv, TypeOK, Versions
    <3> QED BY <3>1
  <2>2. Versions(b)' \subseteq Known(b)'
    BY DEF Known
  <2> QED BY <1>0, <2>1, <2>2, KnownGrows
<1>2. CASE v \in Versions(b)
  BY <1>1, <1>2 DEF HistoryInv, HistoryContiguous
<1>3. CASE v \notin Versions(b)
  <2>1. PICK m \in inflight : /\ UpdateOf(m).op = "add"
                              /\ b = TableOf(m.task) /\ v = UpdateOf(m).version
    BY <1>0, <1>3, NewVersion
  <2>2. PICK t \in Task : t = m.task /\ pc[t] # "idle"
    BY <1>0, <2>1, InFlight
  <2>3. m.step = at[t] /\ m.step \in DOMAIN req[t].updates
    BY <1>0, <2>1, <2>2 DEF StageInv, SentAt, LogInv, RequestsKnown
  <2>4. at[t] \in Adds(req[t]) /\ v = Current(t).version
    BY <2>1, <2>2, <2>3 DEF Adds, UpdateOf, Current
  <2>5. v \in Nat /\ \A u \in Nat : u < v => u \in Known(b)
    BY <2>1, <2>2, <2>4, NextToCommit
  <2>6. \A u \in 0..v : u \in Nat /\ (u < v \/ u = v)
    BY <2>5
  <2> QED BY <1>1, <2>5, <2>6
<1> QED BY <1>2, <1>3

LEMMA NextTold ==
  ASSUME HistoryInv, [Next]_vars, Version \subseteq Nat, NEW t \in Task
  PROVE  ToldVersion(t)'
<1>0. LogInv /\ StageInv /\ Stage(t) /\ Knows(t) /\ ToldVersion(t)
  BY DEF HistoryInv, AnswersInv, StageInv, Sound
<1> SUFFICES ASSUME answer'[t] = "ok" PROVE reply'[t] \in Known(TableOf(t))' \cup {-1}
  BY DEF ToldVersion
<1>1. pc[t] # "idle"
  <2>1. answer[t] = "ok" => pc[t] # "idle"
    BY <1>0 DEF Stage
  <2> QED BY <1>0, <2>1, ReplyIs DEF UpdatesDone, KeepHint
<1>2. PICK b \in Table : b = TableOf(t)
  BY <1>0, <1>1, UnderWay
<1>3. TableOf(t)' = b /\ req'[t] = req[t]
  BY <1>0, <1>1, <1>2, RequestStays DEF TableOf
<1>4. Versions(b) \subseteq Known(b) /\ Known(b) \subseteq Known(b)'
  BY <1>0, KnownGrows DEF Known
<1>5. reply'[t] \in Known(b)' \cup {-1}
  <2>1. CASE answer[t] = "ok" /\ reply'[t] = reply[t]
    BY <1>0, <1>2, <1>4, <2>1 DEF ToldVersion
  <2>2. CASE UpdatesDone(t) /\ req[t].api = "update" /\ reply'[t] = latest[t]
    BY <1>0, <1>2, <1>4, <2>2 DEF UpdatesDone, Knows
  <2>3. CASE KeepHint(t) /\ reply'[t] = IF latest[t] = NoVersion THEN WhenEmpty(t) ELSE latest[t]
    <3>1. latest[t] # NoVersion => latest[t] \in Versions(b)
      BY <1>0, <1>2, <2>3 DEF KeepHint, LogInv, ListingsInLog
    <3>2. CASE latest[t] = NoVersion /\ req[t].api = "load"
      <4>1. reply'[t] = 0
        BY <2>3, <3>2 DEF WhenEmpty
      <4>2. ToldZero(b)'
        BY <1>3, <3>2, <4>1 DEF ToldZero
      <4> QED BY <4>1, <4>2 DEF Known
    <3>3. CASE latest[t] = NoVersion /\ req[t].api # "load"
      BY <2>3, <3>3 DEF WhenEmpty
    <3> QED BY <1>4, <2>3, <3>1, <3>2, <3>3
  <2> QED BY <1>0, <2>1, <2>2, <2>3, ReplyIs
<1> QED BY <1>3, <1>5 DEF Known, ToldZero, Versions

LEMMA NextContinues ==
  ASSUME HistoryInv, [Next]_vars, Version \subseteq Nat, FollowAnswers = TRUE, NEW t \in Task
  PROVE  Continues(t)'
<1>0. LogInv /\ StageInv /\ Stage(t) /\ Continues(t) /\ Course(t) /\ TypeOK
  BY EveryCourse DEF HistoryInv, AnswersInv, StageInv, LogInv
<1> SUFFICES ASSUME pc'[t] # "idle", Adds(req'[t]) # {}
             PROVE  \E base \in Nat \cup {-1} :
                      /\ \A i \in Adds(req'[t]) :
                           req'[t].updates[i].version =
                             base + Cardinality({j \in Adds(req'[t]) : j <= i})
                      /\ \A u \in Nat : u <= base + Cardinality(AddsBelow(req'[t], at'[t])) =>
                           u \in Known(TableOf(t))'
  BY DEF Continues
<1>1. CASE pc[t] = "idle"
  <2>1. PICK q \in Workload : Begins(t, q)
    BY <1>0, <1>1 DEF Course, Stays, Goes, Running
  <2>2. /\ req'[t] = q /\ at'[t] = 1 /\ log' = log /\ q.table \in Table /\ Follows(q)
    BY <1>0, <1>1, <2>1, RequestType DEF Begins, Call, Stage, bucket
  <2>3. PICK s \in Task :
          /\ answer[s] = "ok" /\ TableOf(s) = q.table
          /\ \A i \in Adds(q) :
               q.updates[i].version = reply[s] + Cardinality({j \in Adds(q) : j <= i})
    BY <2>2 DEF Follows
  <2>4. PICK b \in Table : b = q.table
    BY <2>2
  <2>5. reply[s] \in Known(b) \cup {-1} /\ Versions(b) \subseteq Nat
    <3>1. Versions(b) \subseteq Nat
      BY <1>0, Typed
    <3> QED BY <2>3, <2>4, <3>1 DEF HistoryInv, ToldVersion
  <2>6. \A u \in Nat : u <= reply[s] => u \in Known(b)
    <3>1. CASE reply[s] = -1
      BY <3>1
    <3>2. CASE reply[s] \in Versions(b)
      <4>1. 0..reply[s] \subseteq Known(b)
        BY <3>2 DEF HistoryInv, HistoryContiguous
      <4>2. \A u \in Nat : u <= reply[s] => u \in 0..reply[s]
        BY <2>5, <3>2
      <4> QED BY <4>1, <4>2
    <3>3. CASE reply[s] = 0 /\ ToldZero(b)
      <4>1. \A u \in Nat : u <= reply[s] => u = 0
        BY <3>3
      <4> QED BY <3>3, <4>1 DEF Known
    <3> QED BY <2>5, <3>1, <3>2, <3>3 DEF Known
  <2>7. Cardinality(AddsBelow(q, 1)) = 0
    BY <2>1, AddsCount
  <2>8. /\ reply[s] \in Nat \cup {-1} /\ TableOf(t)' = b /\ Known(b) \subseteq Known(b)'
        /\ \A u \in Nat : u <= reply[s] + 0 => u \in Known(b)
    BY <1>0, <2>2, <2>4, <2>5, <2>6, KnownGrows DEF Known, TableOf
  <2>9. Known(TableOf(t))' = Known(b)'
    BY <2>8 DEF Known, ToldZero, Versions
  <2> QED BY <2>2, <2>3, <2>7, <2>8, <2>9
<1>2. CASE pc[t] # "idle"
  <2>0. /\ req'[t] = req[t] /\ req[t] \in Workload /\ at[t] \in Nat \ {0}
        /\ Known(TableOf(t)) \subseteq Known(TableOf(t))'
    <3>1. PICK b \in Table : b = TableOf(t)
      BY <1>0, <1>2, UnderWay
    <3>2. req'[t] = req[t] /\ req[t] \in Workload /\ Known(b) \subseteq Known(b)'
      BY <1>0, <1>2, RequestStays, UnderWay, KnownGrows
    <3>3. Known(TableOf(t))' = Known(b)'
      BY <3>1, <3>2 DEF Known, ToldZero, Versions, TableOf
    <3> QED BY <1>0, <3>1, <3>2, <3>3 DEF TypeOK
  <2>1. PICK base \in Nat \cup {-1} :
          /\ \A i \in Adds(req[t]) :
               req[t].updates[i].version = base + Cardinality({j \in Adds(req[t]) : j <= i})
          /\ \A u \in Nat : u <= base + Cardinality(AddsBelow(req[t], at[t])) =>
               u \in Known(TableOf(t))
    BY <1>0, <1>2, <2>0 DEF Continues
  <2>2. CASE at'[t] = at[t]
    BY <2>0, <2>1, <2>2
  <2>3. CASE at'[t] # at[t]
    <3>1. /\ at'[t] = at[t] + 1
          /\ \/ MarkNothing(t)
             \/ Appended(t)
             \/ \E m \in inflight : AnswerTo(t, m) /\ (LandMark(m) \/ LandMeta(m))
      BY <1>0, <2>3 DEF Course, Stays, Begins
    <3>2. CASE at[t] \notin Adds(req[t])
      BY <2>0, <2>1, <3>1, <3>2, AddsCount
    <3>3. CASE at[t] \in Adds(req[t])
      <4>1. Current(t).op = "add"
        BY <3>3 DEF Adds, Current
      <4>2. Appended(t)
        BY <3>1, <4>1 DEF MarkNothing, AtUpdate, AnswerTo, LandMark, LandMeta, Waiting, UpdateOf, Current
      <4>3. Current(t).version \in Versions(TableOf(t))
        BY <1>0, <4>2 DEF Appended, LogInv, WritesSound
      <4>4. \A u \in Nat : u <= base + Cardinality(AddsBelow(req[t], at[t] + 1)) =>
              u \in Known(TableOf(t))
        BY <1>2, <2>1, <3>3, <4>3, NextToCommit
      <4> QED BY <2>0, <2>1, <3>1, <4>4
    <3> QED BY <3>2, <3>3
  <2> QED BY <2>2, <2>3
<1> QED BY <1>1, <1>2

\* While clients commit right above a version that a response named, the history
\* of every table starts at 0 and has no hole, whatever crashes, is resent or is
\* refused.  Only 0 itself can be missing, where load_table answered 0 for a table
\* without commits.  (update_table, load_table, commit, get_commits)
THEOREM HistoriesHaveNoHoles ==
  ASSUME FollowAnswers = TRUE, Version \subseteq Nat
  PROVE  Spec => []HistoryContiguous
<1>1. HistoryInv /\ [Next]_vars => HistoryInv'
  <2> SUFFICES ASSUME HistoryInv, [Next]_vars PROVE HistoryInv'
    OBVIOUS
  <2>1. AnswersInv' /\ StageInv'
    BY NextAnswers, NextStages DEF HistoryInv
  <2> QED BY <2>1, NextContiguous, NextContinues, NextTold DEF HistoryInv
<1>2. Init => HistoryInv
  <2> SUFFICES ASSUME Init PROVE HistoryInv
    OBVIOUS
  <2>1. AnswersInv /\ StageInv
    BY InitAnswers, InitStage
  <2>2. HistoryContiguous /\ \A t \in Task : Continues(t) /\ ToldVersion(t)
    BY DEF Init, HistoryContiguous, Continues, ToldVersion, Versions
  <2> QED BY <2>1, <2>2 DEF HistoryInv
<1>3. HistoryInv => HistoryContiguous
  BY DEF HistoryInv
<1> QED BY <1>1, <1>2, <1>3, PTL DEF Spec

-----------------------------------------------------------------------------
(* The objects of a log are the rows of a SQL table                        *)

Rows == [b \in Table |-> [v \in Versions(b) |-> RowOf(log[b][v])]]

Asks == [t \in Task |-> IF req[t] = NoRequest THEN NoTable ELSE TableOf(t)]

LEMMA SameRows ==
  ASSUME UNCHANGED <<log, req, top>>
  PROVE  UNCHANGED T!vars
BY DEF T!vars, Versions, TableOf

LEMMA AsksOf ==
  ASSUME LogInv, NEW t \in Task, pc[t] # "idle"
  PROVE  Asks[t] = TableOf(t) /\ TableOf(t) \in Table /\ TableOf(t) # NoTable
<1>1. req[t] \in Workload /\ TableOf(t) \in Table
  BY UnderWay
<1>2. req[t] # NoRequest /\ TableOf(t) # NoTable
  BY <1>1, DeltaAssumption
<1> QED BY <1>1, <1>2 DEF Asks

\* A request that comes in names its table.
LEMMA CallBegins ==
  ASSUME StageInv, NEW t \in Task, NEW q \in Workload, Call(t, q)
  PROVE  T!Begin(t, q.table)
<1>1. req[t] = NoRequest /\ req' = [req EXCEPT ![t] = q] /\ UNCHANGED <<log, top>> /\ TypeOK
  BY DEF StageInv, Stage, LogInv, Call, bucket
<1>2. q # NoRequest
  BY DeltaAssumption
<1>3. Rows' = Rows
  BY <1>1 DEF Rows, Versions
<1>4. Asks' = [Asks EXCEPT ![t] = q.table] /\ Asks[t] = NoTable
  BY <1>1, <1>2 DEF Asks, TableOf, TypeOK
<1>5. /\ Asks[t] = NoTable
      /\ Asks' = [Asks EXCEPT ![t] = q.table]
      /\ UNCHANGED <<Rows, top>>
  BY <1>1, <1>3, <1>4
<1> QED BY <1>5 DEF T!Begin, Rows, Asks

LEMMA RowsShape ==
  /\ Rows = [c \in Table |-> Rows[c]]
  /\ \A c \in Table : /\ DOMAIN Rows[c] = Versions(c)
                       /\ Rows[c] = [u \in Versions(c) |-> Rows[c][u]]
BY DEF Rows

LEMMA RowsShapeNext ==
  /\ Rows' = [c \in Table |-> Rows'[c]]
  /\ \A c \in Table : Rows'[c] = [u \in DOMAIN Rows'[c] |-> Rows'[c][u]]
BY DEF Rows

\* What a write does to the objects it does to the rows.
LEMMA WriteRows ==
  ASSUME LogInv, NEW m \in inflight, UpdateOf(m).op \in {"add", "mark"},
         UpdateOf(m).op = "add" => KeyIsFree(m), Write(m),
         NEW b \in Table, b = TableOf(m.task), NEW v, v = UpdateOf(m).version
  PROVE  /\ \A c \in Table \ {b} : Rows'[c] = Rows[c]
         /\ DOMAIN Rows[b] = Versions(b) /\ DOMAIN Rows'[b] = Versions(b) \cup {v}
         /\ Rows'[b][v] = RowOf(m.body)
         /\ \A u \in Versions(b) \ {v} : Rows'[b][u] = Rows[b][u]
<1>1. /\ log' = [log EXCEPT ![b] =
                   [u \in Versions(b) \cup {v} |-> IF u = v THEN m.body ELSE log[b][u]]]
      /\ DOMAIN log = Table
  BY DEF Write, LogInv, TypeOK
<1>2. /\ \A c \in Table : c # b => log'[c] = log[c]
      /\ log'[b] = [u \in Versions(b) \cup {v} |-> IF u = v THEN m.body ELSE log[b][u]]
  BY <1>1
<1>3. DOMAIN log'[b] = Versions(b) \cup {v}
  BY <1>2
<1>4. \A c \in Table : Rows'[c] = [u \in DOMAIN log'[c] |-> RowOf(log'[c][u])]
  BY DEF Rows, Versions
<1>5. Rows[b] = [u \in Versions(b) |-> RowOf(log[b][u])]
  BY DEF Rows
<1>6. Rows'[b] = [u \in Versions(b) \cup {v} |-> IF u = v THEN RowOf(m.body) ELSE Rows[b][u]]
  BY <1>2, <1>3, <1>4, <1>5
<1>7. \A c \in Table \ {b} : Rows'[c] = Rows[c]
  BY <1>2, <1>4 DEF Rows, Versions
<1> QED BY <1>5, <1>6, <1>7

\* The conditional PUT is the insert.
LEMMA CreateInserts ==
  ASSUME LogInv, NEW m \in inflight, LandAdd(m) \/ LandAddUnheard(m)
  PROVE  T!Insert(m.task, UpdateOf(m).version)
<1>1. /\ UpdateOf(m).op = "add" /\ KeyIsFree(m) /\ Write(m) /\ UNCHANGED <<req, top>>
  BY DEF LandAdd, LandAddUnheard, locals
<1>2. PICK t \in Task : t = m.task /\ pc[t] # "idle" /\ m.body = [by |-> t, step |-> m.step, flag |-> FALSE]
  BY <1>1, InFlight
<1>3. PICK b \in Table : b = TableOf(t) /\ Asks[t] = b /\ b # NoTable
  BY <1>2, AsksOf
<1>4. PICK v : v = UpdateOf(m).version /\ v \notin Versions(b)
  BY <1>1, <1>2, <1>3 DEF KeyIsFree
<1>5. RowOf(m.body) = [by |-> t, flag |-> FALSE]
  BY <1>2 DEF RowOf
<1>6. /\ \A c \in Table \ {b} : Rows'[c] = Rows[c]
      /\ DOMAIN Rows[b] = Versions(b) /\ DOMAIN Rows'[b] = Versions(b) \cup {v}
      /\ Rows'[b][v] = RowOf(m.body)
      /\ \A u \in Versions(b) \ {v} : Rows'[b][u] = Rows[b][u]
  <2>1. UpdateOf(m).op \in {"add", "mark"} /\ (UpdateOf(m).op = "add" => KeyIsFree(m)) /\ Write(m)
    BY <1>1
  <2>2. b = TableOf(m.task) /\ v = UpdateOf(m).version
    BY <1>2, <1>3, <1>4
  <2> QED BY <2>1, <2>2, WriteRows
<1>7. Rows' = [Rows EXCEPT ![b] = [u \in DOMAIN Rows[b] \cup {v} |->
                                     IF u = v THEN [by |-> t, flag |-> FALSE] ELSE Rows[b][u]]]
  <2>1. Rows'[b] = [u \in DOMAIN Rows[b] \cup {v} |->
                      IF u = v THEN [by |-> t, flag |-> FALSE] ELSE Rows[b][u]]
    BY <1>5, <1>6, RowsShapeNext
  <2> QED BY <1>6, <2>1, RowsShape, RowsShapeNext
<1>8. Asks' = Asks /\ top' = top
  BY <1>1 DEF Asks, TableOf
<1>9. /\ Asks[t] # NoTable
      /\ v \notin DOMAIN Rows[Asks[t]]
      /\ Rows' = [Rows EXCEPT ![Asks[t]] = [u \in DOMAIN @ \cup {v} |->
                                              IF u = v THEN [by |-> t, flag |-> FALSE] ELSE @[u]]]
      /\ UNCHANGED <<Asks, top>>
  BY <1>3, <1>4, <1>6, <1>7, <1>8
<1>10. T!Insert(t, v)
  BY <1>9 DEF T!Insert, Rows, Asks
<1> QED BY <1>2, <1>4, <1>10

\* A rewrite that lands marks the row, whatever it found when it was read.
LEMMA RewriteMarks ==
  ASSUME LogInv, NEW m \in inflight, LandMark(m)
  PROVE  \E b \in Table, v \in Version : T!MarkBackfilled(b, v)
<1>1. /\ UpdateOf(m).op = "mark" /\ Write(m) /\ UNCHANGED <<req, top>>
  BY DEF LandMark, Acknowledge
<1>2. PICK b \in Table, v \in Version :
        b = TableOf(m.task) /\ v = UpdateOf(m).version
  BY <1>1, InFlight
<1>a. /\ v \in Versions(b) /\ log[b][v] \in Body
      /\ m.body = [log[b][v] EXCEPT !.flag = TRUE]
  BY <1>1, <1>2, InFlight DEF TypeOK, Versions
<1>3. RowOf(m.body) = [RowOf(log[b][v]) EXCEPT !.flag = TRUE]
  <2>1. PICK x \in Body : x = log[b][v]
    BY <1>a
  <2>2. m.body = [x EXCEPT !.flag = TRUE]
    BY <1>a, <2>1
  <2>3. m.body.by = x.by /\ m.body.flag = TRUE
    BY <2>2 DEF Body
  <2>4. RowOf(m.body) = [by |-> x.by, flag |-> TRUE] /\ RowOf(x) = [by |-> x.by, flag |-> x.flag]
    BY <2>3 DEF RowOf
  <2> DEFINE Line == [by : Task, flag : BOOLEAN]
  <2>5. /\ RowOf(x) \in Line /\ [by |-> x.by, flag |-> TRUE] \in Line
    BY <2>4 DEF Body
  <2>6. PICK y \in Line : y = RowOf(x) /\ y.by = x.by
    BY <2>4, <2>5
  <2>7. [y EXCEPT !.flag = TRUE] = [by |-> x.by, flag |-> TRUE]
    <3>0. /\ [y EXCEPT !.flag = TRUE] \in Line
          /\ [y EXCEPT !.flag = TRUE].by = y.by /\ [y EXCEPT !.flag = TRUE].flag = TRUE
      OBVIOUS
    <3>1. PICK e \in Line : e = [y EXCEPT !.flag = TRUE] /\ e.by = y.by /\ e.flag = TRUE
      BY <3>0, Zenon
    <3>2. PICK z \in Line : z = [by |-> x.by, flag |-> TRUE] /\ z.by = x.by /\ z.flag = TRUE
      BY <2>5
    <3>3. e = z
      BY <2>6, <3>1, <3>2
    <3> QED BY <3>1, <3>2, <3>3
  <2> QED BY <2>1, <2>4, <2>6, <2>7
<1>4. /\ \A c \in Table \ {b} : Rows'[c] = Rows[c]
      /\ DOMAIN Rows[b] = Versions(b) /\ DOMAIN Rows'[b] = Versions(b) \cup {v}
      /\ Rows'[b][v] = RowOf(m.body)
      /\ \A u \in Versions(b) \ {v} : Rows'[b][u] = Rows[b][u]
  <2>1. UpdateOf(m).op \in {"add", "mark"} /\ (UpdateOf(m).op = "add" => KeyIsFree(m)) /\ Write(m)
    BY <1>1
  <2>2. b \in Table /\ b = TableOf(m.task)
    BY <1>2
  <2>3. PICK u : u = v /\ u = UpdateOf(m).version
    BY <1>2
  <2>4. /\ \A c \in Table \ {b} : Rows'[c] = Rows[c]
        /\ DOMAIN Rows[b] = Versions(b) /\ DOMAIN Rows'[b] = Versions(b) \cup {u}
        /\ Rows'[b][u] = RowOf(m.body)
        /\ \A w \in Versions(b) \ {u} : Rows'[b][w] = Rows[b][w]
    BY <2>1, <2>2, <2>3, WriteRows
  <2> QED BY <2>3, <2>4
<1>5. Rows[b] = [u \in Versions(b) |-> RowOf(log[b][u])]
  BY DEF Rows
<1>6. Versions(b) \cup {v} = Versions(b) /\ Rows[b][v] = RowOf(log[b][v])
  BY <1>a, <1>5
<1>7. Rows' = [Rows EXCEPT ![b][v].flag = TRUE]
  <2>1. Rows'[b] = [Rows[b] EXCEPT ![v] = [Rows[b][v] EXCEPT !.flag = TRUE]]
    BY <1>3, <1>4, <1>5, <1>6, RowsShape, RowsShapeNext
  <2> QED BY <1>4, <2>1, RowsShape, RowsShapeNext
<1>8. Asks' = Asks /\ top' = top /\ v \in DOMAIN Rows[b]
  BY <1>1, <1>a, <1>4 DEF Asks, TableOf
<1>9. /\ v \in DOMAIN Rows[b]
      /\ Rows' = [Rows EXCEPT ![b][v].flag = TRUE]
      /\ UNCHANGED <<Asks, top>>
  BY <1>7, <1>8
<1> QED BY <1>9 DEF T!MarkBackfilled, Rows, Asks

\* The last page of the listing is the query.
LEMMA LastPageQueries ==
  ASSUME AnswersInv, Version \subseteq Nat, NEW t \in Task, ListBeyond(t),
         Page(TableOf(t), cursor[t]) = {}
  PROVE  T!QueryHighest(t)
<1> DEFINE page == Page(TableOf(t), cursor[t])
           all == found[t] \cup page
           result == IF all = {} THEN cursor[t] ELSE MaxOf(all)
           here == Versions(TableOf(t))
<1>1. LogInv /\ pc[t] = "beyond" /\ here \subseteq Nat
  BY UnderWay, Typed DEF AnswersInv, ListBeyond
<1>2. top' = [top EXCEPT ![t] = result] /\ UNCHANGED <<log, req>>
  BY DEF ListBeyond, IsLast, bucket
<1>3. result \in here \cup {NoVersion} /\ \A v \in here : result # NoVersion /\ v <= result
  BY HighestFound
<1> HIDE DEF result, here
<1>5. Asks[t] = TableOf(t) /\ Asks[t] # NoTable /\ TableOf(t) \in Table
  BY <1>1, AsksOf
<1>6. PICK D : D = DOMAIN Rows[Asks[t]] /\ D = Versions(TableOf(t))
  BY <1>5 DEF Rows
<1>a. /\ D \subseteq Nat /\ result \in D \cup {NoVersion}
      /\ \A v \in D : result # NoVersion /\ v <= result
  BY <1>1, <1>3, <1>6 DEF here
<1>4. result = IF D = {} THEN NoVersion ELSE CHOOSE v \in D : \A u \in D : u <= v
  <2>1. CASE D = {}
    BY <1>a, <2>1
  <2>2. CASE D # {}
    <3>1. result \in D /\ \A u \in D : u <= result
      BY <1>a, <2>2
    <3>2. ASSUME NEW v \in D, \A u \in D : u <= v PROVE v = result
      <4>1. v \in Nat /\ result \in Nat /\ v <= result /\ result <= v
        BY <1>a, <3>1, <3>2
      <4> QED BY <4>1
    <3> QED BY <2>2, <3>1, <3>2
  <2> QED BY <2>1, <2>2
<1>7. Rows' = Rows /\ Asks' = Asks
  BY <1>2 DEF Rows, Asks, Versions, TableOf
<1>8. /\ Asks[t] # NoTable
      /\ top' = [top EXCEPT ![t] =
                   IF DOMAIN Rows[Asks[t]] = {} THEN NoVersion
                   ELSE CHOOSE v \in DOMAIN Rows[Asks[t]] :
                          \A u \in DOMAIN Rows[Asks[t]] : u <= v]
      /\ UNCHANGED <<Rows, Asks>>
  BY <1>2, <1>4, <1>5, <1>6, <1>7
<1> QED BY <1>8 DEF T!QueryHighest, Rows, Asks

LEMMA StepMaps ==
  ASSUME AnswersInv, StageInv, Version \subseteq Nat, [Next]_vars
  PROVE  [T!Next]_(T!vars)
<1>0. LogInv
  BY DEF AnswersInv
<1>1. ASSUME NEW t \in Task, NEW q \in Workload, Call(t, q) PROVE T!Next
  <2>1. q.table \in Table
    BY RequestType
  <2> QED BY <1>1, <2>1, CallBegins DEF T!Next
<1>2. ASSUME NEW t \in Task, ListBeyond(t) PROVE T!Next \/ UNCHANGED T!vars
  <2>1. CASE Page(TableOf(t), cursor[t]) = {}
    BY <1>2, <2>1, LastPageQueries DEF T!Next
  <2>2. CASE Page(TableOf(t), cursor[t]) # {}
    <3>1. UNCHANGED <<log, req, top>>
      BY <1>2, <2>2 DEF ListBeyond, IsLast, ListOn, bucket
    <3> QED BY <3>1, SameRows
  <2> QED BY <2>1, <2>2
<1>3. ASSUME NEW t \in Task, Step(t), ~ListBeyond(t) PROVE UNCHANGED T!vars
  <2>1. UNCHANGED <<log, req, top>>
    BY <1>3
       DEF Step, ReadHint, KeepHint, ListRange, ListOn, RejectAdd, SendAdd, MarkNothing,
           SendMark, SendMeta, Send, Appended, UpdatesDone, bucket, locals
  <2> QED BY <2>1, SameRows
<1>4. ASSUME NEW t \in Task, Abandon(t) PROVE UNCHANGED T!vars
  BY <1>4, SameRows DEF Abandon, bucket
<1>5. ASSUME NEW r \in Replica, Restart(r) PROVE UNCHANGED T!vars
  BY <1>5, SameRows DEF Restart, bucket
<1>6. ASSUME NEW m \in inflight, LandAdd(m) \/ LandAddUnheard(m) PROVE T!Next
  <2>1. m.task \in Task /\ UpdateOf(m).version \in Version
    BY <1>0, <1>6, InFlight DEF LandAdd, LandAddUnheard
  <2> QED BY <1>0, <1>6, <2>1, CreateInserts DEF T!Next
<1>7. ASSUME NEW m \in inflight, LandMark(m) PROVE T!Next
  BY <1>0, <1>7, RewriteMarks DEF T!Next
<1>8. ASSUME NEW m \in inflight, Refuse(m) \/ LandMeta(m) PROVE UNCHANGED T!vars
  <2>1. UNCHANGED <<log, req, top>>
    BY <1>8 DEF Refuse, LandMeta, Acknowledge
  <2> QED BY <2>1, SameRows
<1>9. CASE UNCHANGED vars
  BY <1>9, SameRows DEF vars, bucket, locals
<1> QED BY <1>1, <1>2, <1>3, <1>4, <1>5, <1>6, <1>7, <1>8, <1>9 DEF Next, Land

\* One object per commit and a listing from a hint that may be stale behave as a
\* SQL table with a unique version column and an atomic MAX, through restarts,
\* resent and late writes.  (delta_log.rs)
THEOREM LogIsTable ==
  ASSUME Version \subseteq Nat
  PROVE  Spec => ImplementsCommitTable
<1>1. Init => T!Init
  <2> SUFFICES ASSUME Init PROVE T!Init
    OBVIOUS
  <2>1. Rows = [b \in Table |-> [v \in {} |-> [by |-> NoTable, flag |-> FALSE]]]
    BY DEF Init, Rows, Versions
  <2>2. Asks = [t \in Task |-> NoTable]
    BY DEF Init, Asks
  <2>3. top = [t \in Task |-> NoVersion]
    BY DEF Init
  <2> QED BY <2>1, <2>2, <2>3 DEF T!Init, Rows, Asks
<1>2. AnswersInv /\ StageInv /\ [Next]_vars => AnswersInv' /\ StageInv' /\ [T!Next]_(T!vars)
  BY NextAnswers, NextStages, StepMaps
<1>3. Init => AnswersInv /\ StageInv
  BY InitAnswers, InitStage
<1> QED BY <1>1, <1>2, <1>3, PTL DEF Spec, T!Spec, ImplementsCommitTable

=============================================================================
