---------------------------- MODULE Objects_proofs ----------------------------
(***************************************************************************)
(* What the handlers of the catalog hierarchy keep true, for any number of *)
(* calls, objects, names and versions, and whatever steps follow each      *)
(* other.  The invariant says, besides the types, of every step that a     *)
(* call has yet to take what must be so for the step to be right when its  *)
(* turn comes (StepOK), and of every row how its staging table and its     *)
(* history agree (RowOK).  First come lemmas about the lists of steps and  *)
(* about lookups and pages, then, action by action, the types and the      *)
(* invariant, then the names and the theorems that follow.  The last part  *)
(* is about parents and roots (KinInv), with the same order.               *)
(***************************************************************************)
EXTENDS Objects, TLAPS, FiniteSetTheorems

-----------------------------------------------------------------------------
(* Calls                                                                   *)

Making == {"row", "stageRow"}

DropStep == {"dropParts", "dropProps", "dropRow"}

OpSteps(op) ==
  CASE op = "create" -> {"staged", "mark", "root", "row", "parts", "props", "grant", "link"}
    [] op = "stage" -> {"stageRow", "grant"}
    [] op = "rename" -> {"rename", "props"}
    [] op = "delete" -> {"empty", "list", "each"} \cup DropStep
    [] op = "addVersion" -> {"version", "max"}
    [] op = "dropVersion" -> {"dropVersion"}
    [] op = "list" -> {"page", "answer"}
    [] OTHER -> {}

\* The order of the steps about one object.
Rank(what) ==
  CASE what \in {"staged", "stageRow", "rename", "version", "dropParts"} -> 1
    [] what \in {"mark", "root", "max", "dropProps"} -> 2
    [] what \in {"row", "dropRow"} -> 3
    [] what = "parts" -> 4
    [] what = "props" -> 5
    [] what = "grant" -> 6
    [] what = "link" -> 7
    [] OTHER -> 0

Alone == {"look", "empty", "page", "answer", "dropVersion", "rename"}

\* Steps that no other step unfolds into.
Opening == Alone \cup {"version", "root"}

\* The steps of a call belong to its operation.
Regular(k) ==
  /\ k.n # None /\ k.req \in Requests /\ k.todo # <<>>
  /\ \A j \in DOMAIN k.todo :
       /\ k.todo[j][1] \in {"look"} \cup OpSteps(k.req.op)
       /\ k.todo[j][1] \in Alone => Len(k.todo) = 1
       /\ k.todo[j][1] = "version" => k.number # 0
       /\ k.todo[j][1] = "root" => j # Len(k.todo)

-----------------------------------------------------------------------------
(* The invariant                                                           *)

Has(s, x) == \E j \in DOMAIN s : s[j] = x

\* A call that was in flight together with n has written about i.
Overlaps(n, i) == \E x \in touched[i] : {x, n} \in met

\* An id that was given out, and that nothing has been made under.
Fresh(i) == note[i].kind = "none" /\ db.staging[i] = "none" /\ i < nextId

\* A step that makes row i: under an id of its own, or under that of a staging
\* table that was open when the call looked, and that it has committed.
MakerOK(k, j) ==
  LET i == k.todo[j][2]
  IN /\ \A l \in 1..(j - 1) : k.todo[l][1] \notin Making \cup {"grant"}
     /\ IF k.req.staged = None THEN Fresh(i)
        ELSE /\ i = k.req.staged
             /\ \/ k.todo[1][1] = "staged"
                \/ note[i].kind = "none"
                \/ {note[i].made, k.n} \in met
             /\ k.todo[1][1] \in {"staged", "mark"} \/ db.staging[i] = "committed"

\* A catalog that has the name a call goes by is the one it looked at, or got
\* the name meanwhile.
NamedOK(k, i) ==
  note[i].kind = "catalog" =>
    \A l \in Live(db) : Key(db.objs[l]) = <<"catalog", None, k.req.path[1]>> => l = i \/ Overlaps(k.n, l)

\* A listing has seen what comes before its token, and nothing twice.
PageOK(k, s) ==
  /\ s[2] = k.parent
  /\ \A l \in Under(db, k.parent, k.req.kind) :
       \/ Overlaps(k.n, l)
       \/ l \notin k.twice /\ (l \in k.seen <=> (s[1] = "answer" \/ db.objs[l].name <= k.after))

\* What a step says of the rows, wherever it stands in the list.
PlainOK(k, s) ==
  LET i == s[2]
  IN /\ s[1] = "look" => k.seen = {} /\ k.twice = {} /\ k.after = None
     /\ s[1] \in {"rename", "empty"} => note[i].kind = k.req.kind
     /\ s[1] = "dropRow" => note[i].kind # "none"
     /\ s[1] \in {"rename", "empty", "dropRow"} => NamedOK(k, i)
     /\ s[1] = "each" => \A l \in i : note[l].kind = s[3]
     /\ s[1] \in {"page", "answer"} => PageOK(k, s)

\* Staging tables are looked at and committed first, before the row.
PlaceOK(k, j) ==
  LET s == k.todo[j]
  IN /\ s[1] \in {"staged", "mark"} => j = 1 /\ s[2] = k.req.staged /\ Has(k.todo, <<"row", s[2]>>)
     /\ s[1] = "mark" => db.staging[s[2]] # "none"
     /\ s[1] \in Making => MakerOK(k, j)

StepOK(k, j) == PlainOK(k, k.todo[j]) /\ PlaceOK(k, j)

CallOK(k) == \A j \in DOMAIN k.todo : StepOK(k, j)

\* Someone who has committed staging table i goes on, or was stopped.
Pursued(i) ==
  \E x \in touched[i] : x \in cut \/ \E c \in Client : call[c].n = x /\ Has(call[c].todo, <<"row", i>>)

RowOK(i) ==
  /\ i \in Live(db) => note[i].kind = db.objs[i].kind
  /\ db.staging[i] # "none" => note[i].kind \in {"none", "table"}
  /\ db.staging[i] = "open" => note[i].kind = "none"
  /\ i >= nextId => note[i].kind = "none" /\ db.staging[i] = "none"
  /\ db.staging[i] = "committed" => note[i].kind = "table" \/ Pursued(i)
  /\ note[i].hit # None => Overlaps(note[i].hit, i)

\* Calls in flight together are known to be.
AllMet == \A c, d \in Client : c # d /\ call[c] # Idle /\ call[d] # Idle => {call[c].n, call[d].n} \in met

\* Two calls have not been given one id.
MakersDiffer ==
  \A c, d \in Client : c # d /\ Req(c).staged = None /\ Req(d).staged = None =>
    \A j \in DOMAIN call[c].todo, l \in DOMAIN call[d].todo :
      call[c].todo[j][1] \in Making /\ call[d].todo[l][1] \in Making => call[c].todo[j][2] # call[d].todo[l][2]

RowsInv ==
  /\ \A i \in Id : RowOK(i)
  /\ \A c \in Client : \A k \in {call[c]} : CallOK(k)
  /\ AllMet
  /\ MakersDiffer

-----------------------------------------------------------------------------
(* Lists of steps                                                          *)

\* A step that is done makes way for those it unfolds into.
LEMMA Shifted ==
  ASSUME NEW s \in Seq(Step), s # <<>>, NEW more \in Seq(Step), NEW t, t = more \o Tail(s)
  PROVE  /\ t \in Seq(Step) /\ Len(t) = Len(more) + Len(s) - 1
         /\ \A j \in DOMAIN more : j \in DOMAIN t /\ t[j] = more[j]
         /\ \A j \in DOMAIN s \ {1} : j + Len(more) - 1 \in DOMAIN t /\ t[j + Len(more) - 1] = s[j]
         /\ \A j \in DOMAIN t : \/ j \in DOMAIN more
                                \/ j - Len(more) + 1 \in DOMAIN s \ {1} /\ t[j] = s[j - Len(more) + 1]
<1>1. Tail(s) \in Seq(Step) /\ Len(Tail(s)) = Len(s) - 1 /\ \A j \in 1..(Len(s) - 1) : Tail(s)[j] = s[j + 1]
  OBVIOUS
<1>2. Len(s) \in Nat \ {0} /\ Len(more) \in Nat /\ DOMAIN s = 1..Len(s) /\ DOMAIN more = 1..Len(more)
  OBVIOUS
<1>3. t \in Seq(Step) /\ Len(t) = Len(more) + Len(Tail(s))
  BY <1>1
<1>4. DOMAIN t = 1..Len(t)
  BY <1>3
<1>5. \A j \in 1..Len(more) : t[j] = more[j]
  BY <1>1, <1>2
<1>6. \A j \in 1..(Len(s) - 1) : t[j + Len(more)] = Tail(s)[j]
  BY <1>1, <1>2
<1>7. ASSUME NEW j \in 2..Len(s) PROVE j + Len(more) - 1 \in 1..Len(t) /\ t[j + Len(more) - 1] = s[j]
  <2>1. j - 1 \in 1..(Len(s) - 1) /\ (j - 1) + Len(more) = j + Len(more) - 1 /\ (j - 1) + 1 = j
    BY <1>2
  <2>2. t[(j - 1) + Len(more)] = s[(j - 1) + 1]
    BY <2>1, <1>6, <1>1
  <2> QED BY <2>1, <2>2, <1>1, <1>2, <1>3
<1>8. ASSUME NEW j \in 1..Len(t), j \notin 1..Len(more)
      PROVE  j - Len(more) + 1 \in 2..Len(s) /\ t[j] = s[j - Len(more) + 1]
  <2>1. j - Len(more) + 1 \in 2..Len(s) /\ (j - Len(more) + 1) + Len(more) - 1 = j
    BY <1>1, <1>2, <1>3, <1>8
  <2> QED BY <2>1, <1>7
<1>9. DOMAIN s \ {1} = 2..Len(s)
  BY <1>2
<1> QED BY <1>2, <1>3, <1>4, <1>5, <1>7, <1>8, <1>9, SMTT(30)

\* Steps about one object, in the order of their ranks.
Chain(s, lo, hi, i) ==
  /\ s \in Seq(Single \X {i})
  /\ \A j \in DOMAIN s : lo <= Rank(s[j][1]) /\ Rank(s[j][1]) <= hi
  /\ \A j, l \in DOMAIN s : j < l => Rank(s[j][1]) < Rank(s[l][1])

LEMMA RankNat == \A w : Rank(w) \in Nat
BY DEF Rank

LEMMA OneChain ==
  ASSUME NEW w \in Single, NEW i, NEW r, r = Rank(w), NEW s, s = << <<w, i>> >>
  PROVE  Chain(s, r, r, i) /\ Has(s, <<w, i>>) /\ \A x : Has(s, x) => x = <<w, i>>
<1>1. s \in Seq(Single \X {i}) /\ DOMAIN s = {1} /\ s[1] = <<w, i>>
  OBVIOUS
<1> QED BY <1>1, RankNat DEF Chain, Has

LEMMA NoChain ==
  ASSUME NEW i, NEW r, NEW s, s = << >>
  PROVE  Chain(s, r, r, i) /\ \A x : ~Has(s, x)
BY DEF Chain, Has

LEMMA ConcatChain ==
  ASSUME NEW i, NEW lo \in Nat, NEW m \in Nat, NEW n \in Nat, NEW hi \in Nat, NEW s, NEW t,
         Chain(s, lo, m, i), Chain(t, n, hi, i), lo <= n, m < n, m <= hi
  PROVE  Chain(s \o t, lo, hi, i) /\ \A x : Has(s \o t, x) <=> Has(s, x) \/ Has(t, x)
<1>1. s \in Seq(Single \X {i}) /\ t \in Seq(Single \X {i}) /\ Len(s) \in Nat /\ Len(t) \in Nat
      /\ DOMAIN s = 1..Len(s) /\ DOMAIN t = 1..Len(t)
  BY DEF Chain
<1>2. PICK u : u = s \o t
  OBVIOUS
<1>3. u \in Seq(Single \X {i}) /\ Len(u) = Len(s) + Len(t) /\ DOMAIN u = 1..Len(u)
  BY <1>1, <1>2
<1>4. \A j \in 1..Len(s) : u[j] = s[j]
  BY <1>1, <1>2
<1>5. \A j \in 1..Len(t) : u[j + Len(s)] = t[j]
  BY <1>1, <1>2
<1>6. \A j \in 1..Len(u) : j \in 1..Len(s) \/ (j - Len(s) \in 1..Len(t) /\ u[j] = t[j - Len(s)])
  <2> SUFFICES ASSUME NEW j \in 1..Len(u), j \notin 1..Len(s)
               PROVE  j - Len(s) \in 1..Len(t) /\ u[j] = t[j - Len(s)]
    OBVIOUS
  <2>1. j - Len(s) \in 1..Len(t) /\ (j - Len(s)) + Len(s) = j
    BY <1>1, <1>3
  <2> QED BY <2>1, <1>5
<1>7. \A j \in DOMAIN u : Rank(u[j][1]) \in Nat /\ lo <= Rank(u[j][1]) /\ Rank(u[j][1]) <= hi
  <2> TAKE j \in DOMAIN u
  <2>0. Rank(u[j][1]) \in Nat
    BY RankNat
  <2>1. CASE j \in 1..Len(s)
    <3>1. lo <= Rank(u[j][1]) /\ Rank(u[j][1]) <= m
      BY <2>1, <1>1, <1>4 DEF Chain
    <3> QED BY <3>1, <2>0
  <2>2. CASE j \notin 1..Len(s)
    <3>1. n <= Rank(u[j][1]) /\ Rank(u[j][1]) <= hi
      BY <2>2, <1>1, <1>3, <1>6 DEF Chain
    <3> QED BY <3>1, <2>0
  <2> QED BY <2>1, <2>2
<1>8. ASSUME NEW j \in DOMAIN u, NEW l \in DOMAIN u, j < l PROVE Rank(u[j][1]) < Rank(u[l][1])
  <2>1. CASE l \in 1..Len(s)
    <3>1. j \in 1..Len(s)
      BY <2>1, <1>3, <1>8, <1>1
    <3> QED BY <2>1, <3>1, <1>4, <1>1, <1>8 DEF Chain
  <2>2. CASE j \in 1..Len(s) /\ l \notin 1..Len(s)
    <3>1. Rank(u[j][1]) <= m
      BY <2>2, <1>4, <1>1 DEF Chain
    <3>2. n <= Rank(u[l][1])
      BY <2>2, <1>6, <1>1, <1>3 DEF Chain
    <3> QED BY <3>1, <3>2, RankNat
  <2>3. CASE j \notin 1..Len(s) /\ l \notin 1..Len(s)
    <3>1. j - Len(s) \in 1..Len(t) /\ u[j] = t[j - Len(s)] /\ l - Len(s) \in 1..Len(t) /\ u[l] = t[l - Len(s)]
      BY <2>3, <1>6, <1>3
    <3>2. j - Len(s) < l - Len(s)
      BY <1>8, <1>1, <1>3
    <3> QED BY <3>1, <3>2, <1>1 DEF Chain
  <2> QED BY <2>1, <2>2, <2>3
<1>9. \A x : Has(u, x) <=> Has(s, x) \/ Has(t, x)
  <2> TAKE x
  <2>1. Has(u, x) => Has(s, x) \/ Has(t, x)
    BY <1>1, <1>3, <1>4, <1>6 DEF Has
  <2>2. Has(s, x) => Has(u, x)
    <3>1. 1..Len(s) \subseteq 1..Len(u)
      BY <1>1, <1>3
    <3> QED BY <1>1, <1>3, <1>4, <3>1 DEF Has
  <2>3. Has(t, x) => Has(u, x)
    <3>1. \A j \in 1..Len(t) : j + Len(s) \in 1..Len(u)
      BY <1>1, <1>3
    <3> QED BY <1>1, <1>3, <1>5, <3>1 DEF Has
  <2> QED BY <2>1, <2>2, <2>3
<1>10. Chain(u, lo, hi, i)
  BY <1>3, <1>7, <1>8 DEF Chain
<1> QED BY <1>2, <1>9, <1>10

\* What the handlers' lists hold.
LEMMA CreateStepsAre ==
  ASSUME NEW req, NEW i
  PROVE  /\ Chain(CreateSteps(req, i), 1, 7, i)
         /\ Has(CreateSteps(req, i), <<"row", i>>)
         /\ \A x : Has(CreateSteps(req, i), x) <=>
              \/ x = <<"staged", i>> /\ req.staged # None
              \/ x = <<"root", i>> /\ "managed" \in req.opts /\ req.staged = None
              \/ x = <<"row", i>>
              \/ x = <<"parts", i>> /\ "parts" \in req.opts
              \/ x = <<"props", i>> /\ "props" \in req.opts
              \/ x = <<"grant", i>> /\ "delta" \notin req.opts
              \/ x = <<"link", i>> /\ "delta" \notin req.opts
<1> DEFINE a == When(req.staged # None, <<"staged", i>>)
           b == When("managed" \in req.opts /\ req.staged = None, <<"root", i>>)
           r == When(TRUE, <<"row", i>>)
           p == When("parts" \in req.opts, <<"parts", i>>)
           q == When("props" \in req.opts, <<"props", i>>)
           g == When("delta" \notin req.opts, <<"grant", i>>)
           l == When("delta" \notin req.opts, <<"link", i>>)
<1>0. /\ Rank("staged") = 1 /\ Rank("root") = 2 /\ Rank("row") = 3 /\ Rank("parts") = 4 /\ Rank("props") = 5
      /\ Rank("grant") = 6 /\ Rank("link") = 7
      /\ {"staged", "root", "row", "parts", "props", "grant", "link"} \subseteq Single
  BY DEF Rank, Single
<1>1. Chain(a, 1, 1, i) /\ \A x : Has(a, x) <=> req.staged # None /\ x = <<"staged", i>>
  <2>1. CASE req.staged # None
    <3>1. a = << <<"staged", i>> >>
      BY <2>1 DEF When
    <3> HIDE DEF a
    <3> QED BY <1>0, <2>1, <3>1, OneChain
  <2>2. CASE ~(req.staged # None)
    <3>1. a = << >>
      BY <2>2 DEF When
    <3> HIDE DEF a
    <3> QED BY <1>0, <2>2, <3>1, NoChain
  <2> QED BY <2>1, <2>2
<1>2. Chain(b, 2, 2, i) /\ \A x : Has(b, x) <=> "managed" \in req.opts /\ req.staged = None /\ x = <<"root", i>>
  <2>1. CASE "managed" \in req.opts /\ req.staged = None
    <3>1. b = << <<"root", i>> >>
      BY <2>1 DEF When
    <3> HIDE DEF b
    <3> QED BY <1>0, <2>1, <3>1, OneChain
  <2>2. CASE ~("managed" \in req.opts /\ req.staged = None)
    <3>1. b = << >>
      BY <2>2 DEF When
    <3> HIDE DEF b
    <3> QED BY <1>0, <2>2, <3>1, NoChain
  <2> QED BY <2>1, <2>2
<1>3. Chain(r, 3, 3, i) /\ \A x : Has(r, x) <=> x = <<"row", i>>
  <2>1. r = << <<"row", i>> >>
    BY DEF When
  <2> HIDE DEF r
  <2> QED BY <1>0, <2>1, OneChain
<1>4. Chain(p, 4, 4, i) /\ \A x : Has(p, x) <=> "parts" \in req.opts /\ x = <<"parts", i>>
  <2>1. CASE "parts" \in req.opts
    <3>1. p = << <<"parts", i>> >>
      BY <2>1 DEF When
    <3> HIDE DEF p
    <3> QED BY <1>0, <2>1, <3>1, OneChain
  <2>2. CASE ~("parts" \in req.opts)
    <3>1. p = << >>
      BY <2>2 DEF When
    <3> HIDE DEF p
    <3> QED BY <1>0, <2>2, <3>1, NoChain
  <2> QED BY <2>1, <2>2
<1>5. Chain(q, 5, 5, i) /\ \A x : Has(q, x) <=> "props" \in req.opts /\ x = <<"props", i>>
  <2>1. CASE "props" \in req.opts
    <3>1. q = << <<"props", i>> >>
      BY <2>1 DEF When
    <3> HIDE DEF q
    <3> QED BY <1>0, <2>1, <3>1, OneChain
  <2>2. CASE ~("props" \in req.opts)
    <3>1. q = << >>
      BY <2>2 DEF When
    <3> HIDE DEF q
    <3> QED BY <1>0, <2>2, <3>1, NoChain
  <2> QED BY <2>1, <2>2
<1>6. Chain(g, 6, 6, i) /\ \A x : Has(g, x) <=> "delta" \notin req.opts /\ x = <<"grant", i>>
  <2>1. CASE "delta" \notin req.opts
    <3>1. g = << <<"grant", i>> >>
      BY <2>1 DEF When
    <3> HIDE DEF g
    <3> QED BY <1>0, <2>1, <3>1, OneChain
  <2>2. CASE ~("delta" \notin req.opts)
    <3>1. g = << >>
      BY <2>2 DEF When
    <3> HIDE DEF g
    <3> QED BY <1>0, <2>2, <3>1, NoChain
  <2> QED BY <2>1, <2>2
<1>7. Chain(l, 7, 7, i) /\ \A x : Has(l, x) <=> "delta" \notin req.opts /\ x = <<"link", i>>
  <2>1. CASE "delta" \notin req.opts
    <3>1. l = << <<"link", i>> >>
      BY <2>1 DEF When
    <3> HIDE DEF l
    <3> QED BY <1>0, <2>1, <3>1, OneChain
  <2>2. CASE ~("delta" \notin req.opts)
    <3>1. l = << >>
      BY <2>2 DEF When
    <3> HIDE DEF l
    <3> QED BY <1>0, <2>2, <3>1, NoChain
  <2> QED BY <2>1, <2>2
<1>8. CreateSteps(req, i) = a \o b \o r \o p \o q \o g \o l
  BY DEF CreateSteps, When
<1> HIDE DEF a, b, r, p, q, g, l
<1>12. Chain(a \o b, 1, 2, i) /\ \A x : Has(a \o b, x) <=> Has(a, x) \/ Has(b, x)
  BY <1>1, <1>2, ConcatChain
<1>13. Chain(a \o b \o r, 1, 3, i) /\ \A x : Has(a \o b \o r, x) <=> Has(a \o b, x) \/ Has(r, x)
  BY <1>12, <1>3, ConcatChain
<1>14. Chain(a \o b \o r \o p, 1, 4, i) /\ \A x : Has(a \o b \o r \o p, x) <=> Has(a \o b \o r, x) \/ Has(p, x)
  BY <1>13, <1>4, ConcatChain
<1>15. Chain(a \o b \o r \o p \o q, 1, 5, i)
       /\ \A x : Has(a \o b \o r \o p \o q, x) <=> Has(a \o b \o r \o p, x) \/ Has(q, x)
  BY <1>14, <1>5, ConcatChain
<1>16. Chain(a \o b \o r \o p \o q \o g, 1, 6, i)
       /\ \A x : Has(a \o b \o r \o p \o q \o g, x) <=> Has(a \o b \o r \o p \o q, x) \/ Has(g, x)
  BY <1>15, <1>6, ConcatChain
<1>17. Chain(a \o b \o r \o p \o q \o g \o l, 1, 7, i)
       /\ \A x : Has(a \o b \o r \o p \o q \o g \o l, x) <=> Has(a \o b \o r \o p \o q \o g, x) \/ Has(l, x)
  BY <1>16, <1>7, ConcatChain
<1> DEFINE steps == CreateSteps(req, i)
<1>18. Chain(steps, 1, 7, i)
  BY <1>8, <1>17
<1>19. \A x : Has(steps, x) <=> Has(a, x) \/ Has(b, x) \/ Has(r, x) \/ Has(p, x) \/ Has(q, x) \/ Has(g, x) \/ Has(l, x)
  BY <1>8, <1>12, <1>13, <1>14, <1>15, <1>16, <1>17, Zenon
<1> HIDE DEF steps
<1>20. \A x : Has(steps, x) <=>
              \/ x = <<"staged", i>> /\ req.staged # None
              \/ x = <<"root", i>> /\ "managed" \in req.opts /\ req.staged = None
              \/ x = <<"row", i>>
              \/ x = <<"parts", i>> /\ "parts" \in req.opts
              \/ x = <<"props", i>> /\ "props" \in req.opts
              \/ x = <<"grant", i>> /\ "delta" \notin req.opts
              \/ x = <<"link", i>> /\ "delta" \notin req.opts
  BY <1>19, <1>1, <1>2, <1>3, <1>4, <1>5, <1>6, <1>7, Zenon
<1>21. Has(steps, <<"row", i>>)
  BY <1>20
<1> QED BY <1>18, <1>20, <1>21 DEF steps

LEMMA Joined ==
  ASSUME NEW s \in Seq(Step), NEW t \in Seq(Step), NEW u, u = s \o t
  PROVE  /\ u \in Seq(Step) /\ Len(u) = Len(s) + Len(t)
         /\ \A j \in 1..Len(s) : u[j] = s[j]
         /\ \A j \in 1..Len(t) : u[j + Len(s)] = t[j]
<1>1. u \in Seq(Step) /\ Len(u) = Len(s) + Len(t)
  OBVIOUS
<1>2. \A j \in 1..Len(s) : u[j] = s[j]
  OBVIOUS
<1>3. \A j \in 1..Len(t) : u[j + Len(s)] = t[j]
  OBVIOUS
<1> QED BY <1>1, <1>2, <1>3

LEMMA DropStepsAre ==
  ASSUME NEW kind, NEW i \in Id, NEW s, s = DropSteps(kind, i)
  PROVE  /\ s \in Seq(Step)
         /\ kind = "table" => Len(s) = 3 /\ s[1] = <<"dropParts", i>> /\ s[2] = <<"dropProps", i>> /\ s[3] = <<"dropRow", i>>
         /\ kind # "table" => Len(s) = 2 /\ s[1] = <<"dropProps", i>> /\ s[2] = <<"dropRow", i>>
<1>0. <<"dropParts", i>> \in Step /\ <<"dropProps", i>> \in Step /\ <<"dropRow", i>> \in Step
  BY DEF Step, Single
<1>1. PICK t : t = << <<"dropProps", i>>, <<"dropRow", i>> >>
  OBVIOUS
<1>2. t \in Seq(Step) /\ Len(t) = 2 /\ t[1] = <<"dropProps", i>> /\ t[2] = <<"dropRow", i>>
  BY <1>0, <1>1
<1>3. CASE kind = "table"
  <2>1. PICK a : a = << <<"dropParts", i>> >>
    OBVIOUS
  <2>2. a \in Seq(Step) /\ Len(a) = 1 /\ a[1] = <<"dropParts", i>>
    BY <1>0, <2>1
  <2>3. s = a \o t
    BY <2>1, <1>1, <1>3 DEF DropSteps, When
  <2>4. /\ s \in Seq(Step) /\ Len(s) = Len(a) + Len(t)
        /\ \A j \in 1..Len(a) : s[j] = a[j]
        /\ \A j \in 1..Len(t) : s[j + Len(a)] = t[j]
    <3>1. a \in Seq(Step) /\ t \in Seq(Step)
      BY <2>2, <1>2
    <3> QED BY ONLY <3>1, <2>3, Joined
  <2>5. 1 \in 1..Len(a) /\ 1 \in 1..Len(t) /\ 2 \in 1..Len(t) /\ 1 + Len(a) = 2 /\ 2 + Len(a) = 3 /\ Len(a) + Len(t) = 3
    BY <2>2, <1>2
  <2>6. s[1] = a[1] /\ s[1 + Len(a)] = t[1] /\ s[2 + Len(a)] = t[2]
    BY <2>4, <2>5
  <2> QED BY <2>2, <2>4, <2>5, <2>6, <1>2, <1>3
<1>4. CASE kind # "table"
  <2>1. PICK a : a = << >>
    OBVIOUS
  <2>2. a \in Seq(Step) /\ Len(a) = 0
    BY <2>1
  <2>3. s = a \o t
    BY <2>1, <1>1, <1>4 DEF DropSteps, When
  <2>4. /\ s \in Seq(Step) /\ Len(s) = Len(a) + Len(t)
        /\ \A j \in 1..Len(t) : s[j + Len(a)] = t[j]
    <3>1. a \in Seq(Step) /\ t \in Seq(Step)
      BY <2>2, <1>2
    <3> QED BY ONLY <3>1, <2>3, Joined
  <2>5. 1 \in 1..Len(t) /\ 2 \in 1..Len(t) /\ 1 + Len(a) = 1 /\ 2 + Len(a) = 2 /\ Len(a) + Len(t) = 2
    BY <2>2, <1>2
  <2>6. s[1 + Len(a)] = t[1] /\ s[2 + Len(a)] = t[2]
    BY <2>4, <2>5
  <2> QED BY <2>4, <2>5, <2>6, <1>2, <1>4
<1> QED BY <1>3, <1>4

\* The drop of a catalog's or a schema's children, and then its own.
LEMMA ChildrenAre ==
  ASSUME NEW i \in Id, NEW s, s = Children(i)
  PROVE  /\ s \in Seq(Step) /\ Len(s) = 4
         /\ s[1] = <<"list", i, "table">> /\ s[2] = <<"list", i, "volume">>
         /\ s[3] = <<"list", i, "function">> /\ s[4] = <<"list", i, "model">>
<1>1. \A kind \in Leaves : <<"list", i, kind>> \in Step
  BY DEF Step, Below
<1>2. /\ <<"list", i, "table">> \in Step /\ <<"list", i, "volume">> \in Step
      /\ <<"list", i, "function">> \in Step /\ <<"list", i, "model">> \in Step
  BY <1>1 DEF Leaves
<1> QED BY <1>2 DEF Children

LEMMA CascadeStepsAre ==
  ASSUME NEW i \in Id, NEW kind, NEW s, s = CascadeSteps(kind, i)
  PROVE  /\ kind = "schema" =>
              /\ s \in Seq(Step) /\ Len(s) = 6
              /\ s[1] = <<"list", i, "table">> /\ s[2] = <<"list", i, "volume">>
              /\ s[3] = <<"list", i, "function">> /\ s[4] = <<"list", i, "model">>
              /\ s[5] = <<"dropProps", i>> /\ s[6] = <<"dropRow", i>>
         /\ kind = "table" =>
              /\ s \in Seq(Step) /\ Len(s) = 3
              /\ s[1] = <<"dropParts", i>> /\ s[2] = <<"dropProps", i>> /\ s[3] = <<"dropRow", i>>
         /\ kind \in {"volume", "function", "model"} => s \in Seq(Step) /\ Len(s) = 1 /\ s[1] = <<"dropRow", i>>
<1>1. <<"dropProps", i>> \in Step /\ <<"dropRow", i>> \in Step
  BY DEF Step, Single
<1>2. CASE kind = "schema"
  <2>1. PICK a : a = Children(i)
    OBVIOUS
  <2>2. a \in Seq(Step) /\ Len(a) = 4
        /\ a[1] = <<"list", i, "table">> /\ a[2] = <<"list", i, "volume">>
        /\ a[3] = <<"list", i, "function">> /\ a[4] = <<"list", i, "model">>
    BY <2>1, ChildrenAre
  <2>3. PICK t : t = << <<"dropProps", i>>, <<"dropRow", i>> >>
    OBVIOUS
  <2>4. t \in Seq(Step) /\ Len(t) = 2 /\ t[1] = <<"dropProps", i>> /\ t[2] = <<"dropRow", i>>
    BY <2>3, <1>1
  <2>5. s = a \o t
    BY <2>1, <2>3, <1>2 DEF CascadeSteps
  <2>6. /\ s \in Seq(Step) /\ Len(s) = Len(a) + Len(t)
        /\ \A j \in 1..Len(a) : s[j] = a[j]
        /\ \A j \in 1..Len(t) : s[j + Len(a)] = t[j]
    <3>1. a \in Seq(Step) /\ t \in Seq(Step)
      BY <2>2, <2>4
    <3> QED BY ONLY <3>1, <2>5, Joined
  <2>7. s[1] = a[1] /\ s[2] = a[2] /\ s[3] = a[3] /\ s[4] = a[4]
    BY <2>2, <2>6
  <2>8. s[1 + Len(a)] = t[1] /\ s[2 + Len(a)] = t[2] /\ 1 + Len(a) = 5 /\ 2 + Len(a) = 6 /\ Len(a) + Len(t) = 6
    BY <2>2, <2>4, <2>6
  <2> QED BY <1>2, <2>2, <2>4, <2>6, <2>7, <2>8
<1>3. CASE kind = "table"
  <2>1. s = DropSteps(kind, i)
    BY <1>3 DEF CascadeSteps
  <2> QED BY <2>1, <1>3, DropStepsAre
<1>4. CASE kind \in {"volume", "function", "model"}
  <2>1. s = << <<"dropRow", i>> >>
    BY <1>4 DEF CascadeSteps
  <2> QED BY <2>1, <1>1, <1>4
<1> QED BY <1>2, <1>3, <1>4

-----------------------------------------------------------------------------
(* The types                                                               *)

\* What becomes of a call whose step is done.
Done(k, more) == IF more \o Tail(k.todo) = << >> THEN Idle ELSE [k EXCEPT !.todo = more \o Tail(k.todo)]

Becomes(c, k) == call' = [call EXCEPT ![c] = k]

Busy(k) == k \in Call /\ Regular(k)

TInv == TypeOK /\ \A c \in Client : call[c] = Idle \/ Regular(call[c])

LEMMA IdleCall == Idle \in Call /\ Idle.n = None /\ Idle.todo = << >>
<1>1. << >> \in Seq(Step)
  OBVIOUS
<1>2. 0 \in 0..MaxVersion
  BY ObjectsAssumption
<1>3. Idle = [n |-> None, req |-> NoRequest, todo |-> << >>, parent |-> None, from |-> None,
              number |-> 0, seen |-> {}, twice |-> {}, after |-> None]
  BY DEF Idle
<1>4. NoRequest \in Requests \cup {NoRequest} /\ {} \in SUBSET Id
  OBVIOUS
<1> HIDE DEF Step, NoRequest, Id, None, Ordinal
<1> QED BY <1>1, <1>2, <1>3, <1>4 DEF Call

LEMMA Working ==
  ASSUME TInv, NEW c \in Client, call[c].todo # << >>
  PROVE  Busy(call[c]) /\ call[c] # Idle /\ call[c].n \in Ordinal /\ call[c].todo \in Seq(Step)
         /\ 1 \in DOMAIN call[c].todo /\ Head(call[c].todo) = call[c].todo[1] /\ call[c].todo[1] \in Step
<1>1. call[c] \in Call /\ (call[c] = Idle \/ Regular(call[c]))
  BY DEF TInv, TypeOK
<1>2. call[c] # Idle
  BY IdleCall
<1>3. call[c].todo \in Seq(Step) /\ call[c].n \in Ordinal \cup {None}
  BY <1>1 DEF Call
<1>4. call[c].n \in Ordinal
  BY <1>1, <1>2, <1>3 DEF Regular
<1> HIDE DEF Step, Call, Regular, Idle
<1>5. 1 \in DOMAIN call[c].todo /\ Head(call[c].todo) = call[c].todo[1] /\ call[c].todo[1] \in Step
  BY <1>3
<1> QED BY <1>1, <1>2, <1>3, <1>4, <1>5 DEF Busy

LEMMA CallOneChanges ==
  ASSUME call \in [Client -> Call], NEW c \in Client, NEW k \in Call, Becomes(c, k)
  PROVE  call' \in [Client -> Call] /\ call'[c] = k /\ \A d \in Client \ {c} : call'[d] = call[d]
BY DEF Becomes

LEMMA ProceedIs ==
  ASSUME TInv, NEW c \in Client, NEW more, Proceed(c, more)
  PROVE  Becomes(c, Done(call[c], more))
<1> DEFINE t == more \o Tail(call[c].todo)
<1>1. CASE t = << >>
  BY <1>1 DEF Proceed, Becomes, Done
<1>2. CASE t # << >>
  <2>1. call' = [call EXCEPT ![c].todo = t]
    BY <1>2 DEF Proceed
  <2> HIDE DEF t
  <2>2. call' = [call EXCEPT ![c] = [call[c] EXCEPT !.todo = t]]
    BY <2>1 DEF TInv, TypeOK
  <2> QED BY <1>2, <2>2 DEF Becomes, Done, t
<1> QED BY <1>1, <1>2

\* A step unfolds into steps of its own operation that need not be alone.
Suits(k, more) ==
  more \in Seq(Step) /\ \A j \in DOMAIN more : more[j][1] \in OpSteps(k.req.op) \ Opening

LEMMA DoneTyped ==
  ASSUME NEW k, Busy(k), NEW more, Suits(k, more), NEW l, l = Done(k, more)
  PROVE  /\ l \in Call /\ (l = Idle \/ Regular(l))
         /\ l # Idle => /\ l = [k EXCEPT !.todo = more \o Tail(k.todo)]
                        /\ l.todo = more \o Tail(k.todo)
                        /\ l.n = k.n /\ l.req = k.req /\ l.parent = k.parent /\ l.from = k.from /\ l.number = k.number
                        /\ l.seen = k.seen /\ l.twice = k.twice /\ l.after = k.after
<1> DEFINE t == more \o Tail(k.todo)
<1>1. k.todo \in Seq(Step) /\ k.todo # << >> /\ k \in Call
  BY DEF Busy, Regular, Call
<1>2. CASE t = << >>
  <2>1. l = Idle
    BY <1>2 DEF Done
  <2> QED BY <2>1, IdleCall
<1>3. CASE t # << >>
  <2>1. l = [k EXCEPT !.todo = t]
    BY <1>3 DEF Done
  <2>2. PICK u : u = t
    OBVIOUS
  <2>3. /\ u \in Seq(Step) /\ Len(u) = Len(more) + Len(k.todo) - 1
        /\ \A j \in DOMAIN u : \/ j \in DOMAIN more
                               \/ j - Len(more) + 1 \in DOMAIN k.todo \ {1} /\ u[j] = k.todo[j - Len(more) + 1]
        /\ \A j \in DOMAIN more : u[j] = more[j]
    BY <1>1, <2>2, Shifted DEF Suits
  <2> HIDE DEF t
  <2>4. l.todo = u /\ l.n = k.n /\ l.req = k.req /\ l.parent = k.parent /\ l.from = k.from /\ l.number = k.number
        /\ l.seen = k.seen /\ l.twice = k.twice /\ l.after = k.after
    BY <1>1, <2>1, <2>2 DEF Call
  <2>5. l \in Call
    <3> HIDE DEF Step
    <3> QED BY <1>1, <2>1, <2>2, <2>3 DEF Call
  <2>6. ASSUME NEW j \in DOMAIN k.todo \ {1}
        PROVE  k.todo[j][1] \in {"look"} \cup OpSteps(k.req.op) /\ k.todo[j][1] \notin Alone
               /\ (k.todo[j][1] = "version" => k.number # 0)
               /\ (k.todo[j][1] = "root" => j # Len(k.todo))
    <3>1. Len(k.todo) # 1
      <4> HIDE DEF Step
      <4> QED BY <1>1
    <3> QED BY <3>1 DEF Busy, Regular
  <2>7. ASSUME NEW j \in DOMAIN u
        PROVE  u[j][1] \in {"look"} \cup OpSteps(k.req.op) /\ u[j][1] \notin Alone
               /\ (u[j][1] = "version" => k.number # 0)
               /\ (u[j][1] = "root" => j # Len(u))
    <3>1. CASE j \in DOMAIN more
      BY <2>3, <3>1 DEF Suits, Opening
    <3>2. CASE j \notin DOMAIN more
      <4>1. j - Len(more) + 1 \in DOMAIN k.todo \ {1} /\ u[j] = k.todo[j - Len(more) + 1]
        BY <2>3, <3>2
      <4>2. j \in Nat /\ Len(more) \in Nat /\ Len(k.todo) \in Nat
        <5> HIDE DEF Step
        <5> QED BY <1>1, <2>3 DEF Suits
      <4>3. j - Len(more) + 1 # Len(k.todo) => j # Len(u)
        BY <2>3, <4>2
      <4> QED BY <2>6, <4>1, <4>3
    <3> QED BY <3>1, <3>2
  <2>8. Regular(l)
    BY <1>3, <2>2, <2>4, <2>7 DEF Busy, Regular
  <2> QED BY <1>3, <2>1, <2>2, <2>4, <2>5, <2>8 DEF t
<1> QED BY <1>2, <1>3

\* The step a call is at.
LEMMA AtStep ==
  ASSUME TInv, NEW c \in Client, NEW what, Doing(c, what)
  PROVE  /\ call[c].todo # << >> /\ call[c].todo[1][1] = what /\ On(c) = call[c].todo[1][2]
         /\ call[c].todo[1] \in Step /\ Busy(call[c])
         /\ what \in {"look"} \cup OpSteps(Req(c).op) /\ (what \in Alone => Len(call[c].todo) = 1)
         /\ what \in Single => On(c) \in Id
         /\ what \in {"page", "answer"} => On(c) \in Id \cup {None}
         /\ what = "list" => On(c) \in Id /\ call[c].todo[1][3] \in Below
         /\ what = "each" => On(c) \in SUBSET Id /\ call[c].todo[1][3] \in Below
<1>1. call[c].todo # << >> /\ Head(call[c].todo)[1] = what
  BY DEF Doing
<1>2. call[c].todo[1][1] = what /\ On(c) = call[c].todo[1][2] /\ call[c].todo[1] \in Step /\ Busy(call[c])
      /\ 1 \in DOMAIN call[c].todo
  BY <1>1, Working DEF On
<1>3. what \in {"look"} \cup OpSteps(Req(c).op) /\ (what \in Alone => Len(call[c].todo) = 1)
  BY <1>2 DEF Busy, Regular, Req
<1>4. PICK s : s = call[c].todo[1]
  OBVIOUS
<1>5. s \in Step /\ s[1] = what /\ On(c) = s[2]
  BY <1>2, <1>4
<1>6. /\ s[1] \in Single => s[2] \in Id
      /\ s[1] \in {"page", "answer"} => s[2] \in Id \cup {None}
      /\ s[1] = "list" => s[2] \in Id /\ s[3] \in Below
      /\ s[1] = "each" => s[2] \in SUBSET Id /\ s[3] \in Below
  BY <1>5 DEF Step, Single, Below
<1> QED BY <1>1, <1>2, <1>3, <1>4, <1>5, <1>6

-----------------------------------------------------------------------------
(* Lookups                                                                 *)

LEMMA LiveIs == \A d, i : i \in Live(d) <=> i \in Id /\ d.objs[i] # NoObject
BY DEF Live

\* What a lookup by name finds.
LEMMA FindIs ==
  ASSUME NEW d, NEW kind, NEW parent, NEW name, NEW i, i = Find(d, kind, parent, name)
  PROVE  /\ i # None => i \in Live(d) /\ d.objs[i].kind = kind /\ d.objs[i].parent = parent /\ d.objs[i].name = name
         /\ i = None => \A j \in Live(d) : ~(d.objs[j].kind = kind /\ d.objs[j].parent = parent /\ d.objs[j].name = name)
<1> DEFINE hits == {j \in Under(d, parent, kind) : d.objs[j].name = name}
<1>1. \A j : j \in hits <=> j \in Live(d) /\ d.objs[j].kind = kind /\ d.objs[j].parent = parent /\ d.objs[j].name = name
  BY DEF Under
<1>2. i = IF hits = {} THEN None ELSE CHOOSE j \in hits : TRUE
  BY DEF Find
<1> HIDE DEF hits
<1>3. \A j \in Live(d) : j # None
  BY LiveIs DEF Id, None
<1>4. CASE hits = {}
  BY <1>1, <1>2, <1>4
<1>5. CASE hits # {}
  <2>1. i \in hits
    BY <1>2, <1>5
  <2> QED BY <1>1, <1>3, <2>1
<1> QED BY <1>4, <1>5

LEMMA FindPathIs ==
  ASSUME NEW d, NEW kind \in Kinds, NEW path, NEW i, i = FindPath(d, kind, path), i # None
  PROVE  /\ i \in Live(d) /\ d.objs[i].kind = kind /\ d.objs[i].name = path[Depth(kind)]
         /\ kind = "catalog" => d.objs[i].parent = None
         /\ kind # "catalog" => /\ d.objs[i].parent = FindPath(d, ParentKind(kind), path)
                                /\ FindPath(d, ParentKind(kind), path) # None
<1> DEFINE cat == Find(d, "catalog", None, path[1])
           sch == IF cat = None THEN None ELSE Find(d, "schema", cat, path[2])
<1>1. /\ FindPath(d, "catalog", path) = cat /\ FindPath(d, "schema", path) = sch
      /\ \A k \in Leaves : FindPath(d, k, path) = IF sch = None THEN None ELSE Find(d, k, sch, path[3])
  BY DEF FindPath, Leaves
<1> HIDE DEF cat, sch
<1>2. CASE kind = "catalog"
  <2>1. i = cat
    BY <1>1, <1>2
  <2> QED BY <1>2, <2>1, FindIs DEF cat, Depth
<1>3. CASE kind = "schema"
  <2>1. i = sch
    BY <1>1, <1>3
  <2>2. cat # None /\ i = Find(d, "schema", cat, path[2])
    BY <2>1 DEF sch
  <2> QED BY <1>1, <1>3, <2>2, FindIs DEF Depth, ParentKind
<1>4. CASE kind \in Leaves
  <2>1. sch # None /\ i = Find(d, kind, sch, path[3])
    BY <1>1, <1>4
  <2>2. kind \notin {"catalog", "schema"}
    BY <1>4 DEF Leaves
  <2> QED BY <1>1, <1>4, <2>1, <2>2, FindIs DEF Depth, ParentKind
<1> QED BY <1>2, <1>3, <1>4 DEF Kinds

LEMMA FindPathType == \A d, path : \A kind \in Kinds : FindPath(d, kind, path) \in Id \cup {None}
<1> TAKE d, path
<1> TAKE kind \in Kinds
<1>1. PICK i : i = FindPath(d, kind, path)
  OBVIOUS
<1> QED BY <1>1, FindPathIs, LiveIs

LEMMA RootOfType == \A d, path : RootOf(d, path) \in Id \cup {None}
BY FindPathType DEF RootOf, Kinds

-----------------------------------------------------------------------------

Lands(c) == \E k \in Call : Becomes(c, k) /\ (k = Idle \/ Regular(k))

RowsTyped == db' \in Database /\ touched' \in [Id -> SUBSET Ordinal] /\ note' \in [Id -> Notes] /\ cut' \subseteq Ordinal

LEMMA NoneNot == \A i \in Id : i # None
BY DEF Id, None

\* What a note keeps when only what is wanted changes.
LEMMA OnlyWants ==
  ASSUME NEW old \in Notes, NEW new, new = old \/ \E W : new = [old EXCEPT !.wants = W]
  PROVE  new.kind = old.kind /\ new.made = old.made /\ new.hit = old.hit /\ new.gone = old.gone
<1>1. ASSUME NEW W, new = [old EXCEPT !.wants = W]
      PROVE  new.kind = old.kind /\ new.made = old.made /\ new.hit = old.hit /\ new.gone = old.gone
  BY ONLY <1>1, old \in Notes DEF Notes
<1> QED BY <1>1

LEMMA WriteTyped ==
  ASSUME TInv, NEW c \in Client, call[c].todo # << >>, NEW d \in Database, NEW ids, Write(c, d, ids)
  PROVE  db' \in Database /\ touched' \in [Id -> SUBSET Ordinal]
<1>1. call[c].n \in Ordinal
  BY Working
<1> HIDE DEF Ordinal, Id
<1> QED BY <1>1 DEF Write, TInv, TypeOK

LEMMA UnwrittenTyped == ASSUME TInv, Unwritten, UNCHANGED cut PROVE RowsTyped
BY DEF TInv, TypeOK, Unwritten, RowsTyped

LEMMA ProceedLands ==
  ASSUME TInv, NEW c \in Client, call[c].todo # << >>, NEW more, Suits(call[c], more), Proceed(c, more)
  PROVE  Lands(c)
<1>1. PICK l : l = Done(call[c], more)
  OBVIOUS
<1>2. l \in Call /\ (l = Idle \/ Regular(l))
  BY <1>1, Working, DoneTyped
<1>3. Becomes(c, l)
  BY <1>1, ProceedIs
<1> QED BY <1>2, <1>3 DEF Lands

LEMMA SuitsNone == \A k : Suits(k, << >>)
BY DEF Suits

LEMMA LastStepLands ==
  ASSUME TInv, NEW c \in Client, call[c].todo # << >>, Proceed(c, << >>)
  PROVE  Lands(c)
BY SuitsNone, ProceedLands

LEMMA FailsLands ==
  ASSUME TInv, NEW c \in Client, call[c].todo # << >>, Fails(c)
  PROVE  Lands(c) /\ RowsTyped
<1>1. call[c].n \in Ordinal
  BY Working
<1>2. RowsTyped
  BY <1>1 DEF Fails, Unwritten, TInv, TypeOK, RowsTyped
<1>3. Becomes(c, Idle)
  BY DEF Fails, Becomes
<1> QED BY <1>2, <1>3, IdleCall DEF Lands

-----------------------------------------------------------------------------
(* The types: commits and reads                                            *)

LEMMA OneMore ==
  ASSUME NEW k, NEW s \in Step, s[1] \in OpSteps(k.req.op) \ Opening
  PROVE  Suits(k, <<s>>)
<1>1. PICK more : more = <<s>>
  OBVIOUS
<1>2. more \in Seq(Step) /\ DOMAIN more = {1} /\ more[1] = s
  BY <1>1
<1> QED BY <1>1, <1>2 DEF Suits

LEMMA SuitsEmpty == ASSUME NEW k, NEW more, more = << >> PROVE Suits(k, more)
BY SuitsNone

Typed(c) == Lands(c) /\ RowsTyped

\* A commit of something that hangs on a row, the last step or not.
LEMMA CommitTyped ==
  ASSUME TInv, NEW c \in Client, call[c].todo # << >>, NEW d \in Database, NEW ids,
         Write(c, d, ids), Proceed(c, << >>), UNCHANGED cut, note' \in [Id -> Notes]
  PROVE  Typed(c)
BY WriteTyped, LastStepLands DEF RowsTyped, TInv, TypeOK, Typed

LEMMA StagedTableTyped == ASSUME TInv, NEW c \in Client, StagedTable(c) PROVE Typed(c)
<1>0. call[c].todo # << >> /\ On(c) \in Id /\ "staged" \in {"look"} \cup OpSteps(Req(c).op)
  BY AtStep DEF StagedTable, Single
<1>1. CASE Fails(c)
  BY <1>0, <1>1, FailsLands DEF Typed
<1>2. CASE Proceed(c, << <<"mark", On(c)>> >>) /\ Unwritten /\ UNCHANGED cut
  <2>1. <<"mark", On(c)>> \in Step
    BY <1>0 DEF Step, Single
  <2>2. "mark" \in OpSteps(call[c].req.op) \ Opening
    BY <1>0 DEF OpSteps, Opening, Alone, Req, DropStep
  <2>3. Suits(call[c], << <<"mark", On(c)>> >>)
    <3>1. PICK s \in Step : s = <<"mark", On(c)>> /\ s[1] = "mark"
      BY <2>1
    <3>2. s[1] \in OpSteps(call[c].req.op) \ Opening
      BY <2>2, <3>1
    <3>3. Suits(call[c], <<s>>)
      BY ONLY <3>2, s \in Step, OneMore
    <3> QED BY <3>1, <3>3
  <2> QED BY <1>0, <1>2, <2>3, ProceedLands, UnwrittenTyped DEF Typed
<1> QED BY <1>1, <1>2 DEF StagedTable

LEMMA Databases ==
  ASSUME TInv, NEW i \in Id
  PROVE  /\ \A v \in {"none", "open", "committed"} : [db EXCEPT !.staging[i] = v] \in Database
         /\ [db EXCEPT !.parts = @ \cup {i}] \in Database
         /\ [db EXCEPT !.parts = @ \ {i}] \in Database
         /\ [db EXCEPT !.props = @ \cup {i}] \in Database
         /\ [db EXCEPT !.props = @ \ {i}] \in Database
         /\ [db EXCEPT !.owners = @ \cup {i}] \in Database
         /\ \A p \in Id \cup {None} : [db EXCEPT !.links = @ \cup {<<i, p>>}] \in Database
         /\ \A v \in Version : [db EXCEPT !.versions = @ \cup {v}] \in Database
         /\ \A S : [db EXCEPT !.versions = {v \in @ : S[v]}] \in Database
         /\ \A row \in Object \cup {NoObject} : [db EXCEPT !.objs = [@ EXCEPT ![i] = row]] \in Database
<1>1. db \in Database
  BY DEF TInv, TypeOK
<1> HIDE DEF Object, NoObject, Version, Id, None
<1>2. /\ \A v \in {"none", "open", "committed"} : [db EXCEPT !.staging[i] = v] \in Database
      /\ [db EXCEPT !.parts = @ \cup {i}] \in Database
      /\ [db EXCEPT !.parts = @ \ {i}] \in Database
      /\ [db EXCEPT !.props = @ \cup {i}] \in Database
  BY <1>1 DEF Database
<1>3. /\ [db EXCEPT !.props = @ \ {i}] \in Database
      /\ [db EXCEPT !.owners = @ \cup {i}] \in Database
      /\ \A p \in Id \cup {None} : [db EXCEPT !.links = @ \cup {<<i, p>>}] \in Database
  BY <1>1 DEF Database
<1>4. /\ \A v \in Version : [db EXCEPT !.versions = @ \cup {v}] \in Database
      /\ \A S : [db EXCEPT !.versions = {v \in @ : S[v]}] \in Database
      /\ \A row \in Object \cup {NoObject} : [db EXCEPT !.objs = [@ EXCEPT ![i] = row]] \in Database
  BY <1>1 DEF Database
<1> QED BY <1>2, <1>3, <1>4

LEMMA NoteTyped ==
  ASSUME TInv, NEW i \in Id
  PROVE  /\ \A W \in SUBSET {"parts", "props", "owner"} : [note EXCEPT ![i]["wants"] = W] \in [Id -> Notes]
         /\ note[i].wants \in SUBSET {"parts", "props", "owner"}
         /\ note[i].kind \in Kinds \cup {"none"}
<1>1. note \in [Id -> Notes] /\ note[i] \in Notes
  BY DEF TInv, TypeOK
<1>2. note[i].wants \in SUBSET {"parts", "props", "owner"} /\ note[i].kind \in Kinds \cup {"none"}
  BY <1>1 DEF Notes
<1>3. ASSUME NEW W \in SUBSET {"parts", "props", "owner"} PROVE [note EXCEPT ![i]["wants"] = W] \in [Id -> Notes]
  <2>1. [note[i] EXCEPT !["wants"] = W] \in Notes
    <3> HIDE DEF Kinds, Ordinal, None
    <3> QED BY <1>1 DEF Notes
  <2> QED BY <1>1, <2>1
<1> QED BY <1>2, <1>3

LEMMA SimpleTyped ==
  ASSUME TInv, NEW c \in Client,
         \/ MarkCommitted(c) \/ StageRow(c) \/ AddParts(c) \/ SetProps(c) \/ LinkChild(c)
         \/ DropParts(c) \/ DropProps(c)
  PROVE  Typed(c)
<1>1. call[c].todo # << >> /\ On(c) \in Id
  BY AtStep DEF MarkCommitted, StageRow, AddParts, SetProps, LinkChild, DropParts, DropProps, Single
<1>2. call[c].parent \in Id \cup {None}
  BY DEF TInv, TypeOK, Call
<1>3. CASE SetProps(c)
  <2>1. Write(c, [db EXCEPT !.props = @ \cup {On(c)}], {On(c)}) /\ Proceed(c, << >>) /\ UNCHANGED cut
        /\ note' = [note EXCEPT ![On(c)]["wants"] = note[On(c)].wants \cup {"props"}]
    BY <1>3 DEF SetProps, Note
  <2>2. note[On(c)].wants \cup {"props"} \in SUBSET {"parts", "props", "owner"}
    BY <1>1, NoteTyped
  <2>3. note' \in [Id -> Notes]
    BY <1>1, <2>1, <2>2, NoteTyped
  <2> QED BY <1>1, <2>1, <2>3, Databases, CommitTyped
<1>4. ASSUME ~SetProps(c)
      PROVE  note' \in [Id -> Notes] /\ UNCHANGED cut /\ Proceed(c, << >>)
             /\ \E d \in Database : \E ids : Write(c, d, ids)
  <2>1. note' \in [Id -> Notes] /\ UNCHANGED cut /\ Proceed(c, << >>)
    BY <1>4 DEF MarkCommitted, StageRow, AddParts, LinkChild, DropParts, DropProps, TInv, TypeOK
  <2>2. \/ Write(c, [db EXCEPT !.staging[On(c)] = "committed"], {On(c)})
        \/ Write(c, [db EXCEPT !.staging[On(c)] = "open"], {On(c)})
        \/ Write(c, [db EXCEPT !.parts = @ \cup {On(c)}], {On(c)})
        \/ Write(c, [db EXCEPT !.links = @ \cup {<<On(c), call[c].parent>>}], {On(c)})
        \/ Write(c, [db EXCEPT !.parts = @ \ {On(c)}], {On(c)})
        \/ Write(c, [db EXCEPT !.props = @ \ {On(c)}], {On(c)})
    BY <1>4 DEF MarkCommitted, StageRow, AddParts, LinkChild, DropParts, DropProps
  <2> QED BY <1>1, <1>2, <2>1, <2>2, Databases
<1> QED BY <1>1, <1>3, <1>4, CommitTyped

-----------------------------------------------------------------------------
(* Pages                                                                   *)

\* A finite set of names has a last and a first one: among the sets of those
\* from one name on, and of those up to one, one has no other inside.
LEMMA GreatestIs ==
  ASSUME NEW S \in SUBSET Nat, IsFiniteSet(S), S # {}
  PROVE  LastOf(S) \in S /\ \A m \in S : m <= LastOf(S)
<1> DEFINE from(i) == {j \in S : i <= j}
           T == {from(i) : i \in S}
<1>1. T \subseteq FiniteSubsetsOf(S) /\ T # {}
  <2>1. \A U \in SUBSET S : IsFiniteSet(U)
    BY FS_Subset
  <2> QED BY <2>1 DEF FiniteSubsetsOf
<1>2. PICK x \in T : \A y \in T : ~(<<y, x>> \in StrictSubsetOrdering(S))
  <2> HIDE DEF T
  <2> QED BY <1>1, FS_StrictSubsetOrderingWellFounded, WFMin
<1>3. PICK i \in S : x = from(i)
  BY <1>2
<1>4. ASSUME NEW j \in S, ~(j <= i)
      PROVE  FALSE
  <2>1. i \in Nat /\ j \in Nat /\ i < j
    BY <1>4
  <2>2. from(j) \subseteq from(i)
    <3> SUFFICES ASSUME NEW k \in S, j <= k
                 PROVE  i <= k
      OBVIOUS
    <3>1. k \in Nat
      OBVIOUS
    <3> QED BY <2>1, <3>1
  <2>3. i \notin from(j) /\ i \in from(i)
    BY <2>1
  <2>4. from(j) # from(i) /\ from(j) \in T /\ from(j) \in SUBSET S /\ from(i) \in SUBSET S
    BY <2>3
  <2> HIDE DEF from, T
  <2> QED BY <1>2, <1>3, <2>2, <2>4 DEF StrictSubsetOrdering
<1> QED BY <1>4 DEF LastOf

LEMMA LeastIs ==
  ASSUME NEW S \in SUBSET Nat, IsFiniteSet(S), S # {}
  PROVE  \E i \in S : \A m \in S : i <= m
<1> DEFINE upTo(i) == {j \in S : j <= i}
           T == {upTo(i) : i \in S}
<1>1. T \subseteq FiniteSubsetsOf(S) /\ T # {}
  <2>1. \A U \in SUBSET S : IsFiniteSet(U)
    BY FS_Subset
  <2> QED BY <2>1 DEF FiniteSubsetsOf
<1>2. PICK x \in T : \A y \in T : ~(<<y, x>> \in StrictSubsetOrdering(S))
  <2> HIDE DEF T
  <2> QED BY <1>1, FS_StrictSubsetOrderingWellFounded, WFMin
<1>3. PICK i \in S : x = upTo(i)
  BY <1>2
<1>4. ASSUME NEW j \in S, ~(i <= j)
      PROVE  FALSE
  <2>1. i \in Nat /\ j \in Nat /\ j < i
    BY <1>4
  <2>2. upTo(j) \subseteq upTo(i)
    <3> SUFFICES ASSUME NEW k \in S, k <= j
                 PROVE  k <= i
      OBVIOUS
    <3>1. k \in Nat
      OBVIOUS
    <3> QED BY <2>1, <3>1
  <2>3. i \notin upTo(j) /\ i \in upTo(i)
    BY <2>1
  <2>4. upTo(j) # upTo(i) /\ upTo(j) \in T /\ upTo(j) \in SUBSET S /\ upTo(i) \in SUBSET S
    BY <2>3
  <2> HIDE DEF upTo, T
  <2> QED BY <1>2, <1>3, <2>2, <2>4 DEF StrictSubsetOrdering
<1> QED BY <1>4

Smaller(S, n) == {m \in S : m < n}

LEMMA SmallerFinite ==
  ASSUME NEW S, IsFiniteSet(S), NEW n
  PROVE  IsFiniteSet(Smaller(S, n)) /\ Cardinality(Smaller(S, n)) \in Nat
BY FS_Subset, FS_CardinalityType DEF Smaller

\* The first k of a set: whoever is smaller than one of them is one of them.
LEMMA FirstOfIs ==
  ASSUME NEW S \in SUBSET Nat, IsFiniteSet(S), NEW k \in Nat
  PROVE  /\ FirstOf(S, k) \subseteq S /\ IsFiniteSet(FirstOf(S, k))
         /\ \A n \in S : n \in FirstOf(S, k) <=> Cardinality(Smaller(S, n)) < k
         /\ \A n \in FirstOf(S, k), m \in S : m < n => m \in FirstOf(S, k)
         /\ k > 0 /\ S # {} => FirstOf(S, k) # {}
<1>1. FirstOf(S, k) \subseteq S /\ \A n \in S : n \in FirstOf(S, k) <=> Cardinality(Smaller(S, n)) < k
  BY DEF FirstOf, Smaller
<1>2. IsFiniteSet(FirstOf(S, k))
  BY <1>1, FS_Subset
<1>3. ASSUME NEW n \in FirstOf(S, k), NEW m \in S, m < n PROVE m \in FirstOf(S, k)
  <2>1. n \in Nat /\ m \in Nat
    BY <1>1
  <2>2. Smaller(S, m) \subseteq Smaller(S, n)
    <3> SUFFICES ASSUME NEW x \in S, x < m PROVE x < n
      BY DEF Smaller
    <3>1. x \in Nat
      OBVIOUS
    <3> QED BY <2>1, <3>1, <1>3
  <2>3. Cardinality(Smaller(S, m)) <= Cardinality(Smaller(S, n))
    BY <2>2, SmallerFinite, FS_Subset
  <2>4. Cardinality(Smaller(S, m)) \in Nat /\ Cardinality(Smaller(S, n)) \in Nat /\ Cardinality(Smaller(S, n)) < k
    BY <1>1, SmallerFinite
  <2> QED BY <1>1, <2>3, <2>4
<1>4. ASSUME k > 0, S # {} PROVE FirstOf(S, k) # {}
  <2>1. PICK i \in S : \A m \in S : i <= m
    BY <1>4, LeastIs
  <2>2. Smaller(S, i) = {}
    <3> SUFFICES ASSUME NEW x \in S, x < i PROVE FALSE
      BY DEF Smaller
    <3>1. x \in Nat /\ i \in Nat /\ i <= x
      BY <2>1
    <3> QED BY <3>1
  <2> QED BY <1>1, <1>4, <2>2, FS_EmptySet
<1> QED BY <1>1, <1>2, <1>3, <1>4

\* What is cut off the over-fetched rows are the first ones of all, and rows
\* that all fit are all there are.
LEMMA PageIs ==
  ASSUME NEW S \in SUBSET Nat, IsFiniteSet(S), NEW F, F = FirstOf(S, PageSize + 1)
  PROVE  PageOf(F) = FirstOf(S, PageSize) /\ (PageOf(F) = F => F = S)
<1>0. PageSize \in Nat /\ PageSize > 0 /\ PageSize + 1 \in Nat
  BY ObjectsAssumption
<1>1. /\ F \subseteq S /\ IsFiniteSet(F)
      /\ \A n \in S : n \in F <=> Cardinality(Smaller(S, n)) < PageSize + 1
      /\ \A n \in F, m \in S : m < n => m \in F
  BY <1>0, FirstOfIs
<1>2. \A n \in F : Smaller(F, n) = Smaller(S, n)
  BY <1>1 DEF Smaller
<1>3. \A n : n \in PageOf(F) <=> n \in F /\ Cardinality(Smaller(F, n)) < PageSize
  BY DEF PageOf, FirstOf, Smaller
<1>4. \A n \in S : Cardinality(Smaller(S, n)) \in Nat
  BY SmallerFinite
<1>5. \A n : n \in PageOf(F) <=> n \in FirstOf(S, PageSize)
  <2> TAKE n
  <2>1. n \in PageOf(F) <=> n \in F /\ Cardinality(Smaller(S, n)) < PageSize
    BY <1>2, <1>3
  <2>2. n \in FirstOf(S, PageSize) <=> n \in S /\ Cardinality(Smaller(S, n)) < PageSize
    BY <1>0, FirstOfIs
  <2>3. n \in S /\ Cardinality(Smaller(S, n)) < PageSize => n \in F
    BY <1>0, <1>1, <1>4
  <2> QED BY <2>1, <2>2, <2>3, <1>1
<1>6. ASSUME PageOf(F) = F, F # S PROVE FALSE
  <2>1. S \ F # {} /\ S \ F \in SUBSET Nat /\ IsFiniteSet(S \ F)
    BY <1>1, <1>6, FS_Subset
  <2>2. PICK n \in S \ F : \A m \in S \ F : n <= m
    BY <2>1, LeastIs
  <2>3. Smaller(S, n) = F
    <3>1. ASSUME NEW m \in S, m < n, m \notin F PROVE FALSE
      <4>1. n <= m /\ m \in Nat /\ n \in Nat
        BY <2>2, <3>1
      <4> QED BY <4>1, <3>1
    <3>2. ASSUME NEW m \in F, ~(m < n) PROVE FALSE
      <4>1. m \in Nat /\ n \in Nat /\ m # n
        BY <2>2, <1>1
      <4>2. n < m
        BY <4>1, <3>2
      <4> QED BY <4>2, <1>1, <2>2
    <3> QED BY <3>1, <3>2, <1>1 DEF Smaller
  <2>4. Cardinality(F) \in Nat /\ Cardinality(F) >= PageSize + 1
    BY <2>2, <2>3, <1>1, <1>4, <1>0
  <2>5. F # {}
    BY <2>4, <1>0, FS_EmptySet
  <2>6. LastOf(F) \in F /\ \A m \in F : m <= LastOf(F)
    BY <2>5, <1>1, GreatestIs
  <2>7. PICK x : x = LastOf(F)
    OBVIOUS
  <2>8. x \in F /\ x \in Nat /\ \A m \in F : m <= x
    BY <2>6, <2>7, <1>1
  <2>9. Smaller(F, x) = F \ {x}
    <3>1. ASSUME NEW m \in F PROVE m < x <=> m # x
      <4>1. m \in Nat /\ m <= x
        BY <2>8, <1>1
      <4> QED BY <4>1, <2>8
    <3> QED BY <3>1, <2>8 DEF Smaller
  <2>10. Cardinality(F \ {x}) = Cardinality(F) - 1
    BY <2>8, <1>1, FS_RemoveElement
  <2>11. Cardinality(Smaller(F, x)) < PageSize
    BY <2>8, <1>3, <1>6
  <2> QED BY <2>4, <2>9, <2>10, <2>11, <1>0
<1> QED BY <1>5, <1>6

\* The names a listing goes through.
LEMMA NamesAfterIs ==
  ASSUME TInv, NEW parent, NEW kind, NEW after, NEW S, S = NamesAfter(db, parent, kind, after)
  PROVE  S \in SUBSET Nat /\ IsFiniteSet(S) /\ S \subseteq Name
<1> DEFINE U == Under(db, parent, kind)
           names == {db.objs[i].name : i \in U}
<1>1. U \subseteq Id /\ \A i \in U : db.objs[i] \in Object
  BY DEF Under, Live, TInv, TypeOK, Database
<1>2. \A i \in U : db.objs[i].name \in Name
  BY <1>1 DEF Object
<1>3. IsFiniteSet(Id)
  BY ObjectsAssumption, FS_Interval DEF Id
<1>4. IsFiniteSet(U)
  BY <1>1, <1>3, FS_Subset
<1>5. IsFiniteSet(names)
  <2> HIDE DEF U
  <2>1. PICK f : f = [i \in U |-> db.objs[i].name]
    OBVIOUS
  <2>2. f \in Surjection(U, names)
    BY <2>1 DEF Surjection
  <2> QED BY <1>4, <2>2, FS_Surjection
<1>6. S \subseteq names
  BY DEF NamesAfter
<1>7. S \subseteq Name /\ IsFiniteSet(S)
  BY <1>2, <1>5, <1>6, FS_Subset
<1> QED BY <1>7, ObjectsAssumption

LEMMA TokenType ==
  ASSUME TInv, NEW parent, NEW kind, NEW after, NEW F, F = OverFetched(db, parent, kind, after)
  PROVE  Token(F) \in Name \cup {None}
<1>1. PICK S : S = NamesAfter(db, parent, kind, after)
  OBVIOUS
<1>2. S \in SUBSET Nat /\ IsFiniteSet(S) /\ S \subseteq Name /\ F = FirstOf(S, PageSize + 1)
  BY <1>1, NamesAfterIs DEF OverFetched
<1>3. PageOf(F) = FirstOf(S, PageSize) /\ PageSize \in Nat /\ PageSize > 0
  BY <1>2, PageIs, ObjectsAssumption
<1>4. PageOf(F) \subseteq S /\ IsFiniteSet(PageOf(F)) /\ (S # {} => PageOf(F) # {})
  BY <1>2, <1>3, FirstOfIs
<1>5. CASE PageOf(F) = F
  BY <1>5 DEF Token
<1>6. CASE PageOf(F) # F
  <2>1. S # {}
    BY <1>2, <1>4, <1>6 DEF FirstOf
  <2>2. LastOf(PageOf(F)) \in PageOf(F)
    BY <1>2, <1>4, <2>1, GreatestIs
  <2> QED BY <1>2, <1>4, <1>6, <2>2 DEF Token
<1> QED BY <1>5, <1>6

-----------------------------------------------------------------------------
(* The types: rows                                                         *)

\* A call that gets another list, of steps that may stand there.
LEMMA Relisted ==
  ASSUME NEW k, Busy(k), NEW l \in Call, l.n = k.n, l.req = k.req, l.todo # << >>,
         \A j \in DOMAIN l.todo :
           /\ l.todo[j][1] \in OpSteps(k.req.op)
           /\ l.todo[j][1] \in Alone => Len(l.todo) = 1
           /\ l.todo[j][1] = "version" => l.number # 0
           /\ l.todo[j][1] = "root" => j # Len(l.todo)
  PROVE  Regular(l)
BY DEF Busy, Regular

LEMMA FindRootTyped == ASSUME TInv, NEW c \in Client, FindRoot(c) PROVE Typed(c)
<1>0. /\ Doing(c, "root") /\ call[c].todo # << >> /\ Busy(call[c]) /\ call[c].todo[1][1] = "root"
  BY AtStep DEF FindRoot
<1>1. CASE Fails(c)
  BY <1>0, <1>1, FailsLands DEF Typed
<1>2. CASE call' = [call EXCEPT ![c].from = RootOf(db, Req(c).path), ![c].todo = Tail(@)] /\ Unwritten /\ UNCHANGED cut
  <2>1. PICK k : k = call[c]
    OBVIOUS
  <2>2. PICK t : t = Tail(k.todo)
    OBVIOUS
  <2>3. PICK l : l = [k EXCEPT !.from = RootOf(db, Req(c).path), !.todo = t]
    OBVIOUS
  <2>4. Becomes(c, l)
    BY <1>2, <2>1, <2>2, <2>3 DEF Becomes, TInv, TypeOK
  <2>5. k \in Call /\ Regular(k) /\ k.todo \in Seq(Step) /\ k.todo # << >>
    BY <1>0, <2>1 DEF Busy, Call
  <2>6. k.todo[1][1] = "root" /\ 1 \in DOMAIN k.todo
    BY <1>0, <2>1, Working
  <2>7. t \in Seq(Step) /\ Len(t) = Len(k.todo) - 1 /\ DOMAIN t = 1..(Len(k.todo) - 1) /\ Len(k.todo) \in Nat
        /\ DOMAIN k.todo = 1..Len(k.todo) /\ \A j \in 1..(Len(k.todo) - 1) : t[j] = k.todo[j + 1]
    <3> HIDE DEF Step
    <3> QED BY <2>2, <2>5
  <2>8. 1 # Len(k.todo) /\ t # << >>
    <3>1. 1 # Len(k.todo)
      BY <2>5, <2>6 DEF Regular
    <3>2. Len(k.todo) - 1 # 0
      BY <3>1, <2>7
    <3>3. Len(t) # 0
      BY <3>2, <2>7
    <3> QED BY <3>1, <3>3
  <2>9. l.todo = t /\ l.n = k.n /\ l.req = k.req /\ l.number = k.number /\ l \in Call
    BY <2>3, <2>5, <2>7, RootOfType DEF Call
  <2>10. ASSUME NEW j \in DOMAIN t
         PROVE  /\ t[j][1] \in {"look"} \cup OpSteps(k.req.op) /\ t[j][1] \notin Alone
                /\ t[j][1] = "version" => l.number # 0
                /\ t[j][1] = "root" => j # Len(t)
    <3>1. j + 1 \in DOMAIN k.todo /\ t[j] = k.todo[j + 1] /\ (j = Len(t) <=> j + 1 = Len(k.todo))
      BY <2>7
    <3> QED BY <3>1, <2>5, <2>8, <2>9 DEF Regular
  <2>11. Regular(l)
    BY <2>5, <2>8, <2>9, <2>10 DEF Regular, Alone
  <2> QED BY <1>2, <2>4, <2>9, <2>11, UnwrittenTyped DEF Typed, Lands
<1> QED BY <1>1, <1>2 DEF FindRoot

LEMMA CreateRowTyped == ASSUME TInv, NEW c \in Client, CreateRow(c) PROVE Typed(c)
<1> DEFINE req == Req(c)
           i == On(c)
           row == [kind |-> req.kind, name |-> Last(req.path), parent |-> call[c].parent, max |-> 0,
                   root |-> "root" \in req.opts, from |-> call[c].from]
           new == [NoNote EXCEPT !.kind = req.kind, !.made = call[c].n, !.wants = Wanted(req)]
<1>0. call[c].todo # << >> /\ Busy(call[c]) /\ i \in Id /\ call[c].n \in Ordinal
  BY AtStep, Working DEF CreateRow, Single
<1>1. req \in Requests /\ req \in Request /\ WellFormed(req)
  BY <1>0, ObjectsAssumption DEF Busy, Regular, Req
<1>2. CASE Fails(c)
  BY <1>0, <1>2, FailsLands DEF Typed
<1>3. CASE /\ Write(c, PutRow(db, i, row), {i, call[c].parent})
           /\ note' = [note EXCEPT ![i] = new] /\ Proceed(c, << >>) /\ UNCHANGED cut
  <2>1. Last(req.path) \in Name
    <3>1. req.path \in Seq(Name) /\ Len(req.path) \in 1..3
      BY <1>1 DEF Request, WellFormed, Depth
    <3>2. PICK p : p = req.path
      OBVIOUS
    <3>3. p \in Seq(Name) /\ Len(p) \in 1..3
      BY <3>1, <3>2
    <3>4. Len(p) \in DOMAIN p
      BY <3>3
    <3>5. p[Len(p)] \in Name
      BY <3>3, <3>4
    <3> QED BY <3>2, <3>5 DEF Last
  <2>2. call[c].parent \in Id \cup {None} /\ call[c].from \in Id \cup {None}
    BY DEF TInv, TypeOK, Call
  <2>3. req.kind \in Kinds /\ req.opts \in SUBSET {"parts", "props", "force", "root", "managed", "delta"}
    BY <1>1 DEF Request
  <2>4. row \in Object
    BY <2>1, <2>2, <2>3, ObjectsAssumption DEF Object
  <2>5. PutRow(db, i, row) \in Database
    <3> HIDE DEF row, i
    <3> QED BY <1>0, <2>4, Databases DEF PutRow
  <2>6. new \in Notes
    BY <1>0, <2>3 DEF Notes, NoNote, Wanted
  <2>7. note' \in [Id -> Notes]
    <3> HIDE DEF new, i
    <3> QED BY <1>0, <1>3, <2>6 DEF TInv, TypeOK
  <2> HIDE DEF row, new, i
  <2> QED BY <1>0, <1>3, <2>5, <2>7, CommitTyped
<1> QED BY <1>2, <1>3 DEF CreateRow

LEMMA GrantOwnerTyped == ASSUME TInv, NEW c \in Client, GrantOwner(c) PROVE Typed(c)
<1>0. call[c].todo # << >> /\ On(c) \in Id
  BY AtStep DEF GrantOwner, Single
<1>1. CASE Write(c, [db EXCEPT !.owners = @ \cup {On(c)}], {On(c)}) /\ Proceed(c, << >>) /\ UNCHANGED <<note, cut>>
  <2>1. [db EXCEPT !.owners = @ \cup {On(c)}] \in Database /\ note' \in [Id -> Notes]
    BY <1>0, <1>1, Databases DEF TInv, TypeOK
  <2> QED BY <1>0, <1>1, <2>1, CommitTyped
<1>2. CASE /\ call' = [call EXCEPT ![c] = Idle]
           /\ note' = [note EXCEPT ![On(c)]["wants"] = note[On(c)].wants \ {"owner"}]
           /\ UNCHANGED <<db, touched, cut>>
  <2>1. note[On(c)].wants \ {"owner"} \in SUBSET {"parts", "props", "owner"}
    BY <1>0, NoteTyped
  <2>2. note' \in [Id -> Notes]
    BY <1>0, <1>2, <2>1, NoteTyped
  <2> QED BY <1>2, <2>2, IdleCall DEF Typed, Lands, RowsTyped, TInv, TypeOK, Becomes
<1> QED BY <1>1, <1>2 DEF GrantOwner, Note

\* Which row a rename or a drop is about, and what they note.
LEMMA HitType == ASSUME TInv, NEW c \in Client, On(c) \in Id PROVE Hit(c) \in Id \cup {None}
<1>1. PICK i : i = Find(db, "catalog", None, Req(c).path[1])
  OBVIOUS
<1>2. i \in Id \cup {None}
  BY <1>1, FindIs, LiveIs
<1> QED BY <1>1, <1>2 DEF Hit

\* Only a catalog is looked up again, and then it is there or it is none.
LEMMA HitIs ==
  ASSUME TInv, NEW c \in Client, On(c) \in Id
  PROVE  /\ note[On(c)].kind # "catalog" => Hit(c) = On(c)
         /\ Hit(c) \in Live(db) \/ note[On(c)].kind # "catalog" \/ Hit(c) = None
<1>1. PICK i : i = Find(db, "catalog", None, Req(c).path[1])
  OBVIOUS
<1> QED BY <1>1, FindIs DEF Hit

LEMMA MarkTyped ==
  ASSUME TInv, NEW c \in Client, call[c].todo # << >>, NEW i, NEW gone \in {"no", "dropped", "cascaded"}, Mark(c, i, gone)
  PROVE  note' \in [Id -> Notes]
<1>0. call[c].n \in Ordinal /\ note \in [Id -> Notes]
  BY Working DEF TInv, TypeOK
<1>1. PICK h : h = IF i = On(c) THEN note[i].hit ELSE call[c].n
  OBVIOUS
<1>2. note' = [note EXCEPT ![i] = [note[i] EXCEPT !.gone = gone, !.hit = h]]
  BY <1>0, <1>1 DEF Mark
<1>3. i \in Id => h \in Ordinal \cup {None}
  BY <1>0, <1>1 DEF Notes
<1>4. i \in Id => [note[i] EXCEPT !.gone = gone, !.hit = h] \in Notes
  BY <1>0, <1>3 DEF Notes
<1> QED BY <1>0, <1>2, <1>4

LEMMA DropOneTyped == ASSUME TInv, NEW c \in Client, DropOne(c) PROVE Typed(c)
<1>0. call[c].todo # << >> /\ On(c) \in Id
  BY AtStep DEF DropOne, Single
<1>1. CASE Fails(c)
  BY <1>0, <1>1, FailsLands DEF Typed
<1>2. CASE /\ Write(c, DropRow(db, Hit(c)), {Hit(c)})
           /\ Mark(c, Hit(c), IF note[Hit(c)].kind = Req(c).kind THEN "dropped" ELSE "cascaded")
           /\ Proceed(c, << >>) /\ UNCHANGED cut
  <2>1. PICK d : d = DropRow(db, Hit(c))
    OBVIOUS
  <2>2. d \in Database
    <3>1. db \in Database
      BY DEF TInv, TypeOK
    <3> HIDE DEF Object, NoObject, Version, Id, None
    <3> QED BY <2>1, <3>1 DEF Database, DropRow
  <2>3. note' \in [Id -> Notes]
    BY <1>0, <1>2, MarkTyped
  <2> QED BY <1>0, <1>2, <2>1, <2>2, <2>3, CommitTyped
<1> QED BY <1>1, <1>2 DEF DropOne

LEMMA PutVersionTyped == ASSUME TInv, NEW c \in Client, PutVersion(c) PROVE Typed(c)
<1>0. call[c].todo # << >> /\ On(c) \in Id /\ call[c].n \in Ordinal /\ call[c].todo[1][1] = "version" /\ 1 \in DOMAIN call[c].todo
      /\ Busy(call[c])
  BY AtStep, Working DEF PutVersion, Single
<1>1. call[c].number \in 1..MaxVersion
  <2>1. call[c].number # 0
    BY <1>0 DEF Busy, Regular
  <2>2. call[c].number \in 0..MaxVersion
    BY DEF TInv, TypeOK, Call
  <2> QED BY <2>1, <2>2, ObjectsAssumption
<1>2. PICK v : v = [model |-> On(c), number |-> call[c].number, by |-> call[c].n]
  OBVIOUS
<1>3. v \in Version
  BY <1>0, <1>1, <1>2 DEF Version
<1>4. [db EXCEPT !.versions = @ \cup {v}] \in Database
  BY <1>0, <1>3, Databases
<1>5. note' \in [Id -> Notes]
  BY DEF PutVersion, TInv, TypeOK
<1> QED BY <1>0, <1>2, <1>4, <1>5, CommitTyped DEF PutVersion

LEMMA SetMaxTyped == ASSUME TInv, NEW c \in Client, SetMax(c) PROVE Typed(c)
<1>0. call[c].todo # << >> /\ On(c) \in Id
  BY AtStep DEF SetMax, Single
<1>1. call[c].number \in 0..MaxVersion /\ db \in Database
  BY DEF TInv, TypeOK, Call
<1>2. PICK d : d = IF On(c) \in Live(db) THEN [db EXCEPT !.objs[On(c)].max = call[c].number] ELSE db
  OBVIOUS
<1>3. d \in Database
  <2>1. CASE On(c) \in Live(db)
    <3>1. db.objs[On(c)] \in Object
      BY <1>1, <2>1 DEF Live, Database
    <3>2. [db.objs[On(c)] EXCEPT !.max = call[c].number] \in Object
      BY <1>1, <3>1 DEF Object
    <3>3. d = [db EXCEPT !.objs = [@ EXCEPT ![On(c)] = [db.objs[On(c)] EXCEPT !.max = call[c].number]]]
      BY <1>0, <1>1, <1>2, <2>1 DEF Database
    <3> QED BY <1>0, <3>2, <3>3, Databases
  <2>2. CASE On(c) \notin Live(db)
    BY <1>1, <1>2, <2>2
  <2> QED BY <2>1, <2>2
<1>4. note' \in [Id -> Notes]
  BY DEF SetMax, TInv, TypeOK
<1> QED BY <1>0, <1>2, <1>3, <1>4, CommitTyped DEF SetMax

LEMMA DropVersionTyped == ASSUME TInv, NEW c \in Client, DropVersion(c) PROVE Typed(c)
<1>0. call[c].todo # << >> /\ On(c) \in Id
  BY AtStep DEF DropVersion, Single
<1>1. PICK d : d = [db EXCEPT !.versions = {v \in @ : v.model # On(c) \/ v.number # Req(c).to}]
  OBVIOUS
<1>2. d \in Database
  <2>1. db \in Database
    BY DEF TInv, TypeOK
  <2> HIDE DEF Object, NoObject, Version, Id, None
  <2> QED BY <1>1, <2>1 DEF Database
<1>3. note' \in [Id -> Notes]
  BY DEF DropVersion, TInv, TypeOK
<1> QED BY <1>0, <1>1, <1>2, <1>3, CommitTyped DEF DropVersion

-----------------------------------------------------------------------------
(* The types: drops with force                                             *)

\* What a drop of a catalog or a schema unfolds into.
Emptying(full, kind, i) ==
  (IF full THEN IF kind = "schema" THEN Children(i) ELSE << <<"list", i, "schema">> >> ELSE << >>)
    \o << <<"dropProps", i>>, <<"dropRow", i>> >>

LEMMA EmptyingIs ==
  ASSUME NEW full \in BOOLEAN, NEW kind, NEW i \in Id, NEW s, s = Emptying(full, kind, i)
  PROVE  /\ s \in Seq(Step)
         /\ ~full => Len(s) = 2 /\ s[1] = <<"dropProps", i>> /\ s[2] = <<"dropRow", i>>
         /\ full /\ kind # "schema" =>
              Len(s) = 3 /\ s[1] = <<"list", i, "schema">> /\ s[2] = <<"dropProps", i>> /\ s[3] = <<"dropRow", i>>
         /\ full /\ kind = "schema" =>
              /\ Len(s) = 6
              /\ s[1] = <<"list", i, "table">> /\ s[2] = <<"list", i, "volume">>
              /\ s[3] = <<"list", i, "function">> /\ s[4] = <<"list", i, "model">>
              /\ s[5] = <<"dropProps", i>> /\ s[6] = <<"dropRow", i>>
<1>1. PICK a : a = IF full THEN IF kind = "schema" THEN Children(i) ELSE << <<"list", i, "schema">> >> ELSE << >>
  OBVIOUS
<1>2. PICK t : t = << <<"dropProps", i>>, <<"dropRow", i>> >>
  OBVIOUS
<1>3. <<"dropProps", i>> \in Step /\ <<"dropRow", i>> \in Step /\ <<"list", i, "schema">> \in Step
  BY DEF Step, Single, Below
<1>4. t \in Seq(Step) /\ Len(t) = 2 /\ t[1] = <<"dropProps", i>> /\ t[2] = <<"dropRow", i>>
  BY <1>2, <1>3
<1>5. s = a \o t
  BY <1>1, <1>2 DEF Emptying
<1>6. /\ a \in Seq(Step)
      /\ ~full => Len(a) = 0
      /\ full /\ kind # "schema" => Len(a) = 1 /\ a[1] = <<"list", i, "schema">>
      /\ full /\ kind = "schema" => /\ Len(a) = 4 /\ a[1] = <<"list", i, "table">> /\ a[2] = <<"list", i, "volume">>
                                    /\ a[3] = <<"list", i, "function">> /\ a[4] = <<"list", i, "model">>
  <2>1. CASE ~full
    <3>1. a = << >>
      BY <1>1, <2>1
    <3> QED BY <2>1, <3>1
  <2>2. CASE full /\ kind # "schema"
    <3>1. a = << <<"list", i, "schema">> >>
      BY <1>1, <2>2
    <3> QED BY <2>2, <3>1, <1>3
  <2>3. CASE full /\ kind = "schema"
    BY <1>1, <2>3, ChildrenAre
  <2> QED BY <2>1, <2>2, <2>3
<1>7. /\ s \in Seq(Step) /\ Len(s) = Len(a) + Len(t)
      /\ \A j \in 1..Len(a) : s[j] = a[j]
      /\ \A j \in 1..Len(t) : s[j + Len(a)] = t[j]
  <2>1. a \in Seq(Step) /\ t \in Seq(Step)
    BY <1>4, <1>6
  <2> QED BY ONLY <2>1, <1>5, Joined
<1>8. s[1 + Len(a)] = <<"dropProps", i>> /\ s[2 + Len(a)] = <<"dropRow", i>>
  BY <1>4, <1>7
<1>9. CASE ~full
  BY <1>4, <1>6, <1>7, <1>8, <1>9
<1>10. CASE full /\ kind # "schema"
  <2>0. Len(a) = 1 /\ Len(t) = 2
    BY <1>4, <1>6, <1>10
  <2>1. 1 + Len(a) = 2 /\ 2 + Len(a) = 3 /\ Len(a) + Len(t) = 3 /\ 1 \in 1..Len(a)
    BY <2>0
  <2> QED BY <1>6, <1>7, <1>8, <1>10, <2>1
<1>11. CASE full /\ kind = "schema"
  <2>0. Len(a) = 4 /\ Len(t) = 2
    BY <1>4, <1>6, <1>11
  <2>1. 1 + Len(a) = 5 /\ 2 + Len(a) = 6 /\ Len(a) + Len(t) = 6 /\ {1, 2, 3, 4} \subseteq 1..Len(a)
    BY <2>0
  <2> QED BY <1>6, <1>7, <1>8, <1>11, <2>1
<1> QED BY <1>7, <1>9, <1>10, <1>11

LEMMA EachIs ==
  ASSUME NEW S \in SUBSET Id, NEW kind \in Below, NEW s, s = Each(S, kind)
  PROVE  /\ s \in Seq(Step)
         /\ S = {} => Len(s) = 0 /\ s = << >>
         /\ S # {} => Len(s) = 1 /\ s[1] = <<"each", S, kind>>
<1>1. <<"each", S, kind>> \in Step
  BY DEF Step
<1>2. CASE S = {}
  <2>1. s = << >>
    BY <1>2 DEF Each, When
  <2>2. s \in Seq(Step) /\ Len(s) = 0
    BY <2>1
  <2> QED BY <1>2, <2>1, <2>2
<1>3. CASE S # {}
  <2>1. s = << <<"each", S, kind>> >>
    BY <1>3 DEF Each, When
  <2> QED BY <1>1, <1>3, <2>1
<1> QED BY <1>2, <1>3

LEMMA OfDelete ==
  ASSUME NEW k, "empty" \in OpSteps(k.req.op) \/ "list" \in OpSteps(k.req.op) \/ "each" \in OpSteps(k.req.op)
  PROVE  {"list", "each", "dropParts", "dropProps", "dropRow"} \subseteq OpSteps(k.req.op) \ Opening
BY DEF OpSteps, Opening, Alone, DropStep

LEMMA CheckEmptyTyped == ASSUME TInv, NEW c \in Client, CheckEmpty(c) PROVE Typed(c)
<1>0. call[c].todo # << >> /\ On(c) \in Id /\ "empty" \in OpSteps(call[c].req.op)
  <2>1. Doing(c, "empty")
    BY DEF CheckEmpty
  <2> QED BY <2>1, AtStep DEF Single, Req
<1>1. CASE Fails(c)
  BY <1>0, <1>1, FailsLands DEF Typed
<1>2. ASSUME ~Fails(c) PROVE Typed(c)
  <2>1. PICK full \in BOOLEAN : Proceed(c, Emptying(full, Req(c).kind, On(c))) /\ Unwritten /\ UNCHANGED cut
    BY <1>2 DEF CheckEmpty, Emptying
  <2>2. PICK s : s = Emptying(full, Req(c).kind, On(c))
    OBVIOUS
  <2>3. s \in Seq(Step) /\ \A j \in DOMAIN s : s[j][1] \in {"list", "dropProps", "dropRow"}
    <3>1. /\ s \in Seq(Step)
          /\ \/ Len(s) = 2 /\ s[1] = <<"dropProps", On(c)>> /\ s[2] = <<"dropRow", On(c)>>
             \/ /\ Len(s) = 3 /\ s[1] = <<"list", On(c), "schema">>
                /\ s[2] = <<"dropProps", On(c)>> /\ s[3] = <<"dropRow", On(c)>>
             \/ /\ Len(s) = 6
                /\ s[1] = <<"list", On(c), "table">> /\ s[2] = <<"list", On(c), "volume">>
                /\ s[3] = <<"list", On(c), "function">> /\ s[4] = <<"list", On(c), "model">>
                /\ s[5] = <<"dropProps", On(c)>> /\ s[6] = <<"dropRow", On(c)>>
      BY <1>0, <2>2, EmptyingIs
    <3>2. DOMAIN s = 1..Len(s)
      <4> HIDE DEF Step
      <4> QED BY <3>1
    <3> QED BY <3>1, <3>2
  <2>4. Suits(call[c], s)
    BY <1>0, <2>3, OfDelete DEF Suits
  <2> QED BY <1>0, <2>1, <2>2, <2>4, ProceedLands, UnwrittenTyped DEF Typed
<1> QED BY <1>1, <1>2

LEMMA ListChildrenTyped == ASSUME TInv, NEW c \in Client, ListChildren(c) PROVE Typed(c)
<1>0. call[c].todo # << >> /\ On(c) \in Id /\ Head(call[c].todo)[3] \in Below /\ "list" \in OpSteps(call[c].req.op)
  <2>1. Doing(c, "list")
    BY DEF ListChildren
  <2> QED BY <2>1, AtStep, Working DEF Req
<1>1. PICK kind : kind = Head(call[c].todo)[3]
  OBVIOUS
<1>2. PICK s : s = Each(Under(db, On(c), kind), kind)
  OBVIOUS
<1>3. Under(db, On(c), kind) \in SUBSET Id
  BY DEF Under, Live
<1>4. Suits(call[c], s)
  <2>1. s \in Seq(Step) /\ (s = << >> \/ (Len(s) = 1 /\ s[1] = <<"each", Under(db, On(c), kind), kind>>))
    BY <1>0, <1>1, <1>2, <1>3, EachIs, ZenonT(60)
  <2>2. s # << >> => DOMAIN s = {1} /\ s[1][1] = "each"
    <3> HIDE DEF Step
    <3> QED BY <2>1
  <2> QED BY <1>0, <2>1, <2>2, OfDelete, SuitsNone DEF Suits
<1> QED BY <1>0, <1>1, <1>2, <1>4, ProceedLands, UnwrittenTyped DEF Typed, ListChildren

LEMMA NextChildTyped == ASSUME TInv, NEW c \in Client, NextChild(c) PROVE Typed(c)
<1>0. call[c].todo # << >> /\ On(c) \in SUBSET Id /\ Head(call[c].todo)[3] \in Below /\ "each" \in OpSteps(call[c].req.op)
  <2>1. Doing(c, "each")
    BY DEF NextChild
  <2> QED BY <2>1, AtStep, Working DEF Req
<1>1. PICK kind : kind = Head(call[c].todo)[3]
  OBVIOUS
<1>2. PICK i \in On(c) : Proceed(c, CascadeSteps(kind, i) \o Each(On(c) \ {i}, kind)) /\ Unwritten /\ UNCHANGED cut
  BY <1>1 DEF NextChild
<1>3. PICK R : R = On(c) \ {i}
  OBVIOUS
<1>4. PICK a : a = CascadeSteps(kind, i)
  OBVIOUS
<1>5. PICK t : t = Each(R, kind)
  OBVIOUS
<1>6. PICK s : s = a \o t
  OBVIOUS
<1>10. i \in Id /\ R \in SUBSET Id /\ kind \in Below /\ Proceed(c, s)
  BY <1>0, <1>1, <1>2, <1>3, <1>4, <1>5, <1>6
<1>11. a \in Seq(Step) /\ t \in Seq(Step) /\ DOMAIN t = 1..Len(t) /\ Len(a) \in Nat /\ Len(t) \in Nat
  <2>1. a \in Seq(Step)
    BY <1>4, <1>10, CascadeStepsAre DEF Below, Leaves
  <2>2. t \in Seq(Step)
    BY <1>5, <1>10, EachIs
  <2> HIDE DEF Step
  <2> QED BY <2>1, <2>2
<1>12. /\ s \in Seq(Step) /\ Len(s) = Len(a) + Len(t)
       /\ \A j \in 1..Len(a) : s[j] = a[j]
       /\ \A j \in 1..Len(t) : s[j + Len(a)] = t[j]
  BY ONLY <1>6, <1>11, Joined
<1>13. \A j \in 1..Len(t) : t[j][1] = "each"
  <2>1. t = << >> \/ (Len(t) = 1 /\ t[1] = <<"each", R, kind>>)
    BY <1>5, <1>10, EachIs
  <2> QED BY <2>1
<1>7. \A j \in 1..Len(a) : a[j][1] \in {"list", "dropParts", "dropProps", "dropRow"}
  <2>1. \/ Len(a) = 6 /\ a[1][1] = "list" /\ a[2][1] = "list" /\ a[3][1] = "list" /\ a[4][1] = "list"
           /\ a[5][1] = "dropProps" /\ a[6][1] = "dropRow"
        \/ Len(a) = 3 /\ a[1][1] = "dropParts" /\ a[2][1] = "dropProps" /\ a[3][1] = "dropRow"
        \/ Len(a) = 1 /\ a[1][1] = "dropRow"
    <3>1. /\ kind = "schema" =>
               /\ Len(a) = 6 /\ a[1] = <<"list", i, "table">> /\ a[2] = <<"list", i, "volume">>
               /\ a[3] = <<"list", i, "function">> /\ a[4] = <<"list", i, "model">>
               /\ a[5] = <<"dropProps", i>> /\ a[6] = <<"dropRow", i>>
          /\ kind = "table" => Len(a) = 3 /\ a[1] = <<"dropParts", i>> /\ a[2] = <<"dropProps", i>> /\ a[3] = <<"dropRow", i>>
          /\ kind \in {"volume", "function", "model"} => Len(a) = 1 /\ a[1] = <<"dropRow", i>>
      BY <1>4, <1>10, CascadeStepsAre
    <3> QED BY <1>10, <3>1 DEF Below, Leaves
  <2> QED BY <2>1
<1>8. \A j \in DOMAIN s : s[j][1] \in {"list", "each", "dropParts", "dropProps", "dropRow"}
  <2> TAKE j \in DOMAIN s
  <2>1. DOMAIN s = 1..Len(s) /\ j \in 1..Len(s)
    <3> HIDE DEF Step
    <3> QED BY <1>12
  <2>2. j \in 1..Len(a) \/ (j - Len(a) \in 1..Len(t) /\ (j - Len(a)) + Len(a) = j)
    BY <1>11, <1>12, <2>1
  <2> QED BY <1>7, <1>12, <1>13, <2>2
<1>9. Suits(call[c], s)
  BY <1>0, <1>8, <1>12, OfDelete DEF Suits
<1> QED BY <1>0, <1>2, <1>9, <1>10, ProceedLands, UnwrittenTyped DEF Typed

-----------------------------------------------------------------------------
(* The types: renames and pages                                            *)

LEMMA RenameTyped == ASSUME TInv, NEW c \in Client, Rename(c), note[On(c)].kind = Req(c).kind PROVE Typed(c)
<1>0. call[c].todo # << >> /\ On(c) \in Id /\ Busy(call[c]) /\ "rename" \in OpSteps(call[c].req.op)
  <2>1. Doing(c, "rename")
    BY DEF Rename
  <2> QED BY <2>1, AtStep DEF Single, Req
<1>1. Req(c).to \in Name
  <2>1. Req(c) \in Request /\ WellFormed(Req(c)) /\ call[c].req = Req(c)
    BY <1>0, ObjectsAssumption DEF Busy, Regular, Req
  <2>2. Req(c).op = "rename"
    BY <1>0, <2>1 DEF OpSteps, DropStep
  <2> QED BY <2>1, <2>2 DEF WellFormed, Request
<1>2. PICK i : i = Hit(c)
  OBVIOUS
<1>3. CASE Fails(c)
  BY <1>0, <1>3, FailsLands DEF Typed
<1>4. ASSUME ~Fails(c)
      PROVE  /\ Proceed(c, When("props" \in Req(c).opts, <<"props", i>>)) /\ UNCHANGED cut
             /\ \/ Unwritten /\ i \notin Live(db) /\ Req(c).kind \in {"table", "model"}
                \/ i \in Live(db) /\ Write(c, PutRow(db, i, Renamed(db, i, Req(c).to)), {i}) /\ Mark(c, i, "no")
  BY <1>2, <1>4 DEF Rename
<1>5. ASSUME ~Fails(c), i \in Id PROVE Typed(c)
  <2>1. PICK s : s = When("props" \in Req(c).opts, <<"props", i>>)
    OBVIOUS
  <2>2. <<"props", i>> \in Step /\ "props" \in OpSteps(call[c].req.op) \ Opening
    BY <1>0, <1>5 DEF Step, Single, OpSteps, Opening, Alone, DropStep
  <2>3. Suits(call[c], s)
    <3>1. CASE "props" \in Req(c).opts
      <4>1. PICK x \in Step : x = <<"props", i>> /\ x[1] = "props"
        BY <2>2
      <4>2. s = <<x>>
        BY <2>1, <3>1, <4>1 DEF When
      <4>3. x[1] \in OpSteps(call[c].req.op) \ Opening
        BY <2>2, <4>1
      <4> QED BY <4>2, <4>3, OneMore
    <3>2. CASE "props" \notin Req(c).opts
      <4>1. s = << >>
        BY <2>1, <3>2 DEF When
      <4> QED BY <4>1, SuitsNone
    <3> QED BY <3>1, <3>2
  <2>4. Lands(c)
    BY <1>0, <1>4, <1>5, <2>1, <2>3, ProceedLands
  <2>5. RowsTyped
    <3>1. CASE Unwritten
      BY <1>4, <1>5, <3>1, UnwrittenTyped
    <3>2. CASE i \in Live(db) /\ Write(c, PutRow(db, i, Renamed(db, i, Req(c).to)), {i}) /\ Mark(c, i, "no")
      <4>1. PICK row : row = Renamed(db, i, Req(c).to)
        OBVIOUS
      <4>2. db.objs[i] \in Object
        BY <3>2 DEF Live, TInv, TypeOK, Database
      <4>3. row \in Object
        BY <1>1, <4>1, <4>2 DEF Renamed, Object
      <4>4. PutRow(db, i, row) \in Database
        BY <1>5, <4>3, Databases DEF PutRow
      <4>5. note' \in [Id -> Notes]
        BY <1>0, <3>2, MarkTyped
      <4> QED BY <1>0, <1>4, <1>5, <3>2, <4>1, <4>4, <4>5, WriteTyped DEF RowsTyped, TInv, TypeOK
    <3> QED BY <1>4, <1>5, <3>1, <3>2
  <2> QED BY <2>4, <2>5 DEF Typed
<1>6. ASSUME ~Fails(c), i \notin Id PROVE Typed(c)
  <2>1. i \notin Live(db)
    BY <1>6, LiveIs
  <2>2. note[On(c)].kind = "catalog" /\ Req(c).kind = "model"
    BY <1>0, <1>2, <1>4, <1>6, <2>1, HitIs
  <2> QED BY <2>2
<1> QED BY <1>3, <1>5, <1>6

\* A list of one step.
LEMMA OneStep ==
  ASSUME NEW s \in Step, NEW t, t = <<s>>
  PROVE  t \in Seq(Step) /\ t # << >> /\ Len(t) = 1 /\ DOMAIN t = {1} /\ t[1] = s
OBVIOUS

LEMMA ReadPageTyped == ASSUME TInv, NEW c \in Client, ReadPage(c) PROVE Typed(c)
<1> DEFINE fetched == OverFetched(db, On(c), Req(c).kind, call[c].after)
           shown == {i \in Under(db, On(c), Req(c).kind) : db.objs[i].name \in PageOf(fetched)}
<1>0. call[c].todo # << >> /\ On(c) \in Id \cup {None} /\ Busy(call[c]) /\ "page" \in OpSteps(call[c].req.op)
  <2>1. Doing(c, "page")
    BY DEF ReadPage
  <2> QED BY <2>1, AtStep DEF Req, OpSteps, DropStep
<1>1. PICK s : s = <<IF Token(fetched) # None THEN "page" ELSE "answer", On(c)>>
  OBVIOUS
<1>2. s \in Step /\ s[1] \in {"page", "answer"}
  BY <1>0, <1>1 DEF Step
<1>3. PICK t : t = <<s>>
  OBVIOUS
<1>4. t \in Seq(Step) /\ t # << >> /\ Len(t) = 1 /\ DOMAIN t = {1} /\ t[1] = s
  BY <1>2, <1>3, OneStep
<1>5. PICK k : k = call[c]
  OBVIOUS
<1>6. k \in Call /\ Busy(k)
  BY <1>0, <1>5 DEF Busy
<1>7. PICK a : a = Token(fetched)
  OBVIOUS
<1>8. a \in Name \cup {None}
  BY <1>7, TokenType
<1>9. PICK S : S = shown
  OBVIOUS
<1>10. S \in SUBSET Id
  BY <1>9 DEF Under, Live
<1>11. PICK l : l = [k EXCEPT !.seen = @ \cup S, !.twice = @ \cup (k.seen \cap S), !.after = a, !.todo = t]
  OBVIOUS
<1>12. l \in Call /\ l.n = k.n /\ l.req = k.req /\ l.todo = t
  <2> HIDE DEF Step, Id, None
  <2> QED BY <1>4, <1>6, <1>8, <1>10, <1>11 DEF Call
<1>13. Becomes(c, l)
  BY <1>1, <1>3, <1>5, <1>7, <1>9, <1>11 DEF ReadPage, Becomes, TInv, TypeOK
<1>14. Regular(l)
  <2>1. {"page", "answer"} \subseteq OpSteps(k.req.op)
    BY <1>0, <1>5 DEF OpSteps, DropStep
  <2> QED BY <1>2, <1>4, <1>6, <1>12, <2>1, Relisted
<1>15. Unwritten /\ UNCHANGED cut
  BY DEF ReadPage
<1> QED BY <1>12, <1>13, <1>14, <1>15, UnwrittenTyped DEF Typed, Lands

LEMMA AnswerTyped == ASSUME TInv, NEW c \in Client, Answer(c) PROVE Typed(c)
<1>1. call[c].todo # << >>
  BY AtStep DEF Answer
<1> QED BY <1>1, LastStepLands, UnwrittenTyped DEF Answer, Typed

-----------------------------------------------------------------------------
(* The types: the first looks                                              *)

LEMMA LookingIs ==
  ASSUME TInv, NEW c \in Client, Doing(c, "look"), NEW k, k = call[c]
  PROVE  /\ Busy(k) /\ Len(k.todo) = 1 /\ k.req = Req(c) /\ k.todo # << >> /\ k.todo \in Seq(Step) /\ k \in Call
         /\ k.req \in Requests /\ k.req \in Request /\ WellFormed(k.req)
<1>1. Busy(k) /\ Len(k.todo) = 1 /\ k.todo # << >>
  BY AtStep DEF Alone
<1> QED BY <1>1, ObjectsAssumption DEF Busy, Regular, Call, Req

\* What the first look puts in the list is all there is to it.
LEMMA ProceedFromLook ==
  ASSUME TInv, NEW c \in Client, Doing(c, "look"), NEW more \in Seq(Step), more # << >>, Proceed(c, more),
         NEW l, l = [call[c] EXCEPT !.todo = more]
  PROVE  Becomes(c, l)
<1>1. PICK k : k = call[c]
  OBVIOUS
<1>2. Len(k.todo) = 1 /\ k.todo \in Seq(Step)
  BY <1>1, LookingIs
<1>3. PICK t : t = Tail(k.todo)
  OBVIOUS
<1>4. t \in Seq(Step) /\ Len(t) = 0
  <2>1. PICK s \in Seq(Step) : s = k.todo /\ Len(s) = 1
    BY <1>2
  <2>2. s # << >> /\ t = Tail(s)
    BY <1>3, <2>1
  <2>3. t \in Seq(Step) /\ Len(t) = Len(s) - 1
    BY <2>2
  <2> QED BY <2>1, <2>3
<1>5. PICK u : u = more \o t
  OBVIOUS
<1>6. u = more
  <2>1. u \in Seq(Step) /\ Len(u) = Len(more) + Len(t) /\ \A j \in 1..Len(more) : u[j] = more[j]
    BY ONLY <1>4, <1>5, more \in Seq(Step), Joined
  <2>2. Len(u) = Len(more)
    <3> HIDE DEF Step
    <3> QED BY <1>4, <2>1
  <2> HIDE DEF Step
  <2> QED BY <2>1, <2>2
<1>7. more \o Tail(call[c].todo) = more
  BY <1>1, <1>3, <1>5, <1>6
<1>8. call' = [call EXCEPT ![c].todo = more]
  BY <1>7 DEF Proceed
<1> QED BY <1>8 DEF Becomes, TInv, TypeOK

LEMMA SeqMono ==
  ASSUME NEW i \in Id, NEW s \in Seq(Single \X {i})
  PROVE  s \in Seq(Step)
<1>1. Single \X {i} \subseteq Step
  BY DEF Step
<1>2. \A j \in 1..Len(s) : s[j] \in Step
  BY <1>1
<1> HIDE DEF Step
<1> QED BY <1>2

\* Every creation ends with more than the look for a root.
LEMMA CreateStepsTyped ==
  ASSUME NEW req, NEW i \in Id, NEW s, s = CreateSteps(req, i)
  PROVE  /\ s \in Seq(Step) /\ s # << >>
         /\ \A j \in DOMAIN s : /\ s[j][1] \in {"staged", "root", "row", "parts", "props", "grant", "link"}
                                /\ s[j][1] = "root" => j # Len(s)
<1>1. /\ Chain(s, 1, 7, i) /\ Has(s, <<"row", i>>)
      /\ \A x : Has(s, x) => x[1] \in {"staged", "root", "row", "parts", "props", "grant", "link"}
  BY CreateStepsAre
<1>2. s \in Seq(Step) /\ DOMAIN s = 1..Len(s) /\ Len(s) \in Nat
  <2>1. s \in Seq(Single \X {i})
    BY <1>1 DEF Chain
  <2>2. s \in Seq(Step)
    BY <2>1, SeqMono
  <2> QED BY <2>1, <2>2
<1>3. PICK l \in DOMAIN s : s[l] = <<"row", i>>
  BY <1>1 DEF Has
<1>4. \A j \in DOMAIN s : s[j][1] \in {"staged", "root", "row", "parts", "props", "grant", "link"}
  BY <1>1 DEF Has
<1>5. ASSUME NEW j \in DOMAIN s, s[j][1] = "root", j = Len(s) PROVE FALSE
  <2>1. l # j
    BY <1>3, <1>5
  <2>2. l < j
    BY <1>2, <1>5, <2>1
  <2>3. Rank(s[l][1]) < Rank(s[j][1])
    BY <1>1, <2>2 DEF Chain
  <2>4. Rank("row") = 3 /\ Rank("root") = 2 /\ s[l][1] = "row"
    BY <1>3 DEF Rank
  <2> QED BY <1>5, <2>3, <2>4
<1>6. s # << >>
  <2> HIDE DEF Step
  <2> QED BY <1>2, <1>3
<1> QED BY <1>2, <1>4, <1>5, <1>6

LEMMA LookCreateTyped ==
  ASSUME TInv, NEW c \in Client, LookCreate(c)
  PROVE  Typed(c) /\ nextId' \in 1..(MaxId + 1)
<1> DEFINE parent == IF Req(c).kind = "catalog" THEN None ELSE FindParent(db, Req(c).kind, Req(c).path)
           i == IF Req(c).staged # None THEN Req(c).staged ELSE nextId
<1>0. Doing(c, "look") /\ Req(c).op \in {"create", "stage"} /\ nextId \in 1..(MaxId + 1) /\ call[c].todo # << >>
  BY DEF LookCreate, Looks, Doing, TInv, TypeOK
<1>1. PICK k : k = call[c]
  OBVIOUS
<1>2. /\ Busy(k) /\ Len(k.todo) = 1 /\ k.req = Req(c) /\ k.todo # << >> /\ k.todo \in Seq(Step) /\ k \in Call
      /\ k.req \in Requests /\ k.req \in Request /\ WellFormed(k.req)
  BY <1>0, <1>1, LookingIs
<1>3. CASE Fails(c) /\ UNCHANGED nextId
  BY <1>0, <1>3, FailsLands DEF Typed
<1>4. CASE /\ i <= MaxId /\ nextId' = (IF i = nextId THEN nextId + 1 ELSE nextId)
           /\ call' = [call EXCEPT ![c].parent = parent,
                                   ![c].todo = IF Req(c).op = "create" THEN CreateSteps(Req(c), i)
                                               ELSE <<<<"stageRow", i>>, <<"grant", i>>>>]
           /\ Unwritten /\ UNCHANGED cut
  <2>1. i \in Id
    <3>1. k.req.staged \in Id \cup {None}
      BY <1>2 DEF Request
    <3>2. MaxId \in Nat
      BY ObjectsAssumption
    <3>3. CASE Req(c).staged # None
      BY <1>2, <3>1, <3>3
    <3>4. CASE Req(c).staged = None
      BY <1>0, <1>4, <3>2, <3>4 DEF Id
    <3> QED BY <3>3, <3>4
  <2>2. nextId' \in 1..(MaxId + 1)
    BY <1>0, <1>4, <2>1, ObjectsAssumption DEF Id
  <2>3. PICK p : p = parent
    OBVIOUS
  <2>4. p \in Id \cup {None}
    BY <1>2, <2>3, FindPathType DEF FindParent, ParentKind, Kinds
  <2>5. PICK x : x = i
    OBVIOUS
  <2>6. PICK s : s = IF Req(c).op = "create" THEN CreateSteps(Req(c), x) ELSE << <<"stageRow", x>>, <<"grant", x>> >>
    OBVIOUS
  <2>7. /\ s \in Seq(Step) /\ s # << >>
        /\ \A j \in DOMAIN s : /\ s[j][1] \in OpSteps(k.req.op) \ (Alone \cup {"version"})
                               /\ s[j][1] = "root" => j # Len(s)
    <3>1. CASE Req(c).op = "create"
      <4>1. s = CreateSteps(Req(c), x)
        BY <2>6, <3>1
      <4>2. /\ s \in Seq(Step) /\ s # << >>
            /\ \A j \in DOMAIN s : /\ s[j][1] \in {"staged", "root", "row", "parts", "props", "grant", "link"}
                                   /\ s[j][1] = "root" => j # Len(s)
        BY <2>1, <2>5, <4>1, CreateStepsTyped
      <4>3. {"staged", "root", "row", "parts", "props", "grant", "link"} \subseteq OpSteps(k.req.op) \ (Alone \cup {"version"})
        BY <1>2, <3>1 DEF OpSteps, Alone
      <4> QED BY <4>2, <4>3
    <3>2. CASE Req(c).op = "stage"
      <4>1. s = << <<"stageRow", x>>, <<"grant", x>> >>
        BY <2>6, <3>2
      <4>2. <<"stageRow", x>> \in Step /\ <<"grant", x>> \in Step
        BY <2>1, <2>5 DEF Step, Single
      <4>3. s \in Seq(Step) /\ s # << >> /\ DOMAIN s = {1, 2} /\ s[1][1] = "stageRow" /\ s[2][1] = "grant"
        BY <4>1, <4>2
      <4>4. {"stageRow", "grant"} \subseteq OpSteps(k.req.op) \ (Alone \cup {"version"})
        BY <1>2, <3>2 DEF OpSteps, Alone
      <4> QED BY <4>3, <4>4
    <3> QED BY <1>0, <3>1, <3>2
  <2>8. PICK l : l = [k EXCEPT !.parent = p, !.todo = s]
    OBVIOUS
  <2>9. l \in Call /\ l.n = k.n /\ l.req = k.req /\ l.todo = s /\ l.number = k.number
    <3> HIDE DEF Step, Id, None
    <3> QED BY <1>2, <2>4, <2>7, <2>8 DEF Call
  <2>10. Becomes(c, l)
    BY <1>1, <1>4, <2>3, <2>5, <2>6, <2>8 DEF Becomes, TInv, TypeOK
  <2>11. Regular(l)
    BY <1>2, <2>7, <2>9, Relisted
  <2> QED BY <1>4, <2>2, <2>9, <2>10, <2>11, UnwrittenTyped DEF Typed, Lands
<1> QED BY <1>3, <1>4 DEF LookCreate

LEMMA StepsOnTyped ==
  ASSUME NEW req \in Request, WellFormed(req), req.op \in {"delete", "rename", "dropVersion"}, NEW i \in Id, NEW s, s = StepsOn(req, i)
  PROVE  /\ s \in Seq(Step) /\ s # << >>
         /\ \A j \in DOMAIN s : /\ s[j][1] \in OpSteps(req.op) /\ s[j][1] \notin {"version", "root"}
                                /\ s[j][1] \in Alone => Len(s) = 1
         /\ \/ req.op # "delete" /\ Len(s) = 1 /\ s[1] = <<req.op, i>>
            \/ req.op = "delete" /\ req.kind \in {"catalog", "schema"} /\ Len(s) = 1 /\ s[1] = <<"empty", i>>
            \/ /\ req.op = "delete" /\ req.kind \in Leaves /\ req.kind # "table"
               /\ Len(s) = 2 /\ s[1] = <<"dropProps", i>> /\ s[2] = <<"dropRow", i>>
            \/ /\ req.op = "delete" /\ req.kind = "table"
               /\ Len(s) = 3 /\ s[1] = <<"dropParts", i>> /\ s[2] = <<"dropProps", i>> /\ s[3] = <<"dropRow", i>>
<1>1. CASE req.op # "delete"
  <2>1. s = << <<req.op, i>> >>
    BY <1>1 DEF StepsOn
  <2>2. PICK x : x = <<req.op, i>>
    OBVIOUS
  <2>3. x \in Step /\ x[1] = req.op
    BY <2>2, <1>1 DEF Step, Single
  <2>4. s \in Seq(Step) /\ s # << >> /\ Len(s) = 1 /\ DOMAIN s = {1} /\ s[1] = x
    BY <2>1, <2>2, <2>3, OneStep
  <2>5. req.op \in OpSteps(req.op) /\ req.op \notin {"version", "root"}
    BY <1>1 DEF OpSteps
  <2> QED BY <1>1, <2>2, <2>3, <2>4, <2>5
<1>2. CASE req.op = "delete" /\ req.kind \in {"catalog", "schema"}
  <2>1. s = << <<"empty", i>> >>
    BY <1>2 DEF StepsOn
  <2>2. PICK x : x = <<"empty", i>>
    OBVIOUS
  <2>3. x \in Step /\ x[1] = "empty"
    BY <2>2 DEF Step, Single
  <2>4. s \in Seq(Step) /\ s # << >> /\ Len(s) = 1 /\ DOMAIN s = {1} /\ s[1] = x
    BY <2>1, <2>2, <2>3, OneStep
  <2>5. "empty" \in OpSteps(req.op)
    BY <1>2 DEF OpSteps
  <2> QED BY <1>2, <2>2, <2>3, <2>4, <2>5
<1>3. CASE req.op = "delete" /\ req.kind \in Leaves
  <2>1. s = DropSteps(req.kind, i)
    BY <1>3 DEF StepsOn, Leaves
  <2>2. /\ s \in Seq(Step)
        /\ req.kind = "table" => Len(s) = 3 /\ s[1] = <<"dropParts", i>> /\ s[2] = <<"dropProps", i>> /\ s[3] = <<"dropRow", i>>
        /\ req.kind # "table" => Len(s) = 2 /\ s[1] = <<"dropProps", i>> /\ s[2] = <<"dropRow", i>>
    BY <2>1, DropStepsAre
  <2>3. DOMAIN s = 1..Len(s) /\ s # << >>
    <3> HIDE DEF Step
    <3> QED BY <2>2
  <2>4. \A j \in DOMAIN s : s[j][1] \in {"dropParts", "dropProps", "dropRow"}
    BY <2>2, <2>3
  <2>5. {"dropParts", "dropProps", "dropRow"} \subseteq OpSteps(req.op) /\ \A w \in {"dropParts", "dropProps", "dropRow"} : w \notin Alone
    BY <1>3 DEF OpSteps, DropStep, Alone
  <2> QED BY <1>3, <2>2, <2>3, <2>4, <2>5
<1>4. req.kind \in Kinds
  BY DEF Request
<1> QED BY <1>1, <1>2, <1>3, <1>4 DEF Kinds

LEMMA LookUpTyped ==
  ASSUME TInv, NEW c \in Client, NEW op \in {"delete", "rename", "dropVersion"}, LookUp(c, op)
  PROVE  Typed(c) /\ UNCHANGED nextId
<1>0. Doing(c, "look") /\ Req(c).op = op /\ call[c].todo # << >>
  BY DEF LookUp, Looks, Doing
<1>1. PICK k : k = call[c]
  OBVIOUS
<1>2. /\ Busy(k) /\ Len(k.todo) = 1 /\ k.req = Req(c) /\ k.todo # << >> /\ k.todo \in Seq(Step) /\ k \in Call
      /\ k.req \in Requests /\ k.req \in Request /\ WellFormed(k.req)
  BY <1>0, <1>1, LookingIs
<1>3. PICK i : i = FindPath(db, Req(c).kind, Req(c).path)
  OBVIOUS
<1>4. CASE Fails(c)
  BY <1>0, <1>4, FailsLands DEF Typed, LookUp
<1>5. CASE i # None /\ Proceed(c, StepsOn(Req(c), i)) /\ Unwritten /\ UNCHANGED cut
  <2>1. i \in Id
    BY <1>2, <1>3, <1>5, FindPathType DEF Request
  <2>2. PICK s : s = StepsOn(Req(c), i)
    OBVIOUS
  <2>3. /\ s \in Seq(Step) /\ s # << >>
        /\ \A j \in DOMAIN s : /\ s[j][1] \in OpSteps(k.req.op) /\ s[j][1] \notin {"version", "root"}
                               /\ s[j][1] \in Alone => Len(s) = 1
    BY <1>0, <1>2, <2>1, <2>2, StepsOnTyped
  <2>4. PICK l : l = [k EXCEPT !.todo = s]
    OBVIOUS
  <2>5. l \in Call /\ l.n = k.n /\ l.req = k.req /\ l.todo = s /\ l.number = k.number
    <3> HIDE DEF Step, Id, None
    <3> QED BY <1>2, <2>3, <2>4 DEF Call
  <2>6. Becomes(c, l)
    BY <1>0, <1>1, <1>5, <2>2, <2>3, <2>4, ProceedFromLook
  <2>7. Regular(l)
    BY <1>2, <2>3, <2>5, Relisted
  <2> QED BY <1>5, <2>5, <2>6, <2>7, UnwrittenTyped DEF Typed, Lands, LookUp
<1> QED BY <1>3, <1>4, <1>5 DEF LookUp

-----------------------------------------------------------------------------
(* The types: all steps                                                    *)

LEMMA LookAddVersionTyped ==
  ASSUME TInv, NEW c \in Client, LookAddVersion(c)
  PROVE  Typed(c) /\ UNCHANGED nextId
<1>0. Doing(c, "look") /\ Req(c).op = "addVersion" /\ call[c].todo # << >>
  BY DEF LookAddVersion, Looks, Doing
<1>1. PICK k : k = call[c]
  OBVIOUS
<1>2. /\ Busy(k) /\ Len(k.todo) = 1 /\ k.req = Req(c) /\ k.todo # << >> /\ k.todo \in Seq(Step) /\ k \in Call
      /\ k.req \in Requests /\ k.req \in Request /\ WellFormed(k.req)
  BY <1>0, <1>1, LookingIs
<1>3. PICK i : i = FindPath(db, "model", Req(c).path)
  OBVIOUS
<1>4. CASE Fails(c)
  BY <1>0, <1>4, FailsLands DEF Typed, LookAddVersion
<1>5. CASE /\ i # None /\ db.objs[i].max < MaxVersion
           /\ call' = [call EXCEPT ![c].todo = << <<"version", i>>, <<"max", i>> >>, ![c].number = db.objs[i].max + 1]
           /\ Unwritten /\ UNCHANGED cut
  <2>1. i \in Id /\ i \in Live(db)
    <3>1. i \in Live(db)
      BY <1>3, <1>5, FindPathIs DEF Kinds, Leaves
    <3> QED BY <3>1, LiveIs
  <2>2. PICK s : s = << <<"version", i>>, <<"max", i>> >>
    OBVIOUS
  <2>3. <<"version", i>> \in Step /\ <<"max", i>> \in Step
    BY <2>1 DEF Step, Single
  <2>4. s \in Seq(Step) /\ s # << >> /\ DOMAIN s = {1, 2} /\ s[1][1] = "version" /\ s[2][1] = "max"
    BY <2>2, <2>3
  <2>5. PICK n : n = db.objs[i].max + 1
    OBVIOUS
  <2>6. n \in 0..MaxVersion /\ n # 0
    <3>1. db.objs[i] \in Object
      BY <2>1 DEF TInv, TypeOK, Database, Live
    <3>2. db.objs[i].max \in 0..MaxVersion /\ MaxVersion \in Nat
      BY <3>1, ObjectsAssumption DEF Object
    <3> QED BY <1>5, <2>5, <3>2
  <2>7. PICK l : l = [k EXCEPT !.todo = s, !.number = n]
    OBVIOUS
  <2>8. l \in Call /\ l.n = k.n /\ l.req = k.req /\ l.todo = s /\ l.number = n
    <3> HIDE DEF Step, Id, None
    <3> QED BY <1>2, <2>4, <2>6, <2>7 DEF Call
  <2>9. Becomes(c, l)
    BY <1>1, <1>5, <2>2, <2>5, <2>7 DEF Becomes, TInv, TypeOK
  <2>10. Regular(l)
    <3>1. {"version", "max"} \subseteq OpSteps(k.req.op) \ Alone
      BY <1>0, <1>2 DEF OpSteps, Alone
    <3> QED BY <1>2, <2>4, <2>6, <2>8, <3>1, Relisted
  <2> QED BY <1>5, <2>8, <2>9, <2>10, UnwrittenTyped DEF Typed, Lands, LookAddVersion
<1> QED BY <1>3, <1>4, <1>5 DEF LookAddVersion

LEMMA LookListTyped ==
  ASSUME TInv, NEW c \in Client, LookList(c)
  PROVE  Typed(c) /\ UNCHANGED nextId
<1> DEFINE parent == IF Req(c).kind = "catalog" THEN None ELSE FindParent(db, Req(c).kind, Req(c).path)
<1>0. Doing(c, "look") /\ Req(c).op = "list" /\ call[c].todo # << >>
  BY DEF LookList, Looks, Doing
<1>1. PICK k : k = call[c]
  OBVIOUS
<1>2. /\ Busy(k) /\ Len(k.todo) = 1 /\ k.req = Req(c) /\ k.todo # << >> /\ k.todo \in Seq(Step) /\ k \in Call
      /\ k.req \in Requests /\ k.req \in Request /\ WellFormed(k.req)
  BY <1>0, <1>1, LookingIs
<1>3. PICK p : p = parent
  OBVIOUS
<1>4. p \in Id \cup {None}
  BY <1>2, <1>3, FindPathType DEF FindParent, ParentKind, Kinds
<1>5. CASE Fails(c)
  BY <1>0, <1>5, FailsLands DEF Typed, LookList
<1>6. CASE /\ call' = [call EXCEPT ![c].parent = p, ![c].todo = << <<"page", p>> >>]
           /\ Unwritten /\ UNCHANGED cut
  <2>1. PICK x : x = <<"page", p>>
    OBVIOUS
  <2>2. x \in Step /\ x[1] = "page"
    BY <1>4, <2>1 DEF Step
  <2>3. PICK s : s = <<x>>
    OBVIOUS
  <2>4. s \in Seq(Step) /\ s # << >> /\ Len(s) = 1 /\ DOMAIN s = {1} /\ s[1] = x
    BY <2>2, <2>3, OneStep
  <2>5. PICK l : l = [k EXCEPT !.parent = p, !.todo = s]
    OBVIOUS
  <2>6. l \in Call /\ l.n = k.n /\ l.req = k.req /\ l.todo = s /\ l.number = k.number
    <3> HIDE DEF Step, Id, None
    <3> QED BY <1>2, <1>4, <2>4, <2>5 DEF Call
  <2>7. Becomes(c, l)
    BY <1>1, <1>6, <2>1, <2>3, <2>5 DEF Becomes, TInv, TypeOK
  <2>8. Regular(l)
    <3>1. "page" \in OpSteps(k.req.op)
      BY <1>0, <1>2 DEF OpSteps
    <3> QED BY <1>2, <2>2, <2>4, <2>6, <3>1, Relisted
  <2> QED BY <1>6, <2>6, <2>7, <2>8, UnwrittenTyped DEF Typed, Lands, LookList
<1> QED BY <1>3, <1>5, <1>6 DEF LookList

\* The new call's record.
Newcomer(n, req) == [Idle EXCEPT !.n = n, !.req = req, !.todo = << <<"look", None>> >>]

LEMMA NewcomerTyped ==
  ASSUME NEW n \in Ordinal, NEW req \in Requests, NEW l, l = Newcomer(n, req)
  PROVE  /\ l \in Call /\ Regular(l) /\ l.n = n /\ l.req = req /\ l.todo = << <<"look", None>> >>
         /\ l.parent = None /\ l.from = None /\ l.number = 0 /\ l.seen = {} /\ l.twice = {} /\ l.after = None
         /\ Len(l.todo) = 1 /\ l.todo[1] = <<"look", None>> /\ DOMAIN l.todo = {1}
<1>1. PICK x : x = <<"look", None>>
  OBVIOUS
<1>2. x \in Step /\ x[1] = "look"
  BY <1>1 DEF Step
<1>3. PICK s : s = <<x>>
  OBVIOUS
<1>4. s \in Seq(Step) /\ s # << >> /\ Len(s) = 1 /\ DOMAIN s = {1} /\ s[1] = x
  BY <1>2, <1>3, OneStep
<1>5. l = [Idle EXCEPT !.n = n, !.req = req, !.todo = s]
  BY <1>1, <1>3 DEF Newcomer
<1>6. /\ l.n = n /\ l.req = req /\ l.todo = s
      /\ l.parent = None /\ l.from = None /\ l.number = 0 /\ l.seen = {} /\ l.twice = {} /\ l.after = None
  BY <1>5 DEF Idle
<1>7. l \in Call
  <2>1. Idle \in Call
    BY IdleCall
  <2> HIDE DEF Step, Id, None, Ordinal, Idle
  <2> QED BY <1>4, <1>5, <2>1 DEF Call
<1>8. n # None
  BY DEF Ordinal, None
<1>9. Regular(l)
  BY <1>2, <1>4, <1>6, <1>8 DEF Regular
<1> QED BY <1>1, <1>3, <1>4, <1>6, <1>7, <1>9

\* The state after a step of one call that is typed.
LEMMA Landed ==
  ASSUME TInv, NEW c \in Client, Typed(c), nextId' \in 1..(MaxId + 1),
         begun' \in 0..MaxCalls, faults' \in 0..MaxFaults, user' \in BOOLEAN, met' \in SUBSET SUBSET Ordinal
  PROVE  TInv'
<1>1. PICK k \in Call : Becomes(c, k) /\ (k = Idle \/ Regular(k))
  BY DEF Typed, Lands
<1>2. call' \in [Client -> Call] /\ call'[c] = k /\ \A d \in Client \ {c} : call'[d] = call[d]
  BY <1>1, CallOneChanges DEF TInv, TypeOK
<1>3. TypeOK'
  BY <1>2 DEF Typed, RowsTyped, TypeOK
<1>4. \A d \in Client : call'[d] = Idle \/ Regular(call'[d])
  BY <1>1, <1>2 DEF TInv
<1> QED BY <1>3, <1>4 DEF TInv

LEMMA BeginTyped == ASSUME TInv, NEW c \in Client, Begin(c) PROVE TInv'
<1>1. begun \in 0..MaxCalls /\ MaxCalls \in Nat
  BY ObjectsAssumption DEF TInv, TypeOK
<1>2. begun + 1 \in Ordinal /\ begun' = begun + 1 /\ begun' \in 0..MaxCalls
  BY <1>1 DEF Begin, Ordinal
<1>3. PICK req \in Requests :
        call' = [call EXCEPT ![c] = [Idle EXCEPT !.n = begun + 1, !.req = req, !.todo = << <<"look", None>> >>]]
  BY DEF Begin
<1>4. PICK l : l = Newcomer(begun + 1, req)
  OBVIOUS
<1>5. l \in Call /\ Regular(l)
  BY <1>2, <1>4, NewcomerTyped
<1>6. Becomes(c, l)
  BY <1>3, <1>4 DEF Becomes, Newcomer
<1>7. met' \in SUBSET SUBSET Ordinal
  <2>1. \A d \in Client : call[d] # Idle => call[d].n \in Ordinal
    BY DEF TInv, TypeOK, Regular, Call
  <2>2. {{call[d].n, begun + 1} : d \in {e \in Client : call[e] # Idle}} \in SUBSET SUBSET Ordinal
    BY <2>1, <1>2
  <2> QED BY <2>2 DEF Begin, TInv, TypeOK
<1>8. RowsTyped /\ nextId' \in 1..(MaxId + 1) /\ faults' \in 0..MaxFaults /\ user' \in BOOLEAN
  BY UnwrittenTyped DEF Begin, TInv, TypeOK
<1> QED BY <1>2, <1>5, <1>6, <1>7, <1>8, Landed DEF Typed, Lands

LEMMA OutsideTyped ==
  ASSUME TInv, NEW c \in Client, Typed(c), Outside, nextId' \in 1..(MaxId + 1)
  PROVE  TInv'
BY Landed DEF Outside, TInv, TypeOK

LEMMA InterruptTyped == ASSUME TInv, NEW c \in Client, Interrupt(c) PROVE TInv'
<1>1. Typed(c)
  BY FailsLands DEF Interrupt, Typed
<1>2. faults' \in 0..MaxFaults
  BY ObjectsAssumption DEF Interrupt, TInv, TypeOK
<1> QED BY <1>1, <1>2, Landed DEF Interrupt, TInv, TypeOK

LEMMA DeleteUserTyped == ASSUME TInv, DeleteUser PROVE TInv'
<1>1. faults' \in 0..MaxFaults
  BY ObjectsAssumption DEF DeleteUser, TInv, TypeOK
<1> QED BY <1>1 DEF DeleteUser, Unwritten, TInv, TypeOK

LEMMA WorkTyped ==
  ASSUME TInv, NEW c \in Client, Work(c), Doing(c, "rename") => note[On(c)].kind = Req(c).kind
  PROVE  TInv'
<1>1. Outside /\ nextId' \in 1..(MaxId + 1)
  BY DEF Work, TInv, TypeOK
<1>2. CASE Rename(c)
  BY <1>1, <1>2, RenameTyped, OutsideTyped DEF Rename
<1>3. CASE \/ StagedTable(c) \/ FindRoot(c) \/ CreateRow(c) \/ GrantOwner(c) \/ DropOne(c) \/ CheckEmpty(c)
           \/ ListChildren(c) \/ NextChild(c) \/ PutVersion(c) \/ SetMax(c) \/ DropVersion(c) \/ ReadPage(c) \/ Answer(c)
  BY <1>1, <1>3, StagedTableTyped, FindRootTyped, CreateRowTyped, GrantOwnerTyped, DropOneTyped, CheckEmptyTyped,
     ListChildrenTyped, NextChildTyped, PutVersionTyped, SetMaxTyped, DropVersionTyped, ReadPageTyped, AnswerTyped,
     OutsideTyped
<1>4. CASE \/ MarkCommitted(c) \/ StageRow(c) \/ AddParts(c) \/ SetProps(c) \/ LinkChild(c) \/ DropParts(c) \/ DropProps(c)
  BY <1>1, <1>4, SimpleTyped, OutsideTyped
<1> QED BY <1>2, <1>3, <1>4 DEF Work

LEMMA LookTyped == ASSUME TInv, NEW c \in Client, Look(c) PROVE TInv'
<1>1. nextId \in 1..(MaxId + 1)
  BY DEF TInv, TypeOK
<1>2. Typed(c) /\ nextId' \in 1..(MaxId + 1)
  BY <1>1, LookCreateTyped, LookUpTyped, LookAddVersionTyped, LookListTyped DEF Look, LookDelete, LookRename, LookDropVersion
<1>3. Outside
  BY DEF Look, LookCreate, LookDelete, LookRename, LookDropVersion, LookUp, LookAddVersion, LookList
<1> QED BY <1>2, <1>3, OutsideTyped

RenamesKind == \A c \in Client : Doing(c, "rename") => note[On(c)].kind = Req(c).kind

LEMMA NextTyped == TInv /\ RenamesKind /\ [Next]_vars => TInv'
<1> SUFFICES ASSUME TInv, RenamesKind, [Next]_vars PROVE TInv'
  OBVIOUS
<1>1. CASE UNCHANGED vars
  BY <1>1 DEF vars, TInv, TypeOK, Regular
<1>2. ASSUME NEW c \in Client, Begin(c) \/ Look(c) \/ Work(c) \/ Interrupt(c) PROVE TInv'
  BY <1>2, BeginTyped, LookTyped, WorkTyped, InterruptTyped DEF RenamesKind
<1> QED BY <1>1, <1>2, DeleteUserTyped DEF Next

LEMMA InitTyped == Init => TInv
<1> SUFFICES ASSUME Init PROVE TInv
  OBVIOUS
<1>1. db \in Database /\ {MaxId, MaxCalls, MaxFaults, MaxVersion, PageSize} \subseteq Nat
  BY ObjectsAssumption DEF Init
<1>2. nextId \in 1..(MaxId + 1)
  <2>1. PICK n \in 0..MaxId : SeedIds = 1..n
    BY ObjectsAssumption
  <2>2. Cardinality(SeedIds) = n
    BY <1>1, <2>1, FS_Interval
  <2>3. nextId = 1 + n /\ MaxId \in Nat
    BY <1>1, <2>2 DEF Init
  <2> HIDE DEF SeedIds
  <2> QED BY <2>1, <2>3
<1>3. call \in [Client -> Call] /\ \A c \in Client : call[c] = Idle
  BY IdleCall DEF Init
<1>4. note \in [Id -> Notes]
  <2>1. ASSUME NEW i \in Id, NEW W \in SUBSET {"parts", "props"}
        PROVE  [NoNote EXCEPT !.kind = Seed.objs[i].kind, !.wants = W] \in Notes
    <3>1. Seed.objs[i].kind \in Kinds \cup {"none"}
      <4>1. Seed.objs[i] \in Object \cup {NoObject}
        BY <1>1 DEF Init, Database
      <4> QED BY <4>1 DEF Object, NoObject
    <3> QED BY <3>1 DEF NoNote, Notes
  <2>2. \A i \in Id : note[i] \in Notes
    <3> TAKE i \in Id
    <3>1. PICK W \in SUBSET {"parts", "props"} :
            W = {w \in {"parts", "props"} : i \in IF w = "parts" THEN Seed.parts ELSE Seed.props}
      OBVIOUS
    <3>2. note[i] = [NoNote EXCEPT !.kind = Seed.objs[i].kind, !.wants = W]
      BY <3>1 DEF Init
    <3> QED BY <2>1, <3>2, ZenonT(60)
  <2>3. note = [i \in Id |-> note[i]]
    BY DEF Init
  <2> QED BY <2>2, <2>3
<1>5. begun \in 0..MaxCalls /\ faults \in 0..MaxFaults /\ user \in BOOLEAN /\ met \in SUBSET SUBSET Ordinal /\ cut \subseteq Ordinal
      /\ touched \in [Id -> SUBSET Ordinal]
  <2>1. MaxCalls \in Nat /\ MaxFaults \in Nat
    BY <1>1
  <2>2. begun = 0 /\ faults = 0 /\ user = TRUE /\ met = {} /\ cut = {} /\ touched = [i \in Id |-> {}]
    BY DEF Init
  <2>3. begun \in 0..MaxCalls /\ faults \in 0..MaxFaults
    BY <2>1, <2>2
  <2> QED BY <2>2, <2>3
<1> QED BY <1>1, <1>2, <1>3, <1>4, <1>5 DEF TInv, TypeOK

-----------------------------------------------------------------------------
(* What the steps do to the invariant                                      *)

LEMMA IdleOK == CallOK(Idle)'
<1>1. DOMAIN Idle.todo = {}
  BY DEF Idle
<1> QED BY <1>1 DEF CallOK

At(c, s) == call[c].todo # << >> /\ call[c].todo[1] = s

LEMMA AtSingle ==
  ASSUME TInv, NEW c \in Client, NEW what \in Single, Doing(c, what)
  PROVE  /\ At(c, <<what, On(c)>>) /\ On(c) \in Id /\ Busy(call[c]) /\ call[c].n \in Ordinal
         /\ 1 \in DOMAIN call[c].todo /\ call[c].todo # << >>
<1>1. /\ call[c].todo # << >> /\ call[c].todo[1] \in Step /\ call[c].todo[1][1] = what /\ On(c) = call[c].todo[1][2]
      /\ On(c) \in Id /\ Busy(call[c]) /\ call[c].n \in Ordinal /\ 1 \in DOMAIN call[c].todo
  BY AtStep, Working
<1>2. PICK s \in Step : s = call[c].todo[1]
  BY <1>1
<1>3. s = <<s[1], s[2]>>
  BY <1>1, <1>2 DEF Step, Single
<1> QED BY <1>1, <1>2, <1>3 DEF At

\* What is there stays, and what is new is known to be by the call at the step.
Grows(c) ==
  /\ met \subseteq met' /\ cut \subseteq cut' /\ nextId \in Nat /\ nextId' \in Nat /\ nextId <= nextId'
  /\ \A i \in Id :
       /\ touched[i] \subseteq touched'[i]
       /\ note[i].kind # "none" => note'[i].kind = note[i].kind
       /\ db.staging[i] # "none" => db'.staging[i] # "none"
       /\ db.staging[i] = "committed" => db'.staging[i] = "committed"

SameMade(i) ==
  /\ note'[i].kind = note[i].kind /\ note'[i].made = note[i].made
  /\ db.staging[i] = "none" => db'.staging[i] = "none"

SameRow(i) == i \in Live(db) /\ Key(db'.objs[i]) = Key(db.objs[i])

Changes(c) ==
  \A i \in Id :
    /\ \/ SameMade(i)
       \/ /\ \E what \in Making : At(c, <<what, i>>)
          /\ note'[i].made = call[c].n \/ (note'[i].kind = note[i].kind /\ note'[i].made = note[i].made)
    /\ i \in Live(db') => SameRow(i) \/ (call[c] # Idle /\ call[c].n \in touched'[i])

\* Another call's steps do not mind.
LEMMA OtherOK ==
  ASSUME TInv, RowsInv, NEW c \in Client, NEW d \in Client, c # d, Grows(c), Changes(c), NEW k, k = call[d]
  PROVE  CallOK(k)'
<1>1. CallOK(k) /\ k \in Call /\ (k = Idle \/ Regular(k))
  BY DEF RowsInv, TInv, TypeOK
<1>2. CASE k = Idle
  BY <1>2, IdleOK
<1>3. CASE k # Idle
  <2>0. k.todo \in Seq(Step) /\ k.req \in Request /\ WellFormed(k.req) /\ k.n \in Ordinal /\ k.parent \in Id \cup {None}
    BY <1>1, <1>3, ObjectsAssumption DEF Call, Regular
  <2>1. ASSUME NEW i \in Id, NEW n, n = k.n, Overlaps(n, i) PROVE Overlaps(n, i)'
    BY <2>1 DEF Overlaps, Grows
  <2>2. ASSUME NEW l \in Live(db'), NEW n, n = k.n
        PROVE  SameRow(l) \/ Overlaps(n, l)'
    <3>1. l \in Id
      BY LiveIs
    <3>2. call[c] # Idle => {call[c].n, n} \in met
      BY <1>3, <2>2 DEF RowsInv, AllMet
    <3> QED BY <3>1, <3>2, <2>2 DEF Changes, Grows, Overlaps
  <2>3. ASSUME NEW j \in DOMAIN k.todo PROVE StepOK(k, j)'
    <3>0. PICK s \in Step : s = k.todo[j]
      BY <2>0
    <3>1. PICK i : i = s[2]
      OBVIOUS
    <3>2. StepOK(k, j)
      BY <1>1 DEF CallOK
    <3>3. s[1] \in Single => i \in Id
      BY <3>0, <3>1 DEF Step, Single
    <3>4. s[1] \in Making => MakerOK(k, j)'
      <4> SUFFICES ASSUME s[1] \in Making PROVE MakerOK(k, j)'
        OBVIOUS
      <4>1. MakerOK(k, j) /\ i \in Id /\ i = k.todo[j][2]
        BY <3>0, <3>1, <3>2, <3>3 DEF StepOK, PlainOK, PlaceOK, Making, Single
      <4>2. CASE k.req.staged = None
        <5>1. Fresh(i)
          BY <4>1, <4>2 DEF MakerOK
        <5>2. SameMade(i)
          <6> SUFFICES ASSUME NEW what \in Making, At(c, <<what, i>>) PROVE FALSE
            BY <4>1 DEF Changes
          <6>1. call[c].todo # << >> /\ call[c].todo[1] = <<what, i>> /\ 1 \in DOMAIN call[c].todo
            BY Working DEF At
          <6>2. Req(c).staged # None
            BY <3>0, <3>1, <4>1, <4>2, <6>1 DEF RowsInv, MakersDiffer, Req
          <6>3. MakerOK(call[c], 1)
            <7>1. StepOK(call[c], 1)
              BY <6>1 DEF RowsInv, CallOK
            <7> QED BY <6>1, <7>1 DEF StepOK, PlainOK, PlaceOK
          <6>4. db.staging[i] = "committed"
            BY <6>1, <6>2, <6>3 DEF MakerOK, Making, Req
          <6> QED BY <5>1, <6>4 DEF Fresh
        <5>3. Fresh(i)'
          BY <4>1, <5>1, <5>2 DEF Fresh, SameMade, Grows, Id
        <5> QED BY <4>1, <4>2, <5>3 DEF MakerOK
      <4>3. CASE k.req.staged # None
        <5>1. /\ i = k.req.staged
              /\ k.todo[1][1] = "staged" \/ note[i].kind = "none" \/ {note[i].made, k.n} \in met
              /\ k.todo[1][1] \in {"staged", "mark"} \/ db.staging[i] = "committed"
          BY <4>1, <4>3 DEF MakerOK
        <5>2. k.todo[1][1] = "staged" \/ note'[i].kind = "none" \/ {note'[i].made, k.n} \in met'
          <6>1. CASE note'[i].kind = note[i].kind /\ note'[i].made = note[i].made
            BY <5>1, <6>1 DEF Grows
          <6>2. CASE note'[i].made = call[c].n /\ \E what \in Making : At(c, <<what, i>>)
            <7>1. call[c] # Idle
              BY <6>2, Working DEF At
            <7>2. {call[c].n, k.n} \in met
              BY <7>1, <1>3 DEF RowsInv, AllMet
            <7> QED BY <6>2, <7>2 DEF Grows
          <6> QED BY <4>1, <6>1, <6>2 DEF Changes, SameMade
        <5>3. k.todo[1][1] \in {"staged", "mark"} \/ db'.staging[i] = "committed"
          BY <4>1, <5>1 DEF Grows
        <5> QED BY <4>1, <4>3, <5>1, <5>2, <5>3 DEF MakerOK
      <4> QED BY <4>2, <4>3
    <3>5. s[1] \in {"rename", "empty"} => note'[i].kind = k.req.kind
      <4> SUFFICES ASSUME s[1] \in {"rename", "empty"} PROVE note'[i].kind = k.req.kind
        OBVIOUS
      <4>1. note[i].kind = k.req.kind /\ i \in Id
        BY <3>0, <3>1, <3>2, <3>3 DEF StepOK, PlainOK, PlaceOK, Single
      <4>2. k.req.kind # "none"
        BY <2>0 DEF Request, Kinds, Leaves
      <4> QED BY <4>1, <4>2 DEF Grows
    <3>6. s[1] = "dropRow" => note'[i].kind # "none" /\ note[i].kind # "none"
      BY <3>0, <3>1, <3>2, <3>3 DEF StepOK, PlainOK, PlaceOK, Single, Grows
    <3>7. s[1] \in {"rename", "empty", "dropRow"} => NamedOK(k, i)'
      <4> SUFFICES ASSUME s[1] \in {"rename", "empty", "dropRow"}, note'[i].kind = "catalog",
                          NEW l \in Live(db'), Key(db'.objs[l]) = <<"catalog", None, k.req.path[1]>>
                   PROVE  l = i \/ Overlaps(k.n, l)'
        BY DEF NamedOK
      <4>1. i \in Id /\ NamedOK(k, i)
        BY <3>0, <3>1, <3>2, <3>3 DEF StepOK, PlainOK, PlaceOK, Single
      <4>2. note[i].kind = "catalog"
        <5>1. note[i].kind # "none"
          <6>1. s[1] = "dropRow" \/ note[i].kind = k.req.kind
            BY <3>0, <3>1, <3>2 DEF StepOK, PlainOK, PlaceOK
          <6>2. k.req.kind # "none"
            BY <2>0 DEF Request, Kinds, Leaves
          <6> QED BY <3>6, <6>1, <6>2
        <5> QED BY <4>1, <5>1 DEF Grows
      <4>3. CASE SameRow(l)
        <5>1. l = i \/ Overlaps(k.n, l)
          BY <4>1, <4>2, <4>3 DEF NamedOK, SameRow
        <5> QED BY <5>1, <2>1, LiveIs
      <4> QED BY <4>3, <2>2
    <3>8. s[1] = "each" => \A l \in i : note'[l].kind = s[3]
      <4> SUFFICES ASSUME s[1] = "each", NEW l \in i PROVE note'[l].kind = s[3]
        OBVIOUS
      <4>1. note[l].kind = s[3]
        BY <3>0, <3>1, <3>2 DEF StepOK, PlainOK, PlaceOK
      <4>2. l \in Id /\ s[3] # "none"
        BY <3>0, <3>1 DEF Step, Single, Below, Leaves
      <4> QED BY <4>1, <4>2 DEF Grows
    <3>9. s[1] \in {"page", "answer"} => PageOK(k, s)'
      <4> SUFFICES ASSUME s[1] \in {"page", "answer"} PROVE PageOK(k, s)'
        OBVIOUS
      <4>1. PageOK(k, s)
        BY <3>0, <3>2 DEF StepOK, PlainOK, PlaceOK
      <4>2. ASSUME NEW l \in Under(db', k.parent, k.req.kind)
            PROVE  \/ Overlaps(k.n, l)'
                   \/ l \notin k.twice /\ (l \in k.seen <=> (s[1] = "answer" \/ db'.objs[l].name <= k.after))
        <5>0. l \in Live(db') /\ db'.objs[l].kind = k.req.kind /\ db'.objs[l].parent = k.parent
          BY <4>2 DEF Under
        <5>1. CASE SameRow(l)
          <6>1. db.objs[l].kind = db'.objs[l].kind /\ db.objs[l].parent = db'.objs[l].parent /\ db.objs[l].name = db'.objs[l].name
            BY <5>1 DEF SameRow, Key
          <6>2. l \in Under(db, k.parent, k.req.kind)
            BY <5>0, <5>1, <6>1 DEF Under, SameRow
          <6>3. Overlaps(k.n, l) \/ (l \notin k.twice /\ (l \in k.seen <=> (s[1] = "answer" \/ db.objs[l].name <= k.after)))
            BY <4>1, <6>2 DEF PageOK
          <6> QED BY <6>1, <6>3, <2>1, <5>0, LiveIs
        <5> QED BY <5>0, <5>1, <2>2
      <4> QED BY <4>1, <4>2 DEF PageOK
    <3>10. s[1] = "mark" => db'.staging[i] # "none"
      BY <3>0, <3>1, <3>2, <3>3 DEF StepOK, PlainOK, PlaceOK, Single, Grows
    <3> QED BY <3>0, <3>1, <3>2, <3>4, <3>5, <3>6, <3>7, <3>8, <3>9, <3>10 DEF StepOK, PlainOK, PlaceOK
  <2> QED BY <2>3 DEF CallOK
<1> QED BY <1>2, <1>3

-----------------------------------------------------------------------------
(* Steps that make and rename nothing                                      *)

\* A step that makes nothing and renames nothing.
Tame ==
  /\ db'.staging = db.staging
  /\ \A i \in Id : note'[i].kind = note[i].kind /\ note'[i].made = note[i].made
  /\ \A i \in Live(db') : SameRow(i)

LEMMA TameChanges == ASSUME TInv, NEW c \in Client, Tame PROVE Changes(c)
BY LiveIs DEF Tame, Changes, SameMade

\* The same call, further on.
Alike(k, l) ==
  /\ l.n = k.n /\ l.req = k.req /\ l.parent = k.parent
  /\ l.seen = k.seen /\ l.twice = k.twice /\ l.after = k.after

LEMMA PlainKept ==
  ASSUME NEW c, Grows(c), Tame, NEW k, NEW l, Alike(k, l), NEW s, PlainOK(k, s), s[1] \in Single => s[2] \in Id,
         s[1] = "each" => s[2] \subseteq Id
  PROVE  PlainOK(l, s)'
<1>0. l.n = k.n /\ l.req = k.req /\ l.parent = k.parent /\ l.seen = k.seen /\ l.twice = k.twice /\ l.after = k.after
  BY DEF Alike
<1>1. PICK i : i = s[2]
  OBVIOUS
<1>2. ASSUME NEW x \in Live(db'), Overlaps(k.n, x) PROVE Overlaps(l.n, x)'
  BY <1>0, <1>2, LiveIs DEF Overlaps, Grows
<1>3. s[1] \in {"rename", "empty", "dropRow"} => NamedOK(l, i)'
  <2> SUFFICES ASSUME s[1] \in {"rename", "empty", "dropRow"}, note'[i].kind = "catalog",
                      NEW x \in Live(db'), Key(db'.objs[x]) = <<"catalog", None, l.req.path[1]>>
               PROVE  x = i \/ Overlaps(l.n, x)'
    BY DEF NamedOK
  <2>1. i \in Id /\ NamedOK(k, i)
    BY <1>1 DEF PlainOK, Single
  <2>2. note[i].kind = "catalog" /\ x \in Live(db) /\ Key(db.objs[x]) = <<"catalog", None, k.req.path[1]>>
    BY <1>0, <2>1 DEF Tame, SameRow
  <2>3. x = i \/ Overlaps(k.n, x)
    BY <2>1, <2>2 DEF NamedOK
  <2> QED BY <2>3, <1>2
<1>4. s[1] \in {"page", "answer"} => PageOK(l, s)'
  <2> SUFFICES ASSUME s[1] \in {"page", "answer"} PROVE PageOK(l, s)'
    OBVIOUS
  <2>1. PageOK(k, s)
    BY DEF PlainOK
  <2>2. ASSUME NEW x \in Under(db', l.parent, l.req.kind)
        PROVE  \/ Overlaps(l.n, x)'
               \/ x \notin l.twice /\ (x \in l.seen <=> (s[1] = "answer" \/ db'.objs[x].name <= l.after))
    <3>0. x \in Live(db') /\ db'.objs[x].kind = k.req.kind /\ db'.objs[x].parent = k.parent
      BY <1>0, <2>2 DEF Under
    <3>1. SameRow(x)
      BY <3>0 DEF Tame
    <3>2. db.objs[x].kind = db'.objs[x].kind /\ db.objs[x].parent = db'.objs[x].parent /\ db.objs[x].name = db'.objs[x].name
      BY <3>1 DEF SameRow, Key
    <3>3. x \in Under(db, k.parent, k.req.kind)
      BY <3>0, <3>1, <3>2 DEF Under, SameRow
    <3>4. Overlaps(k.n, x) \/ (x \notin k.twice /\ (x \in k.seen <=> (s[1] = "answer" \/ db.objs[x].name <= k.after)))
      BY <2>1, <3>3 DEF PageOK
    <3> QED BY <1>0, <1>2, <3>0, <3>2, <3>4
  <2> QED BY <1>0, <2>1, <2>2 DEF PageOK
<1>5. s[1] \in {"rename", "empty"} => note'[i].kind = l.req.kind
  BY <1>0, <1>1 DEF PlainOK, Single, Tame
<1>6. s[1] = "dropRow" => note'[i].kind # "none"
  BY <1>1 DEF PlainOK, Single, Tame
<1>7. s[1] = "each" => \A x \in i : note'[x].kind = s[3]
  BY <1>1 DEF PlainOK, Tame
<1>8. s[1] = "look" => l.seen = {} /\ l.twice = {} /\ l.after = None
  BY <1>0 DEF PlainOK
<1> QED BY <1>1, <1>3, <1>4, <1>5, <1>6, <1>7, <1>8 DEF PlainOK

NoNewMakers(k, l) ==
  \A j \in DOMAIN l.todo : l.todo[j][1] \in Making => \E m \in DOMAIN k.todo : k.todo[m] = l.todo[j]

\* The rest of the list is still right, once the first step is done.
LEMMA TailOK ==
  ASSUME TInv, RowsInv, NEW c \in Client, call[c].todo # << >>, NEW k, k = call[c], Grows(c), Tame,
         k.todo[1][1] \notin {"staged", "mark"}, NEW more \in Seq(Step),
         NEW l, Alike(k, l), l.todo = more \o Tail(k.todo),
         \A j \in DOMAIN more : more[j][1] \notin Making \cup {"grant", "staged", "mark"} /\ PlainOK(l, more[j])'
  PROVE  /\ CallOK(l)' /\ NoNewMakers(k, l)
         /\ \A s : Has(k.todo, s) /\ k.todo[1] # s => Has(l.todo, s)
<1>1. CallOK(k) /\ k.todo \in Seq(Step) /\ k.todo # << >> /\ 1 \in DOMAIN k.todo
  BY Working DEF RowsInv
<1>2. PICK t : t = l.todo
  OBVIOUS
<1>3. /\ t \in Seq(Step) /\ Len(t) = Len(more) + Len(k.todo) - 1
      /\ \A j \in DOMAIN more : j \in DOMAIN t /\ t[j] = more[j]
      /\ \A j \in DOMAIN k.todo \ {1} : j + Len(more) - 1 \in DOMAIN t /\ t[j + Len(more) - 1] = k.todo[j]
      /\ \A j \in DOMAIN t : \/ j \in DOMAIN more
                             \/ j - Len(more) + 1 \in DOMAIN k.todo \ {1} /\ t[j] = k.todo[j - Len(more) + 1]
  <2>1. PICK q : q = k.todo
    OBVIOUS
  <2>2. q \in Seq(Step) /\ q # << >> /\ t = more \o Tail(q)
    BY <1>1, <1>2, <2>1
  <2>3. /\ t \in Seq(Step) /\ Len(t) = Len(more) + Len(q) - 1
        /\ \A j \in DOMAIN more : j \in DOMAIN t /\ t[j] = more[j]
        /\ \A j \in DOMAIN q \ {1} : j + Len(more) - 1 \in DOMAIN t /\ t[j + Len(more) - 1] = q[j]
        /\ \A j \in DOMAIN t : \/ j \in DOMAIN more
                               \/ j - Len(more) + 1 \in DOMAIN q \ {1} /\ t[j] = q[j - Len(more) + 1]
    BY ONLY <2>2, more \in Seq(Step), Shifted, SMTT(30)
  <2> QED BY <2>1, <2>3
<1>4. DOMAIN k.todo = 1..Len(k.todo) /\ DOMAIN more = 1..Len(more) /\ DOMAIN t = 1..Len(t) /\ Len(more) \in Nat /\ Len(k.todo) \in Nat
      /\ Len(t) \in Nat
  <2> HIDE DEF Step
  <2> QED BY <1>1, <1>3
<1>5. ASSUME NEW m \in DOMAIN k.todo \ {1}, NEW j \in DOMAIN t, j \notin DOMAIN more, m = j - Len(more) + 1,
             t[j] = k.todo[m], t[j][1] \in Making
      PROVE  MakerOK(l, j)'
  <2>0. k.todo[m] \in Step
    BY <1>1
  <2>1. MakerOK(k, m) /\ k.todo[m][2] \in Id
    <3>1. StepOK(k, m)
      BY <1>1, <1>5 DEF CallOK
    <3>2. PICK s \in Step : s = k.todo[m]
      BY <2>0
    <3>3. s[2] \in Id
      BY <3>2, <1>5 DEF Step, Single, Making
    <3> QED BY <1>5, <3>1, <3>2, <3>3 DEF StepOK, PlaceOK
  <2>2. \A x \in 1..(j - 1) : t[x][1] \notin Making \cup {"grant"}
    <3> TAKE x \in 1..(j - 1)
    <3>1. CASE x \in DOMAIN more
      BY <3>1, <1>3
    <3>2. CASE x \notin DOMAIN more
      <4>1. x \in DOMAIN t
        BY <1>4
      <4>2. x - Len(more) + 1 \in 1..(m - 1) /\ t[x] = k.todo[x - Len(more) + 1]
        BY <1>3, <1>4, <1>5, <3>2, <4>1
      <4> QED BY <4>2, <2>1 DEF MakerOK
    <3> QED BY <3>1, <3>2
  <2>3. CASE k.req.staged = None
    <3>1. Fresh(k.todo[m][2])
      BY <2>1, <2>3 DEF MakerOK
    <3>2. Fresh(k.todo[m][2])'
      BY <2>1, <3>1 DEF Fresh, Tame, Grows, Id
    <3> QED BY <1>2, <1>5, <2>2, <2>3, <3>2 DEF MakerOK, Alike
  <2>4. CASE k.req.staged # None
    <3>1. PICK i \in Id : i = k.todo[m][2]
      BY <2>1
    <3>2. i = k.req.staged /\ (note[i].kind = "none" \/ {note[i].made, k.n} \in met) /\ db.staging[i] = "committed"
      BY <2>1, <2>4, <3>1 DEF MakerOK
    <3>3. (note'[i].kind = "none" \/ {note'[i].made, k.n} \in met') /\ db'.staging[i] = "committed"
      BY <3>2 DEF Tame, Grows
    <3> QED BY <1>2, <1>5, <2>2, <2>4, <3>1, <3>2, <3>3 DEF MakerOK, Alike
  <2> QED BY <2>3, <2>4
<1>6. ASSUME NEW j \in DOMAIN t PROVE StepOK(l, j)' /\ (t[j][1] \in Making => \E m \in DOMAIN k.todo : k.todo[m] = t[j])
  <2>1. CASE j \in DOMAIN more
    BY <1>2, <1>3, <2>1 DEF StepOK, PlaceOK
  <2>2. CASE j \notin DOMAIN more
    <3>1. PICK m \in DOMAIN k.todo \ {1} : m = j - Len(more) + 1 /\ t[j] = k.todo[m]
      BY <1>3, <2>2
    <3>2. PICK s \in Step : s = k.todo[m]
      BY <1>1
    <3>3. StepOK(k, m)
      BY <1>1 DEF CallOK
    <3>4. s[1] \notin {"staged", "mark"} /\ PlainOK(k, s)
      BY <3>1, <3>2, <3>3 DEF StepOK, PlaceOK
    <3>5. (s[1] \in Single => s[2] \in Id) /\ (s[1] = "each" => s[2] \subseteq Id)
      BY <3>2 DEF Step, Single
    <3>6. PlainOK(l, s)'
      BY <3>4, <3>5, PlainKept
    <3>7. s[1] \in Making => MakerOK(l, j)'
      BY <1>5, <2>2, <3>1, <3>2
    <3> QED BY <1>2, <3>1, <3>2, <3>4, <3>6, <3>7 DEF StepOK, PlaceOK
  <2> QED BY <2>1, <2>2
<1>7. CallOK(l)' /\ NoNewMakers(k, l)
  BY <1>2, <1>6 DEF CallOK, NoNewMakers
<1>8. ASSUME NEW s, Has(k.todo, s), k.todo[1] # s PROVE Has(l.todo, s)
  <2>1. PICK m \in DOMAIN k.todo : k.todo[m] = s
    BY <1>8 DEF Has
  <2>2. m + Len(more) - 1 \in DOMAIN t /\ t[m + Len(more) - 1] = s
    BY <1>3, <1>8, <2>1
  <2> QED BY <1>2, <2>2 DEF Has
<1> QED BY <1>7, <1>8

-----------------------------------------------------------------------------
(* A step of one call                                                      *)

\* Whoever has a row to make makes it, is stopped, or still has to.
Keeps(c, l) ==
  \A i \in Id : Has(call[c].todo, <<"row", i>>) =>
    \/ call[c].n \in cut'
    \/ l.n = call[c].n /\ Has(l.todo, <<"row", i>>)
    \/ note'[i].kind = "table" \/ db'.staging[i] # "committed"

\* What the step leaves of the call itself.
Own(c) ==
  \E l \in Call : /\ Becomes(c, l) /\ CallOK(l)'
                  /\ l = Idle \/ (l.n = call[c].n /\ l.req = call[c].req)
                  /\ NoNewMakers(call[c], l) /\ Keeps(c, l)

HitsOK ==
  \A i \in Id : note'[i].hit # note[i].hit => note'[i].hit = None \/ \E x \in touched'[i] : {x, note'[i].hit} \in met'

LEMMA PursuedKept ==
  ASSUME TInv, NEW c \in Client, Grows(c), Own(c), NEW i \in Id, Pursued(i)
  PROVE  Pursued(i)' \/ note'[i].kind = "table" \/ db'.staging[i] # "committed"
<1>1. PICK x \in touched[i] : x \in cut \/ \E d \in Client : call[d].n = x /\ Has(call[d].todo, <<"row", i>>)
  BY DEF Pursued
<1>2. x \in touched'[i]
  BY DEF Grows
<1>3. CASE x \in cut
  BY <1>2, <1>3 DEF Pursued, Grows
<1>4. ASSUME NEW d \in Client, call[d].n = x, Has(call[d].todo, <<"row", i>>)
      PROVE  Pursued(i)' \/ note'[i].kind = "table" \/ db'.staging[i] # "committed"
  <2>1. PICK l \in Call : Becomes(c, l) /\ Keeps(c, l)
    BY DEF Own
  <2>2. call'[c] = l /\ \A e \in Client \ {c} : call'[e] = call[e]
    BY <2>1, CallOneChanges DEF TInv, TypeOK
  <2>3. CASE d = c
    BY <1>2, <1>4, <2>1, <2>2, <2>3 DEF Keeps, Pursued
  <2>4. CASE d # c
    <3>1. call'[d] = call[d]
      BY <2>2, <2>4
    <3> QED BY <1>2, <1>4, <3>1 DEF Pursued
  <2> QED BY <2>3, <2>4
<1> QED BY <1>1, <1>3, <1>4

LEMMA HitKept ==
  ASSUME RowsInv, NEW c, Grows(c), HitsOK, NEW i \in Id, note'[i].hit # None
  PROVE  \E x \in touched'[i] : {x, note'[i].hit} \in met'
<1>1. CASE note'[i].hit = note[i].hit
  <2>1. \E x \in touched[i] : {x, note[i].hit} \in met
    BY <1>1 DEF RowsInv, RowOK, Overlaps
  <2> QED BY <1>1, <2>1 DEF Grows
<1>2. CASE note'[i].hit # note[i].hit
  BY <1>2 DEF HitsOK
<1> QED BY <1>1, <1>2

LEMMA RowsTame ==
  ASSUME TInv, RowsInv, NEW c \in Client, Grows(c), Own(c), Tame, HitsOK
  PROVE  \A i \in Id : RowOK(i)'
<1> TAKE i \in Id
<1>1. RowOK(i)
  BY DEF RowsInv
<1>2. note'[i].kind = note[i].kind /\ db'.staging[i] = db.staging[i]
  BY DEF Tame
<1>3. i \in Live(db') => note'[i].kind = db'.objs[i].kind
  BY <1>1, <1>2 DEF Tame, SameRow, Key, RowOK
<1>4. i >= nextId' => i >= nextId
  BY DEF Grows, Id
<1>5. db'.staging[i] = "committed" => note'[i].kind = "table" \/ Pursued(i)'
  BY <1>1, <1>2, PursuedKept DEF RowOK
<1>6. note'[i].hit # None => \E x \in touched'[i] : {x, note'[i].hit} \in met'
  BY HitKept
<1> QED BY <1>1, <1>2, <1>3, <1>4, <1>5, <1>6 DEF RowOK, Overlaps

\* A step of one call, when it and the rows are right afterwards.
LEMMA Composed ==
  ASSUME TInv, RowsInv, NEW c \in Client, call[c] # Idle, Grows(c), Changes(c), Own(c), \A i \in Id : RowOK(i)'
  PROVE  RowsInv'
<1>1. PICK l \in Call : /\ Becomes(c, l) /\ CallOK(l)'
                        /\ l = Idle \/ (l.n = call[c].n /\ l.req = call[c].req)
                        /\ NoNewMakers(call[c], l)
  BY DEF Own
<1>2. call'[c] = l /\ \A d \in Client \ {c} : call'[d] = call[d]
  BY <1>1, CallOneChanges DEF TInv, TypeOK
<1>3. ASSUME NEW d \in Client, NEW k \in {call'[d]} PROVE CallOK(k)'
  <2>1. CASE d = c
    <3>1. k = l
      BY <1>2, <1>3, <2>1
    <3> QED BY <1>1, <3>1
  <2>2. CASE d # c
    <3>1. k = call[d]
      BY <1>2, <1>3, <2>2
    <3> QED BY <2>2, <3>1, OtherOK
  <2> QED BY <2>1, <2>2
<1>4. \A d \in Client : call'[d] # Idle => call[d] # Idle /\ call'[d].n = call[d].n /\ call'[d].req = call[d].req
  BY <1>1, <1>2
<1>5. AllMet'
  BY <1>4 DEF AllMet, RowsInv, Grows
<1>6. \A d \in Client : \A j \in DOMAIN call'[d].todo : call'[d].todo[j][1] \in Making =>
        /\ call'[d] # Idle
        /\ \E m \in DOMAIN call[d].todo : call[d].todo[m] = call'[d].todo[j]
  <2> TAKE d \in Client
  <2> TAKE j \in DOMAIN call'[d].todo
  <2>1. call'[d] # Idle
    BY DEF Idle
  <2>2. CASE d = c
    BY <1>1, <1>2, <2>1, <2>2 DEF NoNewMakers
  <2>3. CASE d # c
    BY <1>2, <2>1, <2>3
  <2> QED BY <2>2, <2>3
<1>7. MakersDiffer'
  <2> SUFFICES ASSUME NEW d \in Client, NEW e \in Client, d # e, call'[d].req.staged = None, call'[e].req.staged = None,
                      NEW j \in DOMAIN call'[d].todo, NEW m \in DOMAIN call'[e].todo,
                      call'[d].todo[j][1] \in Making, call'[e].todo[m][1] \in Making
               PROVE  call'[d].todo[j][2] # call'[e].todo[m][2]
    BY DEF MakersDiffer, Req
  <2>1. call[d].req.staged = None /\ call[e].req.staged = None
    BY <1>4, <1>6
  <2>2. PICK x \in DOMAIN call[d].todo : call[d].todo[x] = call'[d].todo[j]
    BY <1>6
  <2>3. PICK y \in DOMAIN call[e].todo : call[e].todo[y] = call'[e].todo[m]
    BY <1>6
  <2> QED BY <2>1, <2>2, <2>3 DEF RowsInv, MakersDiffer, Req
<1> QED BY <1>3, <1>5, <1>7 DEF RowsInv

-----------------------------------------------------------------------------
(* The steps keep the rows right                                           *)

LEMMA TameGrows ==
  ASSUME TInv, NEW c, Tame, UNCHANGED <<met, nextId>>, cut \subseteq cut', \A i \in Id : touched[i] \subseteq touched'[i]
  PROVE  Grows(c)
<1>1. nextId \in Nat
  BY ObjectsAssumption DEF TInv, TypeOK
<1> QED BY <1>1 DEF Grows, Tame

LEMMA WriteTouches ==
  ASSUME TInv, NEW c, NEW d, NEW ids, Write(c, d, ids)
  PROVE  /\ \A i \in Id : touched[i] \subseteq touched'[i]
         /\ \A i \in Id : i \in ids => call[c].n \in touched'[i]
BY DEF Write

LEMMA UnwrittenTame == ASSUME TInv, Unwritten PROVE Tame /\ HitsOK /\ \A i \in Id : touched[i] \subseteq touched'[i]
<1>1. \A i \in Live(db) : SameRow(i)
  BY DEF SameRow, Unwritten
<1> QED BY <1>1 DEF Tame, HitsOK, Unwritten

\* A call that ends early is remembered.
LEMMA FailsKeeps ==
  ASSUME TInv, RowsInv, NEW c \in Client, call[c].todo # << >>, Fails(c), UNCHANGED <<nextId, met>>
  PROVE  RowsInv'
<1>1. Tame /\ HitsOK /\ \A i \in Id : touched[i] \subseteq touched'[i]
  BY UnwrittenTame DEF Fails
<1>2. Grows(c)
  BY <1>1, TameGrows DEF Fails
<1>3. call[c] # Idle /\ call[c].n \in cut'
  BY Working DEF Fails
<1>4. Becomes(c, Idle)
  BY DEF Fails, Becomes
<1>5. NoNewMakers(call[c], Idle)
  BY DEF NoNewMakers, Idle
<1>6. Keeps(c, Idle)
  BY <1>3 DEF Keeps
<1>7. Own(c)
  BY <1>4, <1>5, <1>6, IdleCall, IdleOK DEF Own
<1> QED BY <1>1, <1>2, <1>3, <1>7, RowsTame, TameChanges, Composed

\* A step goes on with steps that say what is so already.
Said(k, s) ==
  /\ s[1] \notin Making \cup {"grant", "staged", "mark"} /\ PlainOK(k, s)
  /\ s[1] \in Single => s[2] \in Id
  /\ s[1] = "each" => s[2] \subseteq Id

LEMMA OwnTame ==
  ASSUME TInv, RowsInv, NEW c \in Client, call[c].todo # << >>, NEW k, k = call[c], Grows(c), Tame,
         k.todo[1][1] \notin {"staged", "mark", "row"}, NEW more \in Seq(Step),
         NEW l \in Call, Becomes(c, l), Alike(k, l), l.todo = more \o Tail(k.todo),
         \A j \in DOMAIN more : Said(k, more[j])
  PROVE  Own(c)
<1>1. ASSUME NEW j \in DOMAIN more
      PROVE  more[j][1] \notin Making \cup {"grant", "staged", "mark"} /\ PlainOK(l, more[j])'
  <2>1. PICK s : s = more[j]
    OBVIOUS
  <2>2. Said(k, s)
    BY <2>1
  <2>3. PlainOK(l, s)'
    BY <2>2, PlainKept DEF Said
  <2> QED BY <2>1, <2>2, <2>3 DEF Said
<1>2. /\ CallOK(l)' /\ NoNewMakers(k, l)
      /\ \A s : Has(k.todo, s) /\ k.todo[1] # s => Has(l.todo, s)
  BY <1>1, TailOK
<1>3. Keeps(c, l)
  <2> SUFFICES ASSUME NEW i \in Id, Has(k.todo, <<"row", i>>) PROVE l.n = k.n /\ Has(l.todo, <<"row", i>>)
    BY DEF Keeps
  <2>1. k.todo[1] # <<"row", i>>
    OBVIOUS
  <2> QED BY <2>1, <1>2 DEF Alike
<1> QED BY <1>2, <1>3 DEF Own, Alike

LEMMA OwnProceeds ==
  ASSUME TInv, RowsInv, NEW c \in Client, call[c].todo # << >>, Grows(c), Tame,
         call[c].todo[1][1] \notin {"staged", "mark", "row"}, NEW more, Suits(call[c], more), Proceed(c, more),
         \A j \in DOMAIN more : Said(call[c], more[j])
  PROVE  Own(c)
<1>1. PICK k : k = call[c]
  OBVIOUS
<1>2. PICK l : l = Done(k, more)
  OBVIOUS
<1>3. Busy(k)
  BY <1>1, Working
<1>4. Becomes(c, l)
  BY <1>1, <1>2, ProceedIs
<1>5. /\ l \in Call /\ (l = Idle \/ Regular(l))
      /\ l # Idle => /\ l.todo = more \o Tail(k.todo)
                     /\ l.n = k.n /\ l.req = k.req /\ l.parent = k.parent
                     /\ l.seen = k.seen /\ l.twice = k.twice /\ l.after = k.after
  BY <1>1, <1>2, <1>3, DoneTyped
<1>6. CASE l # Idle
  <2>1. Alike(k, l) /\ l.todo = more \o Tail(k.todo) /\ more \in Seq(Step)
    BY <1>5, <1>6 DEF Alike, Suits
  <2> QED BY <1>1, <1>4, <1>5, <2>1, OwnTame
<1>7. CASE l = Idle
  <2>1. NoNewMakers(k, Idle)
    BY DEF NoNewMakers, Idle
  <2>2. more \o Tail(k.todo) = << >>
    <3> SUFFICES ASSUME more \o Tail(k.todo) # << >> PROVE FALSE
      OBVIOUS
    <3>1. PICK t : t = more \o Tail(k.todo) /\ t # << >>
      OBVIOUS
    <3>2. l = [k EXCEPT !.todo = t]
      BY <1>2, <3>1 DEF Done
    <3>3. l.todo = t
      BY <1>3, <3>2 DEF Busy, Call
    <3> QED BY <1>7, <3>1, <3>3, IdleCall
  <2>3. Len(k.todo) = 1
    <3>1. PICK q : q = k.todo
      OBVIOUS
    <3>2. q \in Seq(Step) /\ q # << >> /\ more \in Seq(Step) /\ more \o Tail(q) = << >>
      BY <1>1, <2>2, <3>1, Working DEF Suits
    <3>3. PICK t : t = more \o Tail(q)
      OBVIOUS
    <3>4. Len(t) = Len(more) + Len(q) - 1
      BY ONLY <3>2, <3>3, Shifted
    <3>5. t = << >> /\ Len(t) = 0
      BY <3>2, <3>3
    <3>6. Len(more) \in Nat /\ Len(q) \in Nat /\ Len(q) # 0
      <4> HIDE DEF Step
      <4> QED BY <3>2
    <3>7. Len(q) = 1
      BY ONLY <3>4, <3>5, <3>6
    <3> QED BY <3>1, <3>7
  <2>4. Keeps(c, Idle)
    <3> SUFFICES ASSUME NEW i \in Id, Has(k.todo, <<"row", i>>) PROVE FALSE
      BY <1>1 DEF Keeps
    <3>1. PICK j \in DOMAIN k.todo : k.todo[j] = <<"row", i>>
      BY DEF Has
    <3>2. j = 1
      <4>1. k.todo \in Seq(Step)
        BY <1>1, Working
      <4> HIDE DEF Step
      <4> QED BY <4>1, <2>3
    <3> QED BY <3>1, <3>2, <1>1
  <2> QED BY <1>1, <1>4, <1>7, <2>1, <2>4, IdleCall, IdleOK DEF Own
<1> QED BY <1>6, <1>7

LEMMA TameKeeps ==
  ASSUME TInv, RowsInv, NEW c \in Client, call[c].todo # << >>, Tame, HitsOK, Outside, UNCHANGED <<nextId, cut>>,
         \A i \in Id : touched[i] \subseteq touched'[i],
         call[c].todo[1][1] \notin {"staged", "mark", "row"}, NEW more, Suits(call[c], more), Proceed(c, more),
         \A j \in DOMAIN more : Said(call[c], more[j])
  PROVE  RowsInv'
<1>1. Grows(c)
  BY TameGrows DEF Outside
<1>2. Own(c)
  BY <1>1, OwnProceeds
<1>3. call[c] # Idle
  BY Working
<1> QED BY <1>1, <1>2, <1>3, RowsTame, TameChanges, Composed

-----------------------------------------------------------------------------
(* Commits of what hangs on rows                                           *)

LEMMA SameRows == ASSUME TInv, db'.objs = db.objs PROVE \A i \in Live(db') : SameRow(i)
BY LiveIs DEF SameRow

\* Commits of what hangs on rows.
LEMMA HangingKeeps ==
  ASSUME TInv, RowsInv, NEW c \in Client, Outside, UNCHANGED nextId,
         \/ AddParts(c) \/ SetProps(c) \/ LinkChild(c) \/ DropParts(c) \/ DropProps(c)
         \/ PutVersion(c) \/ SetMax(c) \/ DropVersion(c)
  PROVE  RowsInv'
<1>1. /\ call[c].todo # << >> /\ On(c) \in Id
      /\ call[c].todo[1][1] \notin {"staged", "mark", "row"}
      /\ Proceed(c, << >>) /\ UNCHANGED cut
  BY AtStep DEF AddParts, SetProps, LinkChild, DropParts, DropProps, PutVersion, SetMax, DropVersion, Single
<1>2. \A i \in Id : touched[i] \subseteq touched'[i]
  BY WriteTouches DEF AddParts, SetProps, LinkChild, DropParts, DropProps, PutVersion, SetMax, DropVersion
<1>3. db \in Database /\ note \in [Id -> Notes] /\ note[On(c)] \in Notes
  BY <1>1 DEF TInv, TypeOK
<1>4. db'.staging = db.staging /\ \A i \in Live(db') : SameRow(i)
  <2>1. CASE ~SetMax(c)
    <3>1. db'.staging = db.staging /\ db'.objs = db.objs
      BY <1>3, <2>1 DEF AddParts, SetProps, LinkChild, DropParts, DropProps, PutVersion, DropVersion, Write, Database
    <3> QED BY <3>1, SameRows
  <2>2. CASE SetMax(c) /\ On(c) \in Live(db)
    <3>1. db' = [db EXCEPT !.objs[On(c)].max = call[c].number]
      BY <2>2 DEF SetMax, Write
    <3>2. db' = [db EXCEPT !.objs = [@ EXCEPT ![On(c)] = [db.objs[On(c)] EXCEPT !.max = call[c].number]]]
      BY <1>1, <1>3, <3>1 DEF Database
    <3>3. db'.staging = db.staging /\ db'.objs = [db.objs EXCEPT ![On(c)] = [db.objs[On(c)] EXCEPT !.max = call[c].number]]
      BY <1>3, <3>2 DEF Database
    <3>4. \A i \in Id : i # On(c) => db'.objs[i] = db.objs[i]
      BY <1>3, <3>3 DEF Database
    <3>5. db'.objs[On(c)] = [db.objs[On(c)] EXCEPT !.max = call[c].number] /\ db.objs[On(c)] \in Object
      BY <1>1, <1>3, <2>2, <3>3, LiveIs DEF Database
    <3>6. Key(db'.objs[On(c)]) = Key(db.objs[On(c)])
      BY <3>5 DEF Key, Object
    <3>7. ASSUME NEW i \in Live(db') PROVE SameRow(i)
      <4>1. i \in Id /\ db'.objs[i] # NoObject
        BY LiveIs
      <4>2. i = On(c) \/ db'.objs[i] = db.objs[i]
        BY <3>4, <4>1
      <4> QED BY <2>2, <3>6, <4>1, <4>2, LiveIs DEF SameRow
    <3> QED BY <3>3, <3>7
  <2>3. CASE SetMax(c) /\ On(c) \notin Live(db)
    <3>1. db' = db
      BY <2>3 DEF SetMax, Write
    <3> QED BY <3>1, SameRows
  <2> QED BY <2>1, <2>2, <2>3
<1>5. \A i \in Id : note'[i].kind = note[i].kind /\ note'[i].made = note[i].made /\ note'[i].hit = note[i].hit
  <2>1. CASE SetProps(c)
    <3>1. note' = [note EXCEPT ![On(c)]["wants"] = note[On(c)].wants \cup {"props"}]
      BY <2>1 DEF SetProps, Note
    <3>2. note' = [note EXCEPT ![On(c)] = [note[On(c)] EXCEPT !.wants = note[On(c)].wants \cup {"props"}]]
      BY <1>1, <1>3, <3>1
    <3>3. \A i \in Id : note'[i] = note[i] \/ (i = On(c) /\ note'[i] = [note[i] EXCEPT !.wants = note[i].wants \cup {"props"}])
      BY <1>3, <3>2
    <3>4. ASSUME NEW i \in Id PROVE note'[i].kind = note[i].kind /\ note'[i].made = note[i].made /\ note'[i].hit = note[i].hit
      <4>1. note'[i] = note[i] \/ \E W : note'[i] = [note[i] EXCEPT !.wants = W]
        BY <3>3
      <4>2. note[i] \in Notes
        BY <1>3
      <4> QED BY <4>1, <4>2, OnlyWants
    <3> QED BY <3>4
  <2>2. CASE ~SetProps(c)
    BY <2>2 DEF AddParts, LinkChild, DropParts, DropProps, PutVersion, SetMax, DropVersion
  <2> QED BY <2>1, <2>2
<1>6. Tame /\ HitsOK
  BY <1>4, <1>5 DEF Tame, HitsOK
<1>7. Suits(call[c], << >>) /\ \A j \in DOMAIN << >> : Said(call[c], << >>[j])
  BY SuitsNone
<1> QED BY <1>1, <1>2, <1>6, <1>7, TameKeeps

LEMMA AnswerKeeps ==
  ASSUME TInv, RowsInv, NEW c \in Client, Outside, UNCHANGED nextId, Answer(c)
  PROVE  RowsInv'
<1>1. /\ call[c].todo # << >> /\ call[c].todo[1][1] \notin {"staged", "mark", "row"}
      /\ Proceed(c, << >>) /\ UNCHANGED cut /\ Unwritten
  BY AtStep DEF Answer
<1>2. Suits(call[c], << >>) /\ \A j \in DOMAIN << >> : Said(call[c], << >>[j])
  BY SuitsNone
<1> QED BY <1>1, <1>2, UnwrittenTame, TameKeeps

-----------------------------------------------------------------------------
(* Reads                                                                   *)

\* The step a call is at, as the invariant has it.
LEMMA HeadOK ==
  ASSUME TInv, RowsInv, NEW c \in Client, NEW what, Doing(c, what)
  PROVE  /\ StepOK(call[c], 1) /\ PlainOK(call[c], call[c].todo[1]) /\ PlaceOK(call[c], 1)
         /\ call[c].todo # << >> /\ call[c].todo[1][1] = what /\ call[c].todo[1][2] = On(c)
         /\ call[c] # Idle /\ call[c].n \in Ordinal
<1>1. call[c].todo # << >> /\ call[c].todo[1][1] = what /\ call[c].todo[1][2] = On(c) /\ 1 \in DOMAIN call[c].todo
      /\ call[c] # Idle /\ call[c].n \in Ordinal
  BY AtStep, Working
<1> QED BY <1>1 DEF RowsInv, CallOK, StepOK

LEMMA UnwrittenKeeps ==
  ASSUME TInv, RowsInv, NEW c \in Client, call[c].todo # << >>, Unwritten, Outside, UNCHANGED <<nextId, cut>>,
         call[c].todo[1][1] \notin {"staged", "mark", "row"}, NEW more, Suits(call[c], more), Proceed(c, more),
         \A j \in DOMAIN more : Said(call[c], more[j])
  PROVE  RowsInv'
BY UnwrittenTame, TameKeeps

LEMMA FindRootKeeps ==
  ASSUME TInv, RowsInv, NEW c \in Client, Outside, UNCHANGED nextId, FindRoot(c)
  PROVE  RowsInv'
<1>0. call[c].todo # << >> /\ call[c].todo[1][1] = "root" /\ Busy(call[c]) /\ call[c] # Idle
  BY AtStep, Working DEF FindRoot
<1>1. CASE Fails(c)
  BY <1>0, <1>1, FailsKeeps DEF Outside
<1>2. CASE call' = [call EXCEPT ![c].from = RootOf(db, Req(c).path), ![c].todo = Tail(@)] /\ Unwritten /\ UNCHANGED cut
  <2>1. PICK k : k = call[c]
    OBVIOUS
  <2>2. PICK t : t = Tail(k.todo)
    OBVIOUS
  <2>3. PICK r : r = RootOf(db, Req(c).path)
    OBVIOUS
  <2>4. PICK l : l = [k EXCEPT !.from = r, !.todo = t]
    OBVIOUS
  <2>5. Becomes(c, l)
    BY <1>2, <2>1, <2>2, <2>3, <2>4 DEF Becomes, TInv, TypeOK
  <2>6. k \in Call /\ k.todo \in Seq(Step) /\ k.todo # << >>
    BY <1>0, <2>1 DEF Busy, Call
  <2>7. l.n = k.n /\ l.req = k.req /\ l.parent = k.parent /\ l.seen = k.seen /\ l.twice = k.twice /\ l.after = k.after
        /\ l.todo = t
    BY <2>4, <2>6 DEF Call
  <2>8. PICK more : more = << >>
    OBVIOUS
  <2>9. more \in Seq(Step) /\ DOMAIN more = {} /\ t = more \o Tail(k.todo)
    <3>1. PICK q : q = k.todo
      OBVIOUS
    <3>2. q \in Seq(Step) /\ q # << >> /\ t = Tail(q)
      BY <2>2, <2>6, <3>1
    <3>3. Tail(q) \in Seq(Step)
      BY <3>2
    <3>4. << >> \o Tail(q) = Tail(q)
      <4> HIDE DEF Step
      <4> QED BY <3>3
    <3> QED BY <2>8, <3>1, <3>2, <3>4
  <2>10. t \in Seq(Step)
    <3>1. PICK q : q = k.todo
      OBVIOUS
    <3>2. q \in Seq(Step) /\ q # << >> /\ t = Tail(q)
      BY <2>2, <2>6, <3>1
    <3> HIDE DEF Step
    <3> QED BY <3>2
  <2>11. l \in Call
    <3>1. r \in Id \cup {None}
      BY <2>3, RootOfType
    <3> HIDE DEF Step
    <3> QED BY <2>4, <2>6, <2>10, <3>1 DEF Call
  <2>12. Tame /\ HitsOK /\ Grows(c)
    BY <1>2, UnwrittenTame, TameGrows DEF Outside
  <2>13. Own(c)
    <3>1. Alike(k, l) /\ l.todo = more \o Tail(k.todo) /\ k.todo[1][1] \notin {"staged", "mark", "row"}
      BY <1>0, <2>1, <2>7, <2>9 DEF Alike
    <3> QED BY <1>0, <2>1, <2>5, <2>9, <2>11, <2>12, <3>1, OwnTame
  <2> QED BY <1>0, <2>12, <2>13, RowsTame, TameChanges, Composed
<1> QED BY <1>1, <1>2 DEF FindRoot

LEMMA CheckEmptyKeeps ==
  ASSUME TInv, RowsInv, NEW c \in Client, Outside, UNCHANGED nextId, CheckEmpty(c)
  PROVE  RowsInv'
<1>0. /\ call[c].todo # << >> /\ call[c].todo[1][1] = "empty" /\ On(c) \in Id /\ "empty" \in OpSteps(call[c].req.op)
      /\ PlainOK(call[c], call[c].todo[1]) /\ call[c].todo[1][2] = On(c) /\ Busy(call[c])
  <2>1. Doing(c, "empty")
    BY DEF CheckEmpty
  <2> QED BY <2>1, AtStep, HeadOK DEF Single, Req
<1>1. CASE Fails(c)
  BY <1>0, <1>1, FailsKeeps DEF Outside
<1>2. ASSUME ~Fails(c) PROVE RowsInv'
  <2>1. PICK full \in BOOLEAN : Proceed(c, Emptying(full, Req(c).kind, On(c))) /\ Unwritten /\ UNCHANGED cut
    BY <1>2 DEF CheckEmpty, Emptying
  <2>2. PICK s : s = Emptying(full, Req(c).kind, On(c))
    OBVIOUS
  <2>3. /\ s \in Seq(Step)
        /\ \A j \in DOMAIN s :
             \/ s[j] = <<"dropProps", On(c)>> \/ s[j] = <<"dropRow", On(c)>>
             \/ \E kind \in Below : s[j] = <<"list", On(c), kind>>
    <3>1. /\ s \in Seq(Step)
          /\ \/ Len(s) = 2 /\ s[1] = <<"dropProps", On(c)>> /\ s[2] = <<"dropRow", On(c)>>
             \/ /\ Len(s) = 3 /\ s[1] = <<"list", On(c), "schema">>
                /\ s[2] = <<"dropProps", On(c)>> /\ s[3] = <<"dropRow", On(c)>>
             \/ /\ Len(s) = 6
                /\ s[1] = <<"list", On(c), "table">> /\ s[2] = <<"list", On(c), "volume">>
                /\ s[3] = <<"list", On(c), "function">> /\ s[4] = <<"list", On(c), "model">>
                /\ s[5] = <<"dropProps", On(c)>> /\ s[6] = <<"dropRow", On(c)>>
      BY <1>0, <2>2, EmptyingIs
    <3>2. DOMAIN s = 1..Len(s)
      <4> HIDE DEF Step
      <4> QED BY <3>1
    <3>3. {"table", "volume", "function", "model", "schema"} \subseteq Below
      BY DEF Below, Leaves
    <3> QED BY <3>1, <3>2, <3>3
  <2>4. s \in Seq(Step) /\ \A j \in DOMAIN s : s[j][1] \in {"list", "dropProps", "dropRow"} /\ s[j][2] = On(c)
    BY <2>3
  <2>5. Suits(call[c], s)
    BY <1>0, <2>4, OfDelete DEF Suits
  <2>6. note[On(c)].kind # "none" /\ NamedOK(call[c], On(c))
    <3>1. note[On(c)].kind = call[c].req.kind /\ NamedOK(call[c], On(c))
      BY <1>0 DEF PlainOK
    <3>2. call[c].req \in Request
      BY <1>0, ObjectsAssumption DEF Busy, Regular
    <3> QED BY <3>1, <3>2 DEF Request, Kinds, Leaves
  <2>7. \A j \in DOMAIN s : Said(call[c], s[j])
    BY <1>0, <2>4, <2>6 DEF Said, PlainOK, Making
  <2> QED BY <1>0, <2>1, <2>2, <2>5, <2>7, UnwrittenKeeps
<1> QED BY <1>1, <1>2

LEMMA SaidEach ==
  ASSUME NEW k, NEW S \in SUBSET Id, NEW kind, NEW s, s = <<"each", S, kind>>, \A i \in S : note[i].kind = kind
  PROVE  Said(k, s)
<1>1. s[1] = "each" /\ s[2] = S /\ s[3] = kind
  OBVIOUS
<1> QED BY <1>1 DEF Said, PlainOK, Making, Single

LEMMA ListChildrenKeeps ==
  ASSUME TInv, RowsInv, NEW c \in Client, Outside, UNCHANGED nextId, ListChildren(c)
  PROVE  RowsInv'
<1>0. /\ call[c].todo # << >> /\ On(c) \in Id /\ Head(call[c].todo)[3] \in Below /\ "list" \in OpSteps(call[c].req.op)
      /\ call[c].todo[1][1] = "list"
  <2>1. Doing(c, "list")
    BY DEF ListChildren
  <2> QED BY <2>1, AtStep, Working DEF Req
<1>1. PICK kind : kind = Head(call[c].todo)[3]
  OBVIOUS
<1>2. PICK S : S = Under(db, On(c), kind)
  OBVIOUS
<1>3. S \in SUBSET Id /\ \A i \in S : note[i].kind = kind
  <2>1. \A i \in S : i \in Live(db) /\ i \in Id /\ db.objs[i].kind = kind
    BY <1>2, LiveIs DEF Under
  <2> QED BY <2>1 DEF RowsInv, RowOK
<1>4. PICK s : s = Each(S, kind)
  OBVIOUS
<1>5. s \in Seq(Step) /\ (DOMAIN s = {} \/ (DOMAIN s = {1} /\ s[1] = <<"each", S, kind>>))
  <2>1. s \in Seq(Step) /\ (s = << >> \/ (Len(s) = 1 /\ s[1] = <<"each", S, kind>>))
    BY <1>0, <1>1, <1>3, <1>4, EachIs, ZenonT(60)
  <2>2. s # << >> => DOMAIN s = {1}
    <3> HIDE DEF Step
    <3> QED BY <2>1
  <2>3. s = << >> => DOMAIN s = {}
    OBVIOUS
  <2> QED BY <2>1, <2>2, <2>3
<1>6. Suits(call[c], s)
  BY <1>0, <1>5, OfDelete DEF Suits
<1>7. ASSUME NEW j \in DOMAIN s PROVE Said(call[c], s[j])
  <2>1. PICK u : u = s[j]
    OBVIOUS
  <2>2. u = <<"each", S, kind>>
    BY <1>5, <2>1
  <2> QED BY <1>3, <2>1, <2>2, SaidEach
<1>8. Proceed(c, s) /\ Unwritten /\ UNCHANGED cut
  BY <1>1, <1>2, <1>4 DEF ListChildren
<1> QED BY <1>0, <1>6, <1>7, <1>8, UnwrittenKeeps

LEMMA NextChildKeeps ==
  ASSUME TInv, RowsInv, NEW c \in Client, Outside, UNCHANGED nextId, NextChild(c)
  PROVE  RowsInv'
<1>0. /\ call[c].todo # << >> /\ On(c) \in SUBSET Id /\ Head(call[c].todo)[3] \in Below /\ "each" \in OpSteps(call[c].req.op)
      /\ call[c].todo[1][1] = "each" /\ Head(call[c].todo)[3] = call[c].todo[1][3]
      /\ \A i \in On(c) : note[i].kind = call[c].todo[1][3]
  <2>1. Doing(c, "each")
    BY DEF NextChild
  <2>2. /\ call[c].todo # << >> /\ On(c) \in SUBSET Id /\ call[c].todo[1][3] \in Below /\ "each" \in OpSteps(call[c].req.op)
        /\ call[c].todo[1][1] = "each" /\ Head(call[c].todo) = call[c].todo[1]
    BY <2>1, AtStep, Working DEF Req
  <2>3. PlainOK(call[c], call[c].todo[1]) /\ call[c].todo[1][2] = On(c)
    BY <2>1, HeadOK
  <2> QED BY <2>2, <2>3 DEF PlainOK
<1>1. PICK kind : kind = Head(call[c].todo)[3]
  OBVIOUS
<1>2. PICK i \in On(c) : Proceed(c, CascadeSteps(kind, i) \o Each(On(c) \ {i}, kind)) /\ Unwritten /\ UNCHANGED cut
  BY <1>1 DEF NextChild
<1>3. PICK R : R = On(c) \ {i}
  OBVIOUS
<1>4. PICK a : a = CascadeSteps(kind, i)
  OBVIOUS
<1>5. PICK t : t = Each(R, kind)
  OBVIOUS
<1>6. PICK s : s = a \o t
  OBVIOUS
<1>10. i \in Id /\ R \in SUBSET Id /\ kind \in Below /\ Proceed(c, s) /\ note[i].kind = kind /\ \A x \in R : note[x].kind = kind
  BY <1>0, <1>1, <1>2, <1>3, <1>4, <1>5, <1>6
<1>11. a \in Seq(Step) /\ t \in Seq(Step) /\ DOMAIN t = 1..Len(t) /\ Len(a) \in Nat /\ Len(t) \in Nat
  <2>1. a \in Seq(Step)
    BY <1>4, <1>10, CascadeStepsAre DEF Below, Leaves
  <2>2. t \in Seq(Step)
    BY <1>5, <1>10, EachIs
  <2> HIDE DEF Step
  <2> QED BY <2>1, <2>2
<1>12. /\ s \in Seq(Step) /\ Len(s) = Len(a) + Len(t)
       /\ \A j \in 1..Len(a) : s[j] = a[j]
       /\ \A j \in 1..Len(t) : s[j + Len(a)] = t[j]
  BY ONLY <1>6, <1>11, Joined
<1>13. \A j \in 1..Len(t) : t[j] = <<"each", R, kind>>
  <2>1. t = << >> \/ (Len(t) = 1 /\ t[1] = <<"each", R, kind>>)
    BY <1>5, <1>10, EachIs
  <2> QED BY <2>1
<1>7. \A j \in 1..Len(a) : a[j][1] \in {"list", "dropParts", "dropProps", "dropRow"} /\ a[j][2] = i
  <2>1. /\ kind = "schema" =>
             /\ Len(a) = 6 /\ a[1] = <<"list", i, "table">> /\ a[2] = <<"list", i, "volume">>
             /\ a[3] = <<"list", i, "function">> /\ a[4] = <<"list", i, "model">>
             /\ a[5] = <<"dropProps", i>> /\ a[6] = <<"dropRow", i>>
        /\ kind = "table" => Len(a) = 3 /\ a[1] = <<"dropParts", i>> /\ a[2] = <<"dropProps", i>> /\ a[3] = <<"dropRow", i>>
        /\ kind \in {"volume", "function", "model"} => Len(a) = 1 /\ a[1] = <<"dropRow", i>>
    BY <1>4, <1>10, CascadeStepsAre
  <2>2. \/ /\ Len(a) = 6 /\ a[1][1] = "list" /\ a[2][1] = "list" /\ a[3][1] = "list" /\ a[4][1] = "list"
           /\ a[5][1] = "dropProps" /\ a[6][1] = "dropRow"
           /\ a[1][2] = i /\ a[2][2] = i /\ a[3][2] = i /\ a[4][2] = i /\ a[5][2] = i /\ a[6][2] = i
        \/ /\ Len(a) = 3 /\ a[1][1] = "dropParts" /\ a[2][1] = "dropProps" /\ a[3][1] = "dropRow"
           /\ a[1][2] = i /\ a[2][2] = i /\ a[3][2] = i
        \/ Len(a) = 1 /\ a[1][1] = "dropRow" /\ a[1][2] = i
    BY <1>10, <2>1 DEF Below, Leaves
  <2> QED BY <2>2
<1>8. ASSUME NEW j \in DOMAIN s
      PROVE  s[j][1] \in {"list", "each", "dropParts", "dropProps", "dropRow"} /\ Said(call[c], s[j])
  <2>1. DOMAIN s = 1..Len(s) /\ j \in 1..Len(s)
    <3> HIDE DEF Step
    <3> QED BY <1>12
  <2>2. j \in 1..Len(a) \/ (j - Len(a) \in 1..Len(t) /\ (j - Len(a)) + Len(a) = j)
    BY <1>11, <1>12, <2>1
  <2>3. CASE j \in 1..Len(a)
    <3>0. PICK u : u = s[j]
      OBVIOUS
    <3>1. u[1] \in {"list", "dropParts", "dropProps", "dropRow"} /\ u[2] = i
      BY <1>7, <1>12, <2>3, <3>0
    <3>2. note[i].kind # "none" /\ note[i].kind # "catalog"
      BY <1>10 DEF Below, Leaves
    <3>3. PlainOK(call[c], u)
      BY <3>1, <3>2 DEF PlainOK, NamedOK
    <3> QED BY <1>10, <3>0, <3>1, <3>3 DEF Said, Making
  <2>4. CASE s[j] = <<"each", R, kind>>
    <3>1. PICK u : u = s[j]
      OBVIOUS
    <3>2. Said(call[c], u) /\ u[1] = "each"
      BY <1>10, <2>4, <3>1, SaidEach
    <3> QED BY <3>1, <3>2
  <2> QED BY <1>12, <1>13, <2>2, <2>3, <2>4
<1>9. Suits(call[c], s)
  BY <1>0, <1>8, <1>12, OfDelete DEF Suits
<1> QED BY <1>0, <1>2, <1>8, <1>9, <1>10, UnwrittenKeeps

-----------------------------------------------------------------------------
(* Grants and drops                                                        *)

LEMMA GrantOwnerKeeps ==
  ASSUME TInv, RowsInv, NEW c \in Client, Outside, UNCHANGED nextId, GrantOwner(c)
  PROVE  RowsInv'
<1>0. call[c].todo # << >> /\ On(c) \in Id /\ call[c].todo[1][1] = "grant" /\ call[c] # Idle /\ UNCHANGED cut
  <2>1. Doing(c, "grant") /\ UNCHANGED cut
    BY DEF GrantOwner
  <2> QED BY <2>1, AtStep, HeadOK DEF Single
<1>00. db \in Database /\ note \in [Id -> Notes] /\ note[On(c)] \in Notes
  BY <1>0 DEF TInv, TypeOK
<1>1. CASE Write(c, [db EXCEPT !.owners = @ \cup {On(c)}], {On(c)}) /\ Proceed(c, << >>) /\ UNCHANGED note
  <2>1. db'.staging = db.staging /\ db'.objs = db.objs
    BY <1>00, <1>1 DEF Write, Database
  <2>2. Tame /\ HitsOK
    BY <1>1, <2>1, SameRows DEF Tame, HitsOK
  <2>3. \A i \in Id : touched[i] \subseteq touched'[i]
    BY <1>1, WriteTouches
  <2>4. Suits(call[c], << >>) /\ \A j \in DOMAIN << >> : Said(call[c], << >>[j])
    BY SuitsNone
  <2> QED BY <1>0, <1>1, <2>2, <2>3, <2>4, TameKeeps
<1>2. CASE /\ call' = [call EXCEPT ![c] = Idle]
           /\ Note(On(c), "wants", note[On(c)].wants \ {"owner"})
           /\ UNCHANGED <<db, touched>>
  <2>1. \A i \in Id : note'[i].kind = note[i].kind /\ note'[i].made = note[i].made /\ note'[i].hit = note[i].hit
    <3>1. note' = [note EXCEPT ![On(c)] = [note[On(c)] EXCEPT !.wants = note[On(c)].wants \ {"owner"}]]
      BY <1>0, <1>00, <1>2 DEF Note
    <3>2. \A i \in Id : note'[i] = note[i] \/ (i = On(c) /\ note'[i] = [note[i] EXCEPT !.wants = note[i].wants \ {"owner"}])
      BY <1>00, <3>1
    <3>3. ASSUME NEW i \in Id PROVE note'[i].kind = note[i].kind /\ note'[i].made = note[i].made /\ note'[i].hit = note[i].hit
      <4>1. note'[i] = note[i] \/ \E W : note'[i] = [note[i] EXCEPT !.wants = W]
        BY <3>2
      <4>2. note[i] \in Notes
        BY <1>00
      <4> QED BY <4>1, <4>2, OnlyWants
    <3> QED BY <3>3
  <2>2. Tame /\ HitsOK
    BY <1>2, <2>1, SameRows DEF Tame, HitsOK
  <2>3. Grows(c)
    BY <1>0, <1>2, <2>2, TameGrows DEF Outside
  <2>4. NoNewMakers(call[c], Idle)
    BY DEF NoNewMakers, Idle
  <2>5. Keeps(c, Idle)
    <3> SUFFICES ASSUME NEW i \in Id, Has(call[c].todo, <<"row", i>>) PROVE FALSE
      BY DEF Keeps
    <3>1. PICK k : k = call[c]
      OBVIOUS
    <3>2. PICK j \in DOMAIN k.todo : k.todo[j] = <<"row", i>>
      BY <3>1 DEF Has
    <3>3. k.todo[j][1] = "row"
      BY <3>2
    <3>4. StepOK(k, j)
      BY <3>1 DEF RowsInv, CallOK
    <3>5. \A l \in 1..(j - 1) : k.todo[l][1] \notin Making \cup {"grant"}
      BY <3>3, <3>4 DEF StepOK, PlaceOK, MakerOK, Making
    <3>6. j # 1
      BY <1>0, <3>1, <3>3
    <3>7. j \in Nat /\ j >= 1
      <4>1. k.todo \in Seq(Step)
        BY <1>0, <3>1, Working
      <4> HIDE DEF Step
      <4> QED BY <4>1
    <3>8. 1 \in 1..(j - 1)
      BY <3>6, <3>7
    <3> QED BY <1>0, <3>1, <3>5, <3>8
  <2>6. Becomes(c, Idle)
    BY <1>2 DEF Becomes
  <2>7. Own(c)
    BY <2>4, <2>5, <2>6, IdleCall, IdleOK DEF Own
  <2> QED BY <1>0, <2>2, <2>3, <2>7, RowsTame, TameChanges, Composed
<1> QED BY <1>1, <1>2 DEF GrantOwner

\* Who hits a catalog that was not looked up found one that another call has
\* given its name.
LEMMA HitKnown ==
  ASSUME TInv, RowsInv, NEW c \in Client, NEW what \in {"rename", "dropRow"}, Doing(c, what),
         NEW i, i = Hit(c), i \in Live(db), i # On(c)
  PROVE  Overlaps(call[c].n, i)
<1>1. PlainOK(call[c], call[c].todo[1]) /\ call[c].todo[1][1] = what /\ call[c].todo[1][2] = On(c)
  BY HeadOK
<1>2. NamedOK(call[c], On(c))
  BY <1>1 DEF PlainOK
<1>3. note[On(c)].kind = "catalog" /\ i = Find(db, "catalog", None, Req(c).path[1])
  BY DEF Hit
<1>4. i # None
  BY LiveIs, NoneNot
<1>5. Key(db.objs[i]) = <<"catalog", None, Req(c).path[1]>>
  BY <1>3, <1>4, FindIs DEF Key
<1> QED BY <1>2, <1>3, <1>5 DEF NamedOK, Req

LEMMA MarkIs ==
  ASSUME TInv, NEW c, NEW i \in Id, NEW gone, Mark(c, i, gone)
  PROVE  \A x \in Id : /\ note'[x].kind = note[x].kind /\ note'[x].made = note[x].made
                       /\ note'[x].hit # note[x].hit => x = i /\ x # On(c) /\ note'[x].hit = call[c].n
<1>0. note \in [Id -> Notes] /\ note[i] \in Notes
  BY DEF TInv, TypeOK
<1>1. PICK h : h = IF i = On(c) THEN note[i].hit ELSE call[c].n
  OBVIOUS
<1>2. note' = [note EXCEPT ![i] = [note[i] EXCEPT !.gone = gone, !.hit = h]]
  BY <1>0, <1>1 DEF Mark
<1>3. note'[i] = [note[i] EXCEPT !.gone = gone, !.hit = h] /\ \A x \in Id : x # i => note'[x] = note[x]
  BY <1>0, <1>2
<1>4. note'[i].kind = note[i].kind /\ note'[i].made = note[i].made /\ note'[i].hit = h
  BY <1>0, <1>3 DEF Notes
<1> QED BY <1>1, <1>3, <1>4

LEMMA HitsMarked ==
  ASSUME TInv, RowsInv, NEW c \in Client, NEW what \in {"rename", "dropRow"}, Doing(c, what), Grows(c),
         NEW i, i = Hit(c), i \in Live(db), NEW gone, Mark(c, i, gone)
  PROVE  HitsOK
<1>1. i \in Id
  BY LiveIs
<1>2. i # On(c) => \E x \in touched[i] : {x, call[c].n} \in met
  BY HitKnown DEF Overlaps
<1>3. i # On(c) => \E x \in touched'[i] : {x, call[c].n} \in met'
  BY <1>1, <1>2 DEF Grows
<1>4. ASSUME NEW x \in Id, note'[x].hit # note[x].hit PROVE \E y \in touched'[x] : {y, note'[x].hit} \in met'
  <2>1. x = i /\ x # On(c) /\ note'[x].hit = call[c].n
    BY <1>1, <1>4, MarkIs
  <2> QED BY <1>3, <2>1
<1> QED BY <1>4 DEF HitsOK

LEMMA DropOneKeeps ==
  ASSUME TInv, RowsInv, NEW c \in Client, Outside, UNCHANGED nextId, DropOne(c)
  PROVE  RowsInv'
<1>0. call[c].todo # << >> /\ On(c) \in Id /\ call[c].todo[1][1] = "dropRow" /\ Doing(c, "dropRow")
  <2>1. Doing(c, "dropRow")
    BY DEF DropOne
  <2> QED BY <2>1, AtStep DEF Single
<1>1. CASE Fails(c)
  BY <1>0, <1>1, FailsKeeps DEF Outside
<1>2. PICK i : i = Hit(c)
  OBVIOUS
<1>3. CASE /\ ~(i \notin Live(db) /\ note[On(c)].kind # "model")
           /\ Write(c, DropRow(db, i), {i})
           /\ Mark(c, i, IF note[i].kind = Req(c).kind THEN "dropped" ELSE "cascaded")
           /\ Proceed(c, << >>) /\ UNCHANGED cut
  <2>0. db \in Database
    BY DEF TInv, TypeOK
  <2>1. i \in Id /\ (i \notin Live(db) => i = On(c))
    BY <1>0, <1>2, <1>3, HitIs, LiveIs
  <2>2. db'.staging = db.staging /\ db'.objs = [db.objs EXCEPT ![i] = NoObject]
    BY <1>3, <2>0 DEF Write, DropRow, Database
  <2>3. \A x \in Live(db') : SameRow(x)
    <3> TAKE x \in Live(db')
    <3>1. x \in Id /\ db'.objs[x] # NoObject
      BY LiveIs
    <3>2. db'.objs[x] = db.objs[x]
      BY <2>0, <2>1, <2>2, <3>1 DEF Database
    <3> QED BY <3>1, <3>2, LiveIs DEF SameRow
  <2>4. Tame
    BY <1>3, <2>1, <2>2, <2>3, MarkIs DEF Tame
  <2>5. \A x \in Id : touched[x] \subseteq touched'[x]
    BY <1>3, WriteTouches
  <2>6. Grows(c)
    BY <1>3, <2>4, <2>5, TameGrows DEF Outside
  <2>7. HitsOK
    <3>1. CASE i \in Live(db)
      BY <1>0, <1>2, <1>3, <2>6, <3>1, HitsMarked
    <3>2. CASE i \notin Live(db)
      BY <1>3, <2>1, <3>2, MarkIs DEF HitsOK
    <3> QED BY <3>1, <3>2
  <2>8. Suits(call[c], << >>) /\ \A j \in DOMAIN << >> : Said(call[c], << >>[j])
    BY SuitsNone
  <2> QED BY <1>0, <1>3, <2>4, <2>5, <2>7, <2>8, TameKeeps
<1> QED BY <1>1, <1>2, <1>3 DEF DropOne

-----------------------------------------------------------------------------
(* Renames                                                                 *)

LEMMA RenameKeeps ==
  ASSUME TInv, RowsInv, NEW c \in Client, Outside, UNCHANGED nextId, Rename(c)
  PROVE  RowsInv'
<1>0. /\ call[c].todo # << >> /\ On(c) \in Id /\ call[c].todo[1][1] = "rename" /\ Doing(c, "rename") /\ Len(call[c].todo) = 1
      /\ Busy(call[c]) /\ "rename" \in OpSteps(call[c].req.op) /\ call[c].n \in Ordinal /\ call[c] # Idle
      /\ note[On(c)].kind = Req(c).kind
  <2>1. Doing(c, "rename")
    BY DEF Rename
  <2>2. PlainOK(call[c], call[c].todo[1]) /\ call[c].todo[1][1] = "rename" /\ call[c].todo[1][2] = On(c)
    BY <2>1, HeadOK
  <2> QED BY <2>1, <2>2, AtStep, HeadOK DEF Single, Alone, Req, PlainOK
<1>1. CASE Fails(c)
  BY <1>0, <1>1, FailsKeeps DEF Outside
<1>2. PICK i : i = Hit(c)
  OBVIOUS
<1>3. ASSUME ~Fails(c)
      PROVE  /\ Proceed(c, When("props" \in Req(c).opts, <<"props", i>>)) /\ UNCHANGED cut
             /\ \/ Unwritten /\ i \notin Live(db) /\ Req(c).kind \in {"table", "model"}
                \/ i \in Live(db) /\ Write(c, PutRow(db, i, Renamed(db, i, Req(c).to)), {i}) /\ Mark(c, i, "no")
  BY <1>2, <1>3 DEF Rename
<1>4. PICK more : more = When("props" \in Req(c).opts, <<"props", i>>)
  OBVIOUS
<1>5. ASSUME ~Fails(c)
      PROVE  /\ i \in Id /\ Suits(call[c], more)
             /\ DOMAIN more = {} \/ (DOMAIN more = {1} /\ more[1] = <<"props", i>>)
  <2>1. i \in Id
    BY <1>0, <1>2, <1>3, <1>5, HitIs, LiveIs
  <2>2. <<"props", i>> \in Step /\ "props" \in OpSteps(call[c].req.op) \ Opening
    BY <1>0, <2>1 DEF Step, Single, OpSteps, Opening, Alone, DropStep
  <2>3. CASE "props" \in Req(c).opts
    <3>1. PICK x \in Step : x = <<"props", i>> /\ x[1] = "props"
      BY <2>2
    <3>2. more = <<x>>
      BY <1>4, <2>3, <3>1 DEF When
    <3>3. x[1] \in OpSteps(call[c].req.op) \ Opening
      BY <2>2, <3>1
    <3> QED BY <2>1, <3>1, <3>2, <3>3, OneMore
  <2>4. CASE "props" \notin Req(c).opts
    <3>1. more = << >>
      BY <1>4, <2>4 DEF When
    <3>2. DOMAIN more = {}
      BY <3>1
    <3> QED BY <2>1, <3>1, <3>2, SuitsNone
  <2> QED BY <2>3, <2>4
<1>6. ASSUME ~Fails(c), Unwritten PROVE RowsInv'
  <2>1. ASSUME NEW j \in DOMAIN more PROVE Said(call[c], more[j])
    <3>1. PICK u : u = more[j]
      OBVIOUS
    <3>2. u = <<"props", i>> /\ i \in Id
      BY <1>5, <1>6, <2>1, <3>1
    <3>3. u[1] = "props" /\ u[2] = i
      BY <3>2
    <3> QED BY <3>1, <3>2, <3>3 DEF Said, PlainOK, Making
  <2>2. Proceed(c, more) /\ UNCHANGED cut
    BY <1>3, <1>4, <1>6
  <2> QED BY <1>0, <1>5, <1>6, <2>1, <2>2, UnwrittenKeeps
<1>7. ASSUME ~Fails(c), i \in Live(db), Write(c, PutRow(db, i, Renamed(db, i, Req(c).to)), {i}), Mark(c, i, "no")
      PROVE  RowsInv'
  <2>0. db \in Database /\ i \in Id /\ db.objs[i] \in Object /\ db.objs[i] # NoObject
    BY <1>7, LiveIs DEF TInv, TypeOK, Database
  <2>1. PICK row : row = Renamed(db, i, Req(c).to)
    OBVIOUS
  <2>2. row.kind = db.objs[i].kind
    BY <2>0, <2>1 DEF Renamed, Object
  <2>3. db'.staging = db.staging /\ db'.objs = [db.objs EXCEPT ![i] = row]
    BY <1>7, <2>0, <2>1 DEF Write, PutRow, Database
  <2>4. db'.objs[i] = row /\ \A x \in Id : x # i => db'.objs[x] = db.objs[x]
    BY <2>0, <2>3 DEF Database
  <2>5. \A x \in Id : note'[x].kind = note[x].kind /\ note'[x].made = note[x].made
    BY <1>7, <2>0, MarkIs
  <2>6. (\A x \in Id : touched[x] \subseteq touched'[x]) /\ call[c].n \in touched'[i] /\ UNCHANGED cut
    BY <1>3, <1>7, <2>0, WriteTouches
  <2>7. Grows(c)
    <3>1. nextId \in Nat
      BY ObjectsAssumption DEF TInv, TypeOK
    <3> QED BY <2>3, <2>5, <2>6, <3>1 DEF Grows, Outside
  <2>8. Changes(c)
    <3> SUFFICES ASSUME NEW x \in Id, x \in Live(db') PROVE SameRow(x) \/ (call[c] # Idle /\ call[c].n \in touched'[x])
      BY <2>3, <2>5 DEF Changes, SameMade
    <3>1. CASE x = i
      BY <1>0, <2>6, <3>1
    <3>2. CASE x # i
      BY <2>4, <3>2, LiveIs DEF SameRow
    <3> QED BY <3>1, <3>2
  <2>9. HitsOK
    BY <1>0, <1>2, <1>7, <2>7, HitsMarked
  <2>10. Own(c)
    <3>1. PICK k : k = call[c]
      OBVIOUS
    <3>2. PICK l : l = Done(k, more)
      OBVIOUS
    <3>3. Becomes(c, l)
      BY <1>3, <1>4, <1>7, <3>1, <3>2, ProceedIs
    <3>4. l \in Call /\ (l # Idle => l.todo = more \o Tail(k.todo) /\ l.n = k.n /\ l.req = k.req)
      BY <1>0, <1>5, <1>7, <3>1, <3>2, DoneTyped
    <3>5. Keeps(c, l)
      <4> SUFFICES ASSUME NEW x \in Id, Has(k.todo, <<"row", x>>) PROVE FALSE
        BY <3>1 DEF Keeps
      <4>1. PICK j \in DOMAIN k.todo : k.todo[j] = <<"row", x>>
        BY DEF Has
      <4>2. DOMAIN k.todo = {1}
        <5>1. k.todo \in Seq(Step) /\ Len(k.todo) = 1
          BY <1>0, <3>1, Working
        <5> HIDE DEF Step
        <5> QED BY <5>1
      <4> QED BY <1>0, <3>1, <4>1, <4>2
    <3>6. CASE l = Idle
      <4>1. NoNewMakers(k, Idle)
        BY DEF NoNewMakers, Idle
      <4> QED BY <3>1, <3>3, <3>4, <3>5, <3>6, <4>1, IdleOK DEF Own
    <3>7. CASE l # Idle
      <4>1. PICK t : t = l.todo
        OBVIOUS
      <4>2. \A j \in DOMAIN t : t[j] = <<"props", i>>
        <5>1. PICK q : q = k.todo
          OBVIOUS
        <5>2. q \in Seq(Step) /\ q # << >> /\ more \in Seq(Step) /\ t = more \o Tail(q)
          BY <1>0, <1>5, <1>7, <3>1, <3>4, <3>7, <4>1, <5>1, Working DEF Suits
        <5>3. /\ \A j \in DOMAIN more : j \in DOMAIN t /\ t[j] = more[j]
              /\ \A j \in DOMAIN t : \/ j \in DOMAIN more
                                     \/ j - Len(more) + 1 \in DOMAIN q \ {1} /\ t[j] = q[j - Len(more) + 1]
          BY ONLY <5>2, Shifted
        <5>4. DOMAIN q = {1}
          <6>1. Len(q) = 1
            BY <1>0, <3>1, <5>1
          <6> HIDE DEF Step
          <6> QED BY <5>2, <6>1
        <5> QED BY <1>5, <1>7, <5>3, <5>4
      <4>3. ASSUME NEW j \in DOMAIN t PROVE StepOK(l, j)' /\ t[j][1] \notin Making
        <5>1. PICK u : u = t[j]
          OBVIOUS
        <5>2. u[1] = "props"
          BY <4>2, <5>1
        <5> QED BY <4>1, <5>1, <5>2 DEF StepOK, PlainOK, PlaceOK, Making
      <4>4. CallOK(l)' /\ NoNewMakers(k, l)
        BY <4>1, <4>3 DEF CallOK, NoNewMakers
      <4> QED BY <3>1, <3>3, <3>4, <3>5, <3>7, <4>4 DEF Own
    <3> QED BY <3>6, <3>7
  <2>11. ASSUME NEW x \in Id PROVE RowOK(x)'
    <3>1. RowOK(x)
      BY DEF RowsInv
    <3>2. note'[x].kind = note[x].kind /\ db'.staging[x] = db.staging[x] /\ nextId' = nextId
      BY <2>3, <2>5
    <3>3. x \in Live(db') => note'[x].kind = db'.objs[x].kind
      <4>1. CASE x = i
        BY <1>7, <2>2, <2>4, <3>1, <3>2, <4>1 DEF RowOK
      <4>2. CASE x # i
        BY <2>4, <3>1, <3>2, <4>2, LiveIs DEF RowOK
      <4> QED BY <4>1, <4>2
    <3>4. db'.staging[x] = "committed" => note'[x].kind = "table" \/ Pursued(x)'
      BY <2>7, <2>10, <3>1, <3>2, PursuedKept DEF RowOK
    <3>5. note'[x].hit # None => \E y \in touched'[x] : {y, note'[x].hit} \in met'
      BY <2>7, <2>9, HitKept
    <3> QED BY <3>1, <3>2, <3>3, <3>4, <3>5 DEF RowOK, Overlaps
  <2> QED BY <1>0, <2>7, <2>8, <2>10, <2>11, Composed
<1> QED BY <1>1, <1>3, <1>6, <1>7

-----------------------------------------------------------------------------
(* Creations                                                               *)

\* A step that unfolds into nothing.
LEMMA Dropped ==
  ASSUME NEW k, Busy(k), NEW l, l = Done(k, << >>)
  PROVE  /\ l \in Call
         /\ \/ l = Idle /\ DOMAIN k.todo = {1}
            \/ /\ l # Idle /\ Alike(k, l) /\ DOMAIN k.todo # {1}
               /\ \A j \in DOMAIN l.todo : j \in Nat /\ j >= 1 /\ j + 1 \in DOMAIN k.todo \ {1} /\ l.todo[j] = k.todo[j + 1]
               /\ \A m \in DOMAIN k.todo \ {1} : m - 1 \in DOMAIN l.todo /\ l.todo[m - 1] = k.todo[m]
<1>1. PICK more : more = << >>
  OBVIOUS
<1>2. Suits(k, more) /\ l = Done(k, more) /\ more \in Seq(Step) /\ Len(more) = 0
  BY <1>1, SuitsNone DEF Suits
<1>3. /\ l \in Call
      /\ l # Idle => /\ l.todo = more \o Tail(k.todo)
                     /\ l.n = k.n /\ l.req = k.req /\ l.parent = k.parent
                     /\ l.seen = k.seen /\ l.twice = k.twice /\ l.after = k.after
  BY <1>2, DoneTyped
<1>4. PICK q : q = k.todo
  OBVIOUS
<1>5. q \in Seq(Step) /\ q # << >>
  BY <1>4 DEF Busy, Regular, Call
<1>6. PICK t : t = more \o Tail(q)
  OBVIOUS
<1>7. /\ t \in Seq(Step) /\ Len(t) = Len(more) + Len(q) - 1
      /\ \A j \in DOMAIN q \ {1} : j + Len(more) - 1 \in DOMAIN t /\ t[j + Len(more) - 1] = q[j]
      /\ \A j \in DOMAIN t : \/ j \in DOMAIN more
                             \/ j - Len(more) + 1 \in DOMAIN q \ {1} /\ t[j] = q[j - Len(more) + 1]
  BY ONLY <1>2, <1>5, <1>6, Shifted
<1>8. /\ DOMAIN more = {} /\ DOMAIN q = 1..Len(q) /\ DOMAIN t = 1..Len(t) /\ Len(q) \in Nat /\ Len(q) # 0 /\ Len(t) \in Nat
      /\ (Len(t) = 0 => t = << >>) /\ (t = << >> => Len(t) = 0)
  <2> HIDE DEF Step
  <2> QED BY <1>1, <1>5, <1>7
<1>9. Len(t) = Len(q) - 1
  BY ONLY <1>2, <1>7, <1>8
<1>10. CASE t = << >>
  <2>1. l = Idle
    BY <1>2, <1>4, <1>6, <1>10 DEF Done
  <2>2. Len(q) = 1
    BY ONLY <1>8, <1>9, <1>10
  <2> QED BY <1>3, <1>4, <1>8, <2>1, <2>2
<1>11. CASE t # << >>
  <2>1. l # Idle
    <3>1. l = [k EXCEPT !.todo = t]
      BY <1>2, <1>4, <1>6, <1>11 DEF Done
    <3>2. l.todo = t
      BY <3>1 DEF Busy, Call
    <3> QED BY <1>11, <3>2, IdleCall
  <2>2. DOMAIN q # {1}
    <3>1. Len(q) > 1
      BY ONLY <1>8, <1>9, <1>11
    <3> QED BY <1>8, <3>1
  <2>3. ASSUME NEW j \in DOMAIN t PROVE j \in Nat /\ j >= 1 /\ j + 1 \in DOMAIN q \ {1} /\ t[j] = q[j + 1]
    <3>1. j \in Nat /\ j >= 1 /\ j - Len(more) + 1 = j + 1
      BY <1>2, <1>8, <2>3
    <3> QED BY <1>7, <1>8, <3>1
  <2>4. ASSUME NEW m \in DOMAIN q \ {1} PROVE m - 1 \in DOMAIN t /\ t[m - 1] = q[m]
    <3>1. m + Len(more) - 1 = m - 1
      BY <1>2, <1>8, <2>4
    <3> QED BY <1>7, <3>1
  <2>5. l.todo = t
    BY <1>3, <1>4, <1>6, <2>1
  <2> QED BY <1>3, <1>4, <2>1, <2>2, <2>3, <2>4, <2>5 DEF Alike
<1> QED BY <1>10, <1>11

Created == {"staged", "mark", "root", "row", "parts", "props", "grant", "link", "stageRow"}

LEMMA CreatedPlain == ASSUME NEW k, NEW s, s[1] \in Created PROVE PlainOK(k, s)'
BY DEF PlainOK, Created

\* The steps of a creation.
LEMMA CreationIs ==
  ASSUME TInv, RowsInv, NEW c \in Client, NEW what \in {"staged", "mark", "row", "stageRow"}, Doing(c, what),
         NEW k, k = call[c]
  PROVE  /\ Busy(k) /\ k.n \in Ordinal /\ k # Idle /\ k.todo # << >> /\ CallOK(k)
         /\ On(c) \in Id /\ k.todo[1] = <<what, On(c)>> /\ 1 \in DOMAIN k.todo
         /\ \A j \in DOMAIN k.todo : k.todo[j][1] \in Created /\ (j # 1 => k.todo[j][1] \notin {"staged", "mark"})
         /\ k.req \in Request /\ k.req.op = IF what = "stageRow" THEN "stage" ELSE "create"
         /\ k.req.staged # None => k.req.kind = "table" /\ what # "stageRow"
         /\ PlaceOK(k, 1)
<1>1. /\ At(c, <<what, On(c)>>) /\ On(c) \in Id /\ Busy(k) /\ k.n \in Ordinal /\ 1 \in DOMAIN k.todo /\ k.todo # << >>
  BY AtSingle DEF Single
<1>2. k.todo[1] = <<what, On(c)>> /\ k.todo[1][1] = what
  BY <1>1 DEF At
<1>3. CallOK(k) /\ PlaceOK(k, 1) /\ k # Idle
  BY HeadOK DEF RowsInv
<1>4. k.req \in Request /\ WellFormed(k.req)
  BY <1>1, ObjectsAssumption DEF Busy, Regular
<1>5. \A j \in DOMAIN k.todo : k.todo[j][1] \in {"look"} \cup OpSteps(k.req.op) /\ (k.todo[j][1] \in Alone => Len(k.todo) = 1)
  BY <1>1 DEF Busy, Regular
<1>6. k.req.op = IF what = "stageRow" THEN "stage" ELSE "create"
  <2>1. what \in OpSteps(k.req.op)
    BY <1>1, <1>2, <1>5
  <2> QED BY <2>1 DEF OpSteps, DropStep
<1>7. ASSUME NEW j \in DOMAIN k.todo PROVE k.todo[j][1] \in Created
  <2>1. k.todo[j][1] # "look"
    <3> SUFFICES ASSUME k.todo[j][1] = "look" PROVE FALSE
      OBVIOUS
    <3>1. Len(k.todo) = 1 /\ k.todo \in Seq(Step)
      BY <1>1, <1>5 DEF Alone, Busy, Call
    <3>2. j = 1
      <4> HIDE DEF Step
      <4> QED BY <3>1
    <3> QED BY <1>2, <3>2
  <2>2. k.todo[j][1] \in OpSteps("create") \cup OpSteps("stage")
    BY <1>5, <1>6, <2>1
  <2> QED BY <2>2 DEF OpSteps, Created
<1>8. ASSUME NEW j \in DOMAIN k.todo, j # 1 PROVE k.todo[j][1] \notin {"staged", "mark"}
  BY <1>3, <1>8 DEF CallOK, StepOK, PlaceOK
<1>9. k.req.staged # None => k.req.kind = "table" /\ what # "stageRow"
  BY <1>4, <1>6 DEF WellFormed
<1> QED BY <1>1, <1>2, <1>3, <1>4, <1>6, <1>7, <1>8, <1>9

LEMMA MarkCommittedKeeps ==
  ASSUME TInv, RowsInv, NEW c \in Client, Outside, UNCHANGED nextId, MarkCommitted(c)
  PROVE  RowsInv'
<1>0. Doing(c, "mark") /\ UNCHANGED <<note, cut>> /\ Proceed(c, << >>)
      /\ Write(c, [db EXCEPT !.staging[On(c)] = "committed"], {On(c)})
  BY DEF MarkCommitted
<1>1. PICK k : k = call[c]
  OBVIOUS
<1>2. /\ Busy(k) /\ k.n \in Ordinal /\ k # Idle /\ k.todo # << >> /\ CallOK(k)
      /\ On(c) \in Id /\ k.todo[1] = <<"mark", On(c)>> /\ 1 \in DOMAIN k.todo
      /\ \A j \in DOMAIN k.todo : k.todo[j][1] \in Created /\ (j # 1 => k.todo[j][1] \notin {"staged", "mark"})
      /\ PlaceOK(k, 1)
  BY <1>0, <1>1, CreationIs
<1>3. PICK i \in Id : i = On(c)
  BY <1>2
<1>4. k.todo[1][1] = "mark" /\ k.todo[1][2] = i
  BY <1>2, <1>3
<1>5. i = k.req.staged /\ Has(k.todo, <<"row", i>>) /\ db.staging[i] # "none"
  BY <1>2, <1>4 DEF PlaceOK
<1>6. PICK m \in DOMAIN k.todo : k.todo[m] = <<"row", i>>
  BY <1>5 DEF Has
<1>7. m # 1
  BY <1>4, <1>6
<1>8. PICK l : l = Done(k, << >>)
  OBVIOUS
<1>9. /\ l \in Call /\ l # Idle /\ Alike(k, l)
      /\ \A j \in DOMAIN l.todo : j \in Nat /\ j >= 1 /\ j + 1 \in DOMAIN k.todo \ {1} /\ l.todo[j] = k.todo[j + 1]
      /\ \A x \in DOMAIN k.todo \ {1} : x - 1 \in DOMAIN l.todo /\ l.todo[x - 1] = k.todo[x]
  <2>1. DOMAIN k.todo # {1}
    BY <1>6, <1>7
  <2> QED BY <1>2, <1>8, <2>1, Dropped
<1>10. Becomes(c, l)
  BY <1>0, <1>1, <1>8, ProceedIs
<1>11. call'[c] = l
  BY <1>9, <1>10, CallOneChanges DEF TInv, TypeOK
<1>12. db \in Database
  BY DEF TInv, TypeOK
<1>13. db'.objs = db.objs /\ db'.staging[i] = "committed" /\ \A x \in Id : x # i => db'.staging[x] = db.staging[x]
  <2>1. db' = [db EXCEPT !.staging = [@ EXCEPT ![i] = "committed"]]
    BY <1>0, <1>3, <1>12 DEF Write, Database
  <2> QED BY <1>12, <2>1 DEF Database
<1>14. (\A x \in Id : touched[x] \subseteq touched'[x]) /\ k.n \in touched'[i]
  BY <1>0, <1>1, <1>3, WriteTouches
<1>15. Grows(c)
  <2>1. nextId \in Nat
    BY ObjectsAssumption DEF TInv, TypeOK
  <2>2. \A x \in Id : /\ db.staging[x] # "none" => db'.staging[x] # "none"
                      /\ db.staging[x] = "committed" => db'.staging[x] = "committed"
    BY <1>13
  <2> QED BY <1>0, <1>14, <2>1, <2>2 DEF Grows, Outside
<1>16. \A x \in Live(db') : SameRow(x)
  BY <1>13, SameRows
<1>17. Changes(c)
  <2>1. \A x \in Id : SameMade(x)
    BY <1>0, <1>5, <1>13 DEF SameMade
  <2> QED BY <1>16, <2>1 DEF Changes
<1>18. HitsOK
  BY <1>0 DEF HitsOK
<1>19. ASSUME NEW j \in DOMAIN l.todo PROVE StepOK(l, j)'
  <2>1. j \in Nat /\ j >= 1 /\ j + 1 \in DOMAIN k.todo \ {1} /\ l.todo[j] = k.todo[j + 1]
    BY <1>9
  <2>2. PICK x \in DOMAIN k.todo \ {1} : x = j + 1 /\ l.todo[j] = k.todo[x]
    BY <2>1
  <2>3. PICK s \in Step : s = k.todo[x]
    BY <1>2 DEF Busy, Call
  <2>4. s[1] \in Created /\ s[1] \notin {"staged", "mark"} /\ StepOK(k, x)
    BY <1>2, <2>2, <2>3 DEF CallOK
  <2>5. PlainOK(l, s)'
    BY <2>4, CreatedPlain
  <2>6. s[1] \in Making => MakerOK(l, j)'
    <3> SUFFICES ASSUME s[1] \in Making PROVE MakerOK(l, j)'
      OBVIOUS
    <3>1. MakerOK(k, x)
      BY <2>3, <2>4 DEF StepOK, PlaceOK
    <3>2. s[2] = i /\ (note[i].kind = "none" \/ {note[i].made, k.n} \in met)
      <4>1. k.req.staged # None
        BY <1>5, NoneNot
      <4>2. s[2] = k.req.staged /\ (k.todo[1][1] = "staged" \/ note[s[2]].kind = "none" \/ {note[s[2]].made, k.n} \in met)
        BY <2>3, <3>1, <4>1 DEF MakerOK
      <4> QED BY <1>4, <1>5, <4>2
    <3>3. \A y \in 1..(j - 1) : l.todo[y][1] \notin Making \cup {"grant"}
      <4> TAKE y \in 1..(j - 1)
      <4>1. y \in DOMAIN l.todo
        <5>1. l.todo \in Seq(Step)
          BY <1>9 DEF Call
        <5> HIDE DEF Step
        <5> QED BY <2>1, <5>1
      <4>2. l.todo[y] = k.todo[y + 1] /\ y + 1 \in 1..(x - 1)
        BY <1>9, <2>1, <2>2, <4>1
      <4> QED BY <3>1, <4>2 DEF MakerOK
    <3>4. l.req = k.req /\ l.n = k.n /\ k.req.staged # None /\ met' = met
      BY <1>5, <1>9, NoneNot DEF Alike, Outside
    <3> QED BY <1>0, <1>5, <1>13, <2>2, <2>3, <3>2, <3>3, <3>4 DEF MakerOK
  <2> QED BY <2>2, <2>3, <2>4, <2>5, <2>6 DEF StepOK, PlaceOK
<1>20. Own(c)
  <2>1. CallOK(l)'
    BY <1>19 DEF CallOK
  <2>2. NoNewMakers(k, l)
    BY <1>9 DEF NoNewMakers
  <2>3. Keeps(c, l)
    <3> SUFFICES ASSUME NEW x \in Id, Has(k.todo, <<"row", x>>) PROVE l.n = k.n /\ Has(l.todo, <<"row", x>>)
      BY <1>1 DEF Keeps
    <3>1. PICK y \in DOMAIN k.todo : k.todo[y] = <<"row", x>>
      BY DEF Has
    <3>2. y # 1
      BY <1>4, <3>1
    <3> QED BY <1>9, <3>1, <3>2 DEF Has, Alike
  <2> QED BY <1>1, <1>9, <1>10, <2>1, <2>2, <2>3 DEF Own, Alike
<1>21. ASSUME NEW x \in Id PROVE RowOK(x)'
  <2>1. RowOK(x) /\ note'[x] = note[x] /\ nextId' = nextId
    BY <1>0 DEF RowsInv
  <2>2. x \in Live(db') => note'[x].kind = db'.objs[x].kind
    BY <1>13, <2>1, LiveIs DEF RowOK
  <2>3. note'[x].hit # None => \E y \in touched'[x] : {y, note'[x].hit} \in met'
    BY <1>15, <1>18, HitKept
  <2>4. CASE x # i
    <3>1. db'.staging[x] = db.staging[x]
      BY <1>13, <2>4
    <3>2. db'.staging[x] = "committed" => note'[x].kind = "table" \/ Pursued(x)'
      BY <1>15, <1>20, <2>1, <3>1, PursuedKept DEF RowOK
    <3> QED BY <2>1, <2>2, <2>3, <3>1, <3>2 DEF RowOK, Overlaps
  <2>5. CASE x = i
    <3>1. Pursued(i)'
      <4>1. m - 1 \in DOMAIN l.todo /\ l.todo[m - 1] = <<"row", i>>
        BY <1>6, <1>7, <1>9
      <4>2. call'[c].n = k.n /\ Has(call'[c].todo, <<"row", i>>)
        BY <1>9, <1>11, <4>1 DEF Has, Alike
      <4> QED BY <1>14, <4>2 DEF Pursued
    <3> QED BY <1>5, <1>13, <2>1, <2>2, <2>3, <2>5, <3>1 DEF RowOK, Overlaps
  <2> QED BY <2>4, <2>5
<1> QED BY <1>1, <1>2, <1>15, <1>17, <1>20, <1>21, Composed

\* What is left of a creation that has made its row makes no other.
LEMMA OwnMade ==
  ASSUME TInv, RowsInv, NEW c \in Client, NEW what \in Making, Doing(c, what), Proceed(c, << >>),
         note'[On(c)].kind = "table" \/ db'.staging[On(c)] # "committed"
  PROVE  Own(c)
<1>1. PICK k : k = call[c]
  OBVIOUS
<1>2. /\ Busy(k) /\ k.n \in Ordinal /\ k # Idle /\ k.todo # << >> /\ CallOK(k)
      /\ On(c) \in Id /\ k.todo[1] = <<what, On(c)>> /\ 1 \in DOMAIN k.todo
      /\ \A j \in DOMAIN k.todo : k.todo[j][1] \in Created /\ (j # 1 => k.todo[j][1] \notin {"staged", "mark"})
  <2>1. CASE what = "row"
    BY <1>1, <2>1, CreationIs
  <2>2. CASE what = "stageRow"
    BY <1>1, <2>2, CreationIs
  <2> QED BY <2>1, <2>2 DEF Making
<1>3. PICK l : l = Done(k, << >>)
  OBVIOUS
<1>4. Becomes(c, l)
  BY <1>1, <1>3, ProceedIs
<1>5. k.todo \in Seq(Step) /\ k.todo[1][1] = what
  BY <1>2 DEF Busy, Call
<1>6. ASSUME NEW j \in DOMAIN k.todo, j # 1 PROVE k.todo[j][1] \notin Making
  <2> SUFFICES ASSUME k.todo[j][1] \in Making PROVE FALSE
    OBVIOUS
  <2>1. MakerOK(k, j)
    BY <1>2 DEF CallOK, StepOK, PlaceOK
  <2>2. 1 \in 1..(j - 1)
    <3>1. j \in Nat /\ j >= 1
      <4> HIDE DEF Step
      <4> QED BY <1>5
    <3> QED BY <1>6, <3>1
  <2> QED BY <1>5, <2>1, <2>2 DEF MakerOK
<1>7. Keeps(c, l)
  <2> SUFFICES ASSUME NEW x \in Id, Has(k.todo, <<"row", x>>) PROVE x = On(c)
    BY <1>1 DEF Keeps
  <2>1. PICK y \in DOMAIN k.todo : k.todo[y] = <<"row", x>>
    BY DEF Has
  <2>2. y = 1
    BY <1>6, <2>1 DEF Making
  <2> QED BY <1>2, <2>1, <2>2
<1>8. CASE l = Idle
  <2>1. NoNewMakers(k, Idle)
    BY DEF NoNewMakers, Idle
  <2> QED BY <1>1, <1>4, <1>7, <1>8, <2>1, IdleCall, IdleOK DEF Own
<1>9. CASE l # Idle
  <2>1. /\ l \in Call /\ Alike(k, l)
        /\ \A j \in DOMAIN l.todo : j + 1 \in DOMAIN k.todo \ {1} /\ l.todo[j] = k.todo[j + 1]
    BY <1>2, <1>3, <1>9, Dropped
  <2>2. ASSUME NEW j \in DOMAIN l.todo PROVE StepOK(l, j)' /\ l.todo[j][1] \notin Making
    <3>1. PICK x \in DOMAIN k.todo \ {1} : l.todo[j] = k.todo[x]
      BY <2>1
    <3>2. PICK s : s = k.todo[x]
      OBVIOUS
    <3>3. s[1] \in Created /\ s[1] \notin {"staged", "mark"} \cup Making
      BY <1>2, <1>6, <3>1, <3>2
    <3>4. PlainOK(l, s)'
      BY <3>3, CreatedPlain
    <3> QED BY <3>1, <3>2, <3>3, <3>4 DEF StepOK, PlaceOK
  <2>3. CallOK(l)' /\ NoNewMakers(k, l)
    BY <2>2 DEF CallOK, NoNewMakers
  <2> QED BY <1>1, <1>4, <1>7, <2>1, <2>3 DEF Own, Alike
<1> QED BY <1>8, <1>9

LEMMA StageRowKeeps ==
  ASSUME TInv, RowsInv, NEW c \in Client, Outside, UNCHANGED nextId, StageRow(c)
  PROVE  RowsInv'
<1>0. Doing(c, "stageRow") /\ UNCHANGED <<note, cut>> /\ Proceed(c, << >>)
      /\ Write(c, [db EXCEPT !.staging[On(c)] = "open"], {On(c)})
  BY DEF StageRow
<1>1. PICK k : k = call[c]
  OBVIOUS
<1>2. /\ k.n \in Ordinal /\ k # Idle /\ k.todo # << >> /\ On(c) \in Id /\ k.todo[1] = <<"stageRow", On(c)>>
      /\ k.req.staged = None /\ PlaceOK(k, 1)
  BY <1>0, <1>1, CreationIs
<1>3. PICK i \in Id : i = On(c)
  BY <1>2
<1>4. Fresh(i)
  <2>1. k.todo[1][1] = "stageRow" /\ k.todo[1][2] = i
    BY <1>2, <1>3
  <2>2. MakerOK(k, 1)
    BY <1>2, <2>1 DEF PlaceOK, Making
  <2> QED BY <1>2, <2>1, <2>2 DEF MakerOK
<1>5. db \in Database
  BY DEF TInv, TypeOK
<1>6. db'.objs = db.objs /\ db'.staging[i] = "open" /\ \A x \in Id : x # i => db'.staging[x] = db.staging[x]
  <2>1. db' = [db EXCEPT !.staging = [@ EXCEPT ![i] = "open"]]
    BY <1>0, <1>3, <1>5 DEF Write, Database
  <2> QED BY <1>5, <2>1 DEF Database
<1>7. \A x \in Id : touched[x] \subseteq touched'[x]
  BY <1>0, WriteTouches
<1>8. Grows(c)
  <2>1. nextId \in Nat
    BY ObjectsAssumption DEF TInv, TypeOK
  <2>2. \A x \in Id : /\ db.staging[x] # "none" => db'.staging[x] # "none"
                      /\ db.staging[x] = "committed" => db'.staging[x] = "committed"
    BY <1>4, <1>6 DEF Fresh
  <2> QED BY <1>0, <1>7, <2>1, <2>2 DEF Grows, Outside
<1>9. \A x \in Live(db') : SameRow(x)
  BY <1>6, SameRows
<1>10. Changes(c)
  <2>1. \A x \in Id : x # i => SameMade(x)
    BY <1>0, <1>6 DEF SameMade
  <2>2. At(c, <<"stageRow", i>>)
    BY <1>1, <1>2, <1>3 DEF At
  <2>3. \E what \in Making : At(c, <<what, i>>)
    BY <2>2 DEF Making
  <2> QED BY <1>0, <1>9, <2>1, <2>3 DEF Changes
<1>11. HitsOK
  BY <1>0 DEF HitsOK
<1>12. Own(c)
  <2>1. "stageRow" \in Making
    BY DEF Making
  <2>2. db'.staging[On(c)] # "committed"
    BY <1>3, <1>6
  <2> QED BY <1>0, <2>1, <2>2, OwnMade
<1>13. ASSUME NEW x \in Id PROVE RowOK(x)'
  <2>1. RowOK(x) /\ note'[x] = note[x] /\ nextId' = nextId
    BY <1>0 DEF RowsInv
  <2>2. x \in Live(db') => note'[x].kind = db'.objs[x].kind
    BY <1>6, <2>1, LiveIs DEF RowOK
  <2>3. note'[x].hit # None => \E y \in touched'[x] : {y, note'[x].hit} \in met'
    BY <1>8, <1>11, HitKept
  <2>4. CASE x # i
    <3>1. db'.staging[x] = db.staging[x]
      BY <1>6, <2>4
    <3>2. db'.staging[x] = "committed" => note'[x].kind = "table" \/ Pursued(x)'
      BY <1>8, <1>12, <2>1, <3>1, PursuedKept DEF RowOK
    <3> QED BY <2>1, <2>2, <2>3, <3>1, <3>2 DEF RowOK, Overlaps
  <2>5. CASE x = i
    <3>1. nextId \in Nat /\ i \in Nat /\ i < nextId /\ note[i].kind = "none"
      BY <1>4, <1>8 DEF Fresh, Grows, Id
    <3>2. ~(i >= nextId)
      BY ONLY <3>1
    <3> QED BY <1>6, <2>1, <2>2, <2>3, <2>5, <3>1, <3>2 DEF RowOK, Overlaps
  <2> QED BY <2>4, <2>5
<1> QED BY <1>1, <1>2, <1>8, <1>10, <1>12, <1>13, Composed

LEMMA CreateRowKeeps ==
  ASSUME TInv, RowsInv, NEW c \in Client, Outside, UNCHANGED nextId, CreateRow(c)
  PROVE  RowsInv'
<1>0. Doing(c, "row")
  BY DEF CreateRow
<1>1. PICK k : k = call[c]
  OBVIOUS
<1>2. /\ k.n \in Ordinal /\ k # Idle /\ k.todo # << >> /\ On(c) \in Id /\ k.todo[1] = <<"row", On(c)>>
      /\ k.req \in Request /\ PlaceOK(k, 1) /\ (k.req.staged # None => k.req.kind = "table")
  BY <1>0, <1>1, CreationIs
<1>3. PICK i \in Id : i = On(c)
  BY <1>2
<1>4. PICK row : row = [kind |-> k.req.kind, name |-> Last(k.req.path), parent |-> k.parent, max |-> 0,
                        root |-> "root" \in k.req.opts, from |-> k.from]
  OBVIOUS
<1>5. PICK new : new = [NoNote EXCEPT !.kind = k.req.kind, !.made = k.n, !.wants = Wanted(k.req)]
  OBVIOUS
<1>6. CASE Fails(c)
  BY <1>1, <1>2, <1>6, FailsKeeps DEF Outside
<1>7. ASSUME ~Fails(c)
      PROVE  /\ Write(c, PutRow(db, i, row), {i, k.parent}) /\ note' = [note EXCEPT ![i] = new]
             /\ Proceed(c, << >>) /\ UNCHANGED cut
  BY <1>1, <1>3, <1>4, <1>5, <1>7 DEF CreateRow, Req
<1>8. ASSUME ~Fails(c) PROVE RowsInv'
  <2>1. new.kind = k.req.kind /\ new.made = k.n /\ new.hit = None
    BY <1>5 DEF NoNote
  <2>2. db \in Database /\ note \in [Id -> Notes] /\ nextId \in Nat
    BY ObjectsAssumption DEF TInv, TypeOK
  <2>3. note'[i] = new /\ \A x \in Id : x # i => note'[x] = note[x]
    BY <1>7, <1>8, <2>2
  <2>4. db'.staging = db.staging /\ db'.objs = [db.objs EXCEPT ![i] = row]
    BY <1>7, <1>8, <2>2 DEF Write, PutRow, Database
  <2>5. db'.objs[i] = row /\ \A x \in Id : x # i => db'.objs[x] = db.objs[x]
    BY <2>2, <2>4 DEF Database
  <2>6. (\A x \in Id : touched[x] \subseteq touched'[x]) /\ k.n \in touched'[i]
    BY <1>1, <1>7, <1>8, WriteTouches
  <2>7. \/ k.req.staged = None /\ Fresh(i)
        \/ k.req.staged # None /\ k.req.kind = "table" /\ db.staging[i] = "committed"
    <3>1. k.todo[1][1] = "row" /\ k.todo[1][2] = i
      BY <1>2, <1>3
    <3>2. MakerOK(k, 1)
      BY <1>2, <3>1 DEF PlaceOK, Making
    <3> QED BY <1>2, <3>1, <3>2 DEF MakerOK
  <2>8. RowOK(i)
    BY DEF RowsInv
  <2>9. /\ note[i].kind # "none" => k.req.kind = note[i].kind
        /\ db.staging[i] # "none" => k.req.kind = "table"
        /\ db.staging[i] # "open"
        /\ ~(i >= nextId)
    <3>1. CASE Fresh(i)
      <4>1. i \in Nat /\ i < nextId
        BY <3>1 DEF Fresh, Id
      <4>2. ~(i >= nextId)
        BY ONLY <2>2, <4>1
      <4> QED BY <3>1, <4>2 DEF Fresh
    <3>2. CASE k.req.kind = "table" /\ db.staging[i] = "committed"
      BY <2>8, <3>2 DEF RowOK
    <3> QED BY <2>7, <3>1, <3>2
  <2>10. Grows(c)
    <3>1. \A x \in Id : note[x].kind # "none" => note'[x].kind = note[x].kind
      BY <2>1, <2>3, <2>9
    <3> QED BY <1>7, <1>8, <2>2, <2>4, <2>6, <3>1 DEF Grows, Outside
  <2>11. Changes(c)
    <3>1. ASSUME NEW x \in Id, x # i PROVE SameMade(x) /\ (x \in Live(db') => SameRow(x))
      <4>1. note'[x] = note[x] /\ db'.staging = db.staging /\ db'.objs[x] = db.objs[x]
        BY <2>3, <2>4, <2>5, <3>1
      <4> QED BY <4>1, LiveIs DEF SameMade, SameRow
    <3>2. At(c, <<"row", i>>)
      BY <1>1, <1>2, <1>3 DEF At
    <3>3. \E what \in Making : At(c, <<what, i>>)
      BY <3>2 DEF Making
    <3>4. note'[i].made = call[c].n /\ call[c] # Idle /\ call[c].n \in touched'[i]
      BY <1>1, <1>2, <2>1, <2>3, <2>6
    <3> QED BY <3>1, <3>3, <3>4 DEF Changes
  <2>12. HitsOK
    BY <2>1, <2>3 DEF HitsOK
  <2>13. Own(c)
    <3>1. "row" \in Making
      BY DEF Making
    <3>2. note'[On(c)].kind = "table" \/ db'.staging[On(c)] # "committed"
      BY <1>3, <2>1, <2>3, <2>4, <2>9
    <3> QED BY <1>0, <1>7, <1>8, <3>1, <3>2, OwnMade
  <2>14. ASSUME NEW x \in Id PROVE RowOK(x)'
    <3>1. RowOK(x) /\ nextId' = nextId /\ db'.staging[x] = db.staging[x]
      BY <2>4 DEF RowsInv
    <3>2. note'[x].hit # None => \E y \in touched'[x] : {y, note'[x].hit} \in met'
      BY <2>10, <2>12, HitKept
    <3>3. CASE x # i
      <4>1. note'[x] = note[x] /\ (x \in Live(db') => note'[x].kind = db'.objs[x].kind)
        BY <2>3, <2>5, <3>1, <3>3, LiveIs DEF RowOK
      <4>2. db'.staging[x] = "committed" => note'[x].kind = "table" \/ Pursued(x)'
        BY <2>10, <2>13, <3>1, <4>1, PursuedKept DEF RowOK
      <4> QED BY <3>1, <3>2, <4>1, <4>2 DEF RowOK, Overlaps
    <3>4. CASE x = i
      <4>1. note'[i].kind = k.req.kind /\ db'.objs[i].kind = k.req.kind
        BY <1>4, <2>1, <2>3, <2>5
      <4> QED BY <2>9, <3>1, <3>2, <3>4, <4>1 DEF RowOK, Overlaps
    <3> QED BY <3>3, <3>4
  <2> QED BY <1>1, <1>2, <2>10, <2>11, <2>13, <2>14, Composed
<1> QED BY <1>6, <1>8

LEMMA StagedTableKeeps ==
  ASSUME TInv, RowsInv, NEW c \in Client, Outside, UNCHANGED nextId, StagedTable(c)
  PROVE  RowsInv'
<1>0. Doing(c, "staged")
  BY DEF StagedTable
<1>1. PICK k : k = call[c]
  OBVIOUS
<1>2. /\ Busy(k) /\ k.n \in Ordinal /\ k # Idle /\ k.todo # << >> /\ CallOK(k)
      /\ On(c) \in Id /\ k.todo[1] = <<"staged", On(c)>> /\ 1 \in DOMAIN k.todo
      /\ \A j \in DOMAIN k.todo : k.todo[j][1] \in Created /\ (j # 1 => k.todo[j][1] \notin {"staged", "mark"})
      /\ k.req.op = "create" /\ PlaceOK(k, 1)
  BY <1>0, <1>1, CreationIs
<1>3. PICK i \in Id : i = On(c)
  BY <1>2
<1>4. CASE Fails(c)
  BY <1>1, <1>2, <1>4, FailsKeeps DEF Outside
<1>5. CASE db.staging[i] = "open" /\ Proceed(c, << <<"mark", i>> >>) /\ Unwritten /\ UNCHANGED cut
  <2>1. PICK s : s = <<"mark", i>>
    OBVIOUS
  <2>2. s \in Step /\ s[1] = "mark" /\ s[2] = i
    BY <2>1 DEF Step, Single
  <2>3. PICK more : more = <<s>>
    OBVIOUS
  <2>4. more \in Seq(Step)
    BY <2>2, <2>3
  <2>4a. DOMAIN more = {1} /\ more[1] = s /\ Len(more) = 1
    BY <2>3
  <2>5. Suits(k, more)
    <3>1. "mark" \in OpSteps(k.req.op) \ Opening
      BY <1>2 DEF OpSteps, Opening, Alone, DropStep
    <3> QED BY <2>2, <2>3, <3>1, OneMore
  <2>6. PICK l : l = Done(k, more)
    OBVIOUS
  <2>7. Becomes(c, l)
    BY <1>1, <1>5, <2>1, <2>3, <2>6, ProceedIs
  <2>8. PICK q : q = k.todo
    OBVIOUS
  <2>9. q \in Seq(Step) /\ q # << >>
    BY <1>2, <2>8 DEF Busy, Call
  <2>10. PICK t : t = more \o Tail(q)
    OBVIOUS
  <2>11. /\ t \in Seq(Step) /\ Len(t) = Len(more) + Len(q) - 1
         /\ \A j \in DOMAIN more : j \in DOMAIN t /\ t[j] = more[j]
         /\ \A j \in DOMAIN q \ {1} : j + Len(more) - 1 \in DOMAIN t /\ t[j + Len(more) - 1] = q[j]
         /\ \A j \in DOMAIN t : \/ j \in DOMAIN more
                                \/ j - Len(more) + 1 \in DOMAIN q \ {1} /\ t[j] = q[j - Len(more) + 1]
    BY ONLY <2>4, <2>9, <2>10, Shifted
  <2>12. DOMAIN q = 1..Len(q) /\ DOMAIN t = 1..Len(t) /\ Len(q) \in Nat /\ Len(t) \in Nat
    <3> HIDE DEF Step
    <3> QED BY <2>9, <2>11
  <2>13. /\ 1 \in DOMAIN t /\ t[1] = s
         /\ \A j \in DOMAIN q \ {1} : j \in DOMAIN t /\ t[j] = q[j]
         /\ \A j \in DOMAIN t : j = 1 \/ (j \in DOMAIN q \ {1} /\ t[j] = q[j])
    <3>1. \A j \in Int : j + Len(more) - 1 = j /\ j - Len(more) + 1 = j
      BY <2>4a
    <3>2. (\A j \in DOMAIN q : j \in Int) /\ (\A j \in DOMAIN t : j \in Int)
      BY <2>12
    <3> QED BY <2>4a, <2>11, <3>1, <3>2
  <2>14. l # Idle /\ l \in Call /\ Alike(k, l) /\ l.todo = t
    <3>1. t # << >>
      BY <2>13
    <3>2. l = [k EXCEPT !.todo = t]
      BY <2>6, <2>8, <2>10, <3>1 DEF Done
    <3>3. l.todo = t
      BY <1>2, <3>2 DEF Busy, Call
    <3>4. l # Idle
      BY <3>1, <3>3, IdleCall
    <3> QED BY <1>2, <2>5, <2>6, <3>3, <3>4, DoneTyped DEF Alike
  <2>15. Tame /\ HitsOK /\ Grows(c)
    BY <1>5, UnwrittenTame, TameGrows DEF Outside
  <2>16. i = k.req.staged /\ Has(k.todo, <<"row", i>>)
    <3>1. k.todo[1][1] = "staged" /\ k.todo[1][2] = i
      BY <1>2, <1>3
    <3> QED BY <1>2, <3>1 DEF PlaceOK
  <2>17. \A x \in Id : Has(k.todo, <<"row", x>>) => Has(t, <<"row", x>>)
    <3> SUFFICES ASSUME NEW x \in Id, Has(k.todo, <<"row", x>>) PROVE Has(t, <<"row", x>>)
      OBVIOUS
    <3>1. PICK m \in DOMAIN q : q[m] = <<"row", x>>
      BY <2>8 DEF Has
    <3>2. m # 1
      BY <1>2, <2>8, <3>1
    <3> QED BY <2>13, <3>1, <3>2 DEF Has
  <2>18. note[i].kind = "none"
    BY <1>5 DEF RowsInv, RowOK
  <2>19. ASSUME NEW j \in DOMAIN t, j # 1 PROVE StepOK(l, j)' /\ \E m \in DOMAIN k.todo : k.todo[m] = t[j]
    <3>1. j \in DOMAIN q /\ t[j] = q[j]
      BY <2>13, <2>19
    <3>2. PICK u : u = q[j]
      OBVIOUS
    <3>3. StepOK(k, j) /\ u[1] \in Created /\ u[1] \notin {"staged", "mark"}
      BY <1>2, <2>8, <2>19, <3>1, <3>2 DEF CallOK
    <3>4. PlainOK(l, u)'
      BY <3>3, CreatedPlain
    <3>5. u[1] \in Making => MakerOK(l, j)'
      <4> SUFFICES ASSUME u[1] \in Making PROVE MakerOK(l, j)'
        OBVIOUS
      <4>1. MakerOK(k, j)
        BY <2>8, <3>2, <3>3 DEF StepOK, PlaceOK
      <4>2. u[2] = i /\ k.req.staged # None
        BY <2>8, <2>16, <3>2, <4>1, NoneNot DEF MakerOK
      <4>3. \A y \in 1..(j - 1) : t[y][1] \notin Making \cup {"grant"}
        <5> TAKE y \in 1..(j - 1)
        <5>1. y \in DOMAIN t
          BY <2>12
        <5>2. CASE y = 1
          BY <2>2, <2>13, <5>2 DEF Making
        <5>3. CASE y # 1
          <6>1. t[y] = q[y]
            BY <2>13, <5>1, <5>3
          <6> QED BY <2>8, <4>1, <6>1 DEF MakerOK
        <5> QED BY <5>2, <5>3
      <4>4. t[1][1] = "mark" /\ note'[i].kind = "none" /\ l.req = k.req
        BY <1>5, <2>2, <2>13, <2>14, <2>18 DEF Alike, Unwritten
      <4>5. l.todo[j][2] = i
        BY <2>14, <3>1, <3>2, <4>2
      <4> QED BY <2>14, <2>16, <4>2, <4>3, <4>4, <4>5 DEF MakerOK
    <3> QED BY <2>8, <2>14, <3>1, <3>2, <3>3, <3>4, <3>5 DEF StepOK, PlaceOK
  <2>20. StepOK(l, 1)'
    <3>1. PlainOK(l, s)'
      BY <2>2, CreatedPlain DEF Created
    <3>2. Has(t, <<"row", i>>) /\ i = l.req.staged
      BY <2>14, <2>16, <2>17 DEF Alike
    <3>3. db'.staging[i] # "none"
      BY <1>5 DEF Unwritten
    <3> QED BY <2>2, <2>13, <2>14, <3>1, <3>2, <3>3 DEF StepOK, PlaceOK, Making
  <2>21. CallOK(l)' /\ NoNewMakers(k, l)
    <3>1. CallOK(l)'
      BY <2>14, <2>19, <2>20 DEF CallOK
    <3>2. NoNewMakers(k, l)
      BY <2>2, <2>13, <2>14, <2>19 DEF NoNewMakers, Making
    <3> QED BY <3>1, <3>2
  <2>22. Keeps(c, l)
    BY <1>1, <2>14, <2>17 DEF Keeps, Alike
  <2>23. Own(c)
    BY <1>1, <2>7, <2>14, <2>21, <2>22 DEF Own, Alike
  <2> QED BY <1>1, <1>2, <2>15, <2>23, RowsTame, TameChanges, Composed
<1> QED BY <1>3, <1>4, <1>5 DEF StagedTable

-----------------------------------------------------------------------------
(* Pages                                                                   *)

\* What one page adds to what a listing has seen.
LEMMA PageAdds ==
  ASSUME TInv, NEW parent, NEW kind, NEW after \in Name \cup {None}, NEW F, F = OverFetched(db, parent, kind, after),
         NEW shown, shown = {x \in Under(db, parent, kind) : db.objs[x].name \in PageOf(F)},
         NEW x \in Under(db, parent, kind)
  PROVE  /\ x \in shown => ~(db.objs[x].name <= after)
         /\ Token(F) = None => x \in shown \/ db.objs[x].name <= after
         /\ Token(F) # None => (db.objs[x].name <= Token(F) <=> x \in shown \/ db.objs[x].name <= after)
<1>1. PICK S : S = NamesAfter(db, parent, kind, after)
  OBVIOUS
<1>2. S \in SUBSET Nat /\ IsFiniteSet(S) /\ S \subseteq Name /\ F = FirstOf(S, PageSize + 1)
  BY <1>1, NamesAfterIs DEF OverFetched
<1>3. PageOf(F) = FirstOf(S, PageSize) /\ (PageOf(F) = F => F = S) /\ PageSize \in Nat /\ PageSize > 0
  BY <1>2, PageIs, ObjectsAssumption
<1>4. PICK P : P = PageOf(F)
  OBVIOUS
<1>5. P \subseteq S /\ IsFiniteSet(P) /\ (S # {} => P # {}) /\ \A n \in P, m \in S : m < n => m \in P
  BY <1>2, <1>3, <1>4, FirstOfIs
<1>6. PICK n : n = db.objs[x].name
  OBVIOUS
<1>7. n \in Name /\ n \in Nat /\ after \in Nat
  <2>1. x \in Live(db)
    BY DEF Under
  <2>2. db.objs[x] \in Object
    BY <2>1, LiveIs DEF TInv, TypeOK, Database
  <2> QED BY <1>6, <2>2, ObjectsAssumption DEF Object, None
<1>8. n \in S <=> n > after
  BY <1>1, <1>6 DEF NamesAfter
<1>9. x \in shown <=> n \in P
  BY <1>4, <1>6
<1>10. \A m \in S : m > after /\ m \in Nat
  BY <1>1, <1>2 DEF NamesAfter
<1>11. x \in shown => ~(n <= after)
  <2> SUFFICES ASSUME n \in P PROVE ~(n <= after)
    BY <1>9
  <2>1. n > after
    BY <1>5, <1>8
  <2> QED BY ONLY <1>7, <2>1
<1>12. CASE P = F
  <2>1. Token(F) = None /\ P = S
    BY <1>3, <1>4, <1>12 DEF Token
  <2>2. n \in S \/ n <= after
    <3>1. n > after \/ n <= after
      BY ONLY <1>7
    <3> QED BY <1>8, <3>1
  <2> QED BY <1>6, <1>9, <1>11, <2>1, <2>2
<1>13. CASE P # F
  <2>1. S # {}
    BY <1>2, <1>4, <1>5, <1>13 DEF FirstOf
  <2>2. PICK g : g = LastOf(P)
    OBVIOUS
  <2>3. g \in P /\ \A m \in P : m <= g
    BY <1>2, <1>5, <2>1, <2>2, GreatestIs
  <2>4. Token(F) = g /\ g # None
    <3>1. g \in Name
      BY <1>2, <1>5, <2>3
    <3> QED BY <1>4, <1>13, <2>2, <3>1, ObjectsAssumption DEF Token
  <2>5. g \in Nat /\ g > after
    BY <1>5, <1>10, <2>3
  <2>6. n \in P => n <= g
    BY <2>3
  <2>7. n <= after => n <= g
    BY ONLY <1>7, <2>5
  <2>8. n <= g => n \in P \/ n <= after
    <3> SUFFICES ASSUME n <= g, ~(n <= after) PROVE n \in P
      OBVIOUS
    <3>1. n > after /\ (n = g \/ n < g)
      BY ONLY <1>7, <2>5, n <= g, ~(n <= after)
    <3> QED BY <1>5, <1>8, <2>3, <3>1
  <2> QED BY <1>6, <1>9, <1>11, <2>4, <2>6, <2>7, <2>8
<1> QED BY <1>12, <1>13

LEMMA ReadPageKeeps ==
  ASSUME TInv, RowsInv, NEW c \in Client, Outside, UNCHANGED nextId, ReadPage(c)
  PROVE  RowsInv'
<1> DEFINE fetched == OverFetched(db, On(c), Req(c).kind, call[c].after)
           shown == {i \in Under(db, On(c), Req(c).kind) : db.objs[i].name \in PageOf(fetched)}
<1>0. /\ call[c].todo # << >> /\ On(c) \in Id \cup {None} /\ Busy(call[c]) /\ call[c] # Idle
      /\ Len(call[c].todo) = 1 /\ call[c].todo[1][1] = "page" /\ call[c].todo[1][2] = On(c)
      /\ PlainOK(call[c], call[c].todo[1]) /\ call[c].todo \in Seq(Step)
  <2>1. Doing(c, "page")
    BY DEF ReadPage
  <2> QED BY <2>1, AtStep, HeadOK, Working DEF Alone
<1>1. PICK s : s = <<IF Token(fetched) # None THEN "page" ELSE "answer", On(c)>>
  OBVIOUS
<1>2. s \in Step /\ s[1] = (IF Token(fetched) # None THEN "page" ELSE "answer") /\ s[2] = On(c)
  BY <1>0, <1>1 DEF Step
<1>3. PICK t : t = <<s>>
  OBVIOUS
<1>4. t \in Seq(Step) /\ t # << >> /\ Len(t) = 1 /\ DOMAIN t = {1} /\ t[1] = s
  BY <1>2, <1>3, OneStep
<1>5. PICK k : k = call[c]
  OBVIOUS
<1>6. k \in Call /\ Busy(k)
  BY <1>0, <1>5 DEF Busy
<1>7. PICK a : a = Token(fetched)
  OBVIOUS
<1>8. a \in Name \cup {None}
  BY <1>7, TokenType
<1>9. PICK S : S = shown
  OBVIOUS
<1>10. S \in SUBSET Id
  BY <1>9 DEF Under, Live
<1>11. PICK l : l = [k EXCEPT !.seen = @ \cup S, !.twice = @ \cup (k.seen \cap S), !.after = a, !.todo = t]
  OBVIOUS
<1>12. l \in Call /\ l.n = k.n /\ l.req = k.req /\ l.todo = t /\ l.parent = k.parent
       /\ l.seen = k.seen \cup S /\ l.twice = k.twice \cup (k.seen \cap S) /\ l.after = a
  <2> HIDE DEF Step, Id, None
  <2> QED BY <1>4, <1>6, <1>8, <1>10, <1>11 DEF Call
<1>13. Becomes(c, l)
  BY <1>1, <1>3, <1>5, <1>7, <1>9, <1>11 DEF ReadPage, Becomes, TInv, TypeOK
<1>14. Unwritten /\ UNCHANGED cut
  BY DEF ReadPage
<1>15. Tame /\ HitsOK /\ Grows(c)
  BY <1>14, UnwrittenTame, TameGrows DEF Outside
<1>16. PageOK(k, k.todo[1]) /\ k.todo[1][1] = "page"
  BY <1>0, <1>5 DEF PlainOK
<1>17. On(c) = k.parent /\ Req(c).kind = k.req.kind /\ call[c].after = k.after /\ k.after \in Name \cup {None}
  BY <1>0, <1>5, <1>6, <1>16 DEF PageOK, Req, Call
<1>18. PICK F : F = OverFetched(db, k.parent, k.req.kind, k.after)
  OBVIOUS
<1>19. a = Token(F) /\ S = {x \in Under(db, k.parent, k.req.kind) : db.objs[x].name \in PageOf(F)}
       /\ s[1] = (IF a # None THEN "page" ELSE "answer")
  BY <1>2, <1>7, <1>9, <1>17, <1>18
<1> HIDE DEF fetched, shown
<1>20. ASSUME NEW x \in Under(db, k.parent, k.req.kind)
       PROVE  \/ Overlaps(k.n, x)
              \/ x \notin l.twice /\ (x \in l.seen <=> (s[1] = "answer" \/ db.objs[x].name <= l.after))
  <2>1. CASE Overlaps(k.n, x)
    BY <2>1
  <2>2. CASE x \notin k.twice /\ (x \in k.seen <=> db.objs[x].name <= k.after)
    <3>1. /\ x \in S => ~(db.objs[x].name <= k.after)
          /\ a = None => x \in S \/ db.objs[x].name <= k.after
          /\ a # None => (db.objs[x].name <= a <=> x \in S \/ db.objs[x].name <= k.after)
      BY <1>17, <1>18, <1>19, PageAdds
    <3>2. x \notin l.twice
      BY <1>12, <2>2, <3>1
    <3>3. x \in l.seen <=> x \in S \/ db.objs[x].name <= k.after
      BY <1>12, <2>2
    <3> QED BY <1>12, <1>19, <3>1, <3>2, <3>3
  <2>3. Overlaps(k.n, x) \/ (x \notin k.twice /\ (x \in k.seen <=> db.objs[x].name <= k.after))
    BY <1>16 DEF PageOK
  <2> QED BY <2>1, <2>2, <2>3
<1>21. PageOK(l, s)'
  <2>1. db' = db /\ touched' = touched /\ met' = met
    BY <1>14 DEF Unwritten, Outside
  <2>2. s[2] = l.parent
    BY <1>2, <1>12, <1>17
  <2>3. ASSUME NEW x \in Under(db', l.parent, l.req.kind)
        PROVE  \/ Overlaps(l.n, x)'
               \/ x \notin l.twice /\ (x \in l.seen <=> (s[1] = "answer" \/ db'.objs[x].name <= l.after))
    <3>1. x \in Under(db, k.parent, k.req.kind)
      BY <1>12, <2>1, <2>3
    <3>2. Overlaps(k.n, x) => Overlaps(l.n, x)'
      BY <1>12, <2>1 DEF Overlaps
    <3> QED BY <1>20, <2>1, <3>1, <3>2
  <2> QED BY <2>2, <2>3 DEF PageOK
<1>22. CallOK(l)' /\ NoNewMakers(k, l)
  <2>1. StepOK(l, 1)'
    <3>1. s[1] \in {"page", "answer"}
      BY <1>2
    <3> QED BY <1>4, <1>12, <1>21, <3>1 DEF StepOK, PlainOK, PlaceOK, Making
  <2>2. s[1] \notin Making
    BY <1>2 DEF Making
  <2> QED BY <1>4, <1>12, <2>1, <2>2 DEF CallOK, NoNewMakers
<1>23. Keeps(c, l)
  <2> SUFFICES ASSUME NEW i \in Id, Has(k.todo, <<"row", i>>) PROVE FALSE
    BY <1>5 DEF Keeps
  <2>1. PICK j \in DOMAIN k.todo : k.todo[j] = <<"row", i>>
    BY DEF Has
  <2>2. j = 1
    <3>1. k.todo \in Seq(Step) /\ Len(k.todo) = 1
      BY <1>0, <1>5
    <3> HIDE DEF Step
    <3> QED BY <3>1
  <2> QED BY <1>16, <2>1, <2>2
<1>24. Own(c)
  BY <1>5, <1>12, <1>13, <1>22, <1>23 DEF Own
<1> QED BY <1>0, <1>15, <1>24, RowsTame, TameChanges, Composed

-----------------------------------------------------------------------------
(* The calls that open                                                     *)

\* A call is given its list of steps, and nothing is written.
LEMMA Opened ==
  ASSUME TInv, RowsInv, NEW c \in Client, Unwritten, UNCHANGED cut, met \subseteq met',
         nextId' \in Nat, nextId <= nextId', \A i \in Id : ~Has(call[c].todo, <<"row", i>>),
         NEW l \in Call, Becomes(c, l), CallOK(l)',
         \A d \in Client \ {c} : call[d] # Idle => {call[d].n, l.n} \in met',
         \A j \in DOMAIN l.todo : l.todo[j][1] \in Making /\ l.req.staged = None =>
           l.todo[j][2] = nextId /\ nextId < nextId'
  PROVE  RowsInv'
<1>1. Tame /\ \A i \in Id : touched[i] \subseteq touched'[i]
  BY UnwrittenTame
<1>2. nextId \in Nat
  BY ObjectsAssumption DEF TInv, TypeOK
<1>3. Grows(c) /\ Changes(c)
  BY <1>1, <1>2, TameChanges DEF Grows, Tame
<1>4. call'[c] = l /\ \A d \in Client \ {c} : call'[d] = call[d]
  BY CallOneChanges DEF TInv, TypeOK
<1>5. ASSUME NEW d \in Client, NEW k \in {call'[d]} PROVE CallOK(k)'
  <2>1. CASE d = c
    <3>1. k = l
      BY <1>4, <1>5, <2>1
    <3> QED BY <3>1
  <2>2. CASE d # c
    <3>1. k = call[d]
      BY <1>4, <1>5, <2>2
    <3> QED BY <1>3, <2>2, <3>1, OtherOK
  <2> QED BY <2>1, <2>2
<1>6. AllMet'
  <2>1. \A d, e \in Client \ {c} : d # e /\ call[d] # Idle /\ call[e] # Idle => {call[d].n, call[e].n} \in met'
    BY DEF RowsInv, AllMet
  <2>2. \A d \in Client \ {c} : call[d] # Idle => {call[d].n, l.n} \in met' /\ {l.n, call[d].n} \in met'
    <3> TAKE d \in Client \ {c}
    <3>1. {l.n, call[d].n} = {call[d].n, l.n}
      OBVIOUS
    <3> QED BY <3>1
  <2> QED BY <1>4, <2>1, <2>2 DEF AllMet
<1>7. ASSUME NEW i \in Id PROVE RowOK(i)'
  <2>1. RowOK(i)
    BY DEF RowsInv
  <2>2. Pursued(i) => Pursued(i)'
    <3> SUFFICES ASSUME NEW x \in touched[i], x \in cut \/ \E d \in Client : call[d].n = x /\ Has(call[d].todo, <<"row", i>>)
                 PROVE  Pursued(i)'
      BY DEF Pursued
    <3>1. CASE x \in cut
      BY <3>1 DEF Pursued, Unwritten
    <3>2. ASSUME NEW d \in Client, call[d].n = x, Has(call[d].todo, <<"row", i>>) PROVE Pursued(i)'
      <4>1. d # c
        BY <3>2
      <4>2. call'[d] = call[d]
        BY <1>4, <4>1
      <4> QED BY <3>2, <4>2 DEF Pursued, Unwritten
    <3> QED BY <3>1, <3>2
  <2>3. i >= nextId' => i >= nextId
    BY <1>2 DEF Id
  <2>4. note'[i].hit # None => \E x \in touched'[i] : {x, note'[i].hit} \in met'
    BY <2>1 DEF RowOK, Overlaps, Unwritten
  <2>5. Live(db') = Live(db)
    BY DEF Unwritten
  <2> QED BY <2>1, <2>2, <2>3, <2>4, <2>5 DEF RowOK, Unwritten, Overlaps
<1>8. MakersDiffer'
  <2> SUFFICES ASSUME NEW d \in Client, NEW e \in Client, d # e, call'[d].req.staged = None, call'[e].req.staged = None,
                      NEW j \in DOMAIN call'[d].todo, NEW m \in DOMAIN call'[e].todo,
                      call'[d].todo[j][1] \in Making, call'[e].todo[m][1] \in Making
               PROVE  call'[d].todo[j][2] # call'[e].todo[m][2]
    BY DEF MakersDiffer, Req
  <2>1. ASSUME NEW o \in Client \ {c}, call'[o].req.staged = None, NEW x \in DOMAIN call'[o].todo, call'[o].todo[x][1] \in Making
        PROVE  call'[o].todo[x][2] < nextId
    <3>1. call'[o] = call[o]
      BY <1>4
    <3>2. StepOK(call[o], x)
      BY <2>1, <3>1 DEF RowsInv, CallOK
    <3>3. MakerOK(call[o], x)
      BY <2>1, <3>1, <3>2 DEF StepOK, PlaceOK
    <3> QED BY <2>1, <3>1, <3>3 DEF MakerOK, Fresh
  <2>2. CASE d = c
    <3>1. call'[d].todo[j][2] = nextId
      BY <1>4, <2>2
    <3>2. call'[e].todo[m][2] < nextId
      BY <2>1, <2>2
    <3> QED BY <1>2, <3>1, <3>2
  <2>3. CASE e = c
    <3>1. call'[e].todo[m][2] = nextId
      BY <1>4, <2>3
    <3>2. call'[d].todo[j][2] < nextId
      BY <2>1, <2>3
    <3> QED BY <1>2, <3>1, <3>2
  <2>4. CASE d # c /\ e # c
    BY <1>4, <2>4 DEF RowsInv, MakersDiffer, Req
  <2> QED BY <2>2, <2>3, <2>4
<1> QED BY <1>5, <1>6, <1>7, <1>8 DEF RowsInv

\* The same, of lists that make nothing.
LEMMA OpenedPlain ==
  ASSUME TInv, RowsInv, NEW c \in Client, Unwritten, UNCHANGED <<cut, nextId>>, met \subseteq met',
         \A i \in Id : ~Has(call[c].todo, <<"row", i>>),
         NEW l \in Call, Becomes(c, l),
         \A d \in Client \ {c} : call[d] # Idle => {call[d].n, l.n} \in met',
         \A j \in DOMAIN l.todo : Said(l, l.todo[j])
  PROVE  RowsInv'
<1>1. Tame /\ \A i \in Id : touched[i] \subseteq touched'[i]
  BY UnwrittenTame
<1>2. nextId \in Nat /\ nextId' \in Nat /\ nextId <= nextId'
  BY ObjectsAssumption DEF TInv, TypeOK
<1>3. Grows(c)
  BY <1>1, <1>2 DEF Grows, Tame
<1>4. Alike(l, l)
  BY DEF Alike
<1>5. ASSUME NEW j \in DOMAIN l.todo PROVE StepOK(l, j)' /\ l.todo[j][1] \notin Making
  <2>1. PICK s : s = l.todo[j]
    OBVIOUS
  <2>2. Said(l, s)
    BY <2>1
  <2>3. PlainOK(l, s)'
    BY <1>1, <1>3, <1>4, <2>2, PlainKept DEF Said
  <2> QED BY <2>1, <2>2, <2>3 DEF StepOK, PlaceOK, Said
<1>6. CallOK(l)'
  BY <1>5 DEF CallOK
<1> QED BY <1>2, <1>5, <1>6, Opened

LEMMA LooksAlone ==
  ASSUME TInv, NEW c \in Client, Doing(c, "look")
  PROVE  \A s : Has(call[c].todo, s) => s[1] = "look"
<1>1. call[c].todo \in Seq(Step) /\ Len(call[c].todo) = 1 /\ call[c].todo[1][1] = "look"
  BY AtStep, LookingIs
<1>2. DOMAIN call[c].todo = {1}
  <2> HIDE DEF Step
  <2> QED BY <1>1
<1> QED BY <1>1, <1>2 DEF Has

\* What the others know of a call that has looked.
LEMMA StillMet ==
  ASSUME TInv, RowsInv, NEW c \in Client, call[c] # Idle, Outside, NEW l, l.n = call[c].n
  PROVE  met \subseteq met' /\ \A d \in Client \ {c} : call[d] # Idle => {call[d].n, l.n} \in met'
BY DEF RowsInv, AllMet, Outside

\* A look that finds what the rest of the call is about.
LEMMA LookedKeeps ==
  ASSUME TInv, RowsInv, NEW c \in Client, Doing(c, "look"), Unwritten, Outside, UNCHANGED <<cut, nextId>>,
         NEW l \in Call, Becomes(c, l), l.n = call[c].n, \A j \in DOMAIN l.todo : Said(l, l.todo[j])
  PROVE  RowsInv'
<1>1. \A i \in Id : ~Has(call[c].todo, <<"row", i>>)
  BY LooksAlone
<1>2. call[c] # Idle
  BY AtStep, Working
<1>3. met \subseteq met' /\ \A d \in Client \ {c} : call[d] # Idle => {call[d].n, l.n} \in met'
  BY <1>2, StillMet
<1> QED BY <1>1, <1>3, OpenedPlain

LEMMA LookFailsKeeps ==
  ASSUME TInv, RowsInv, NEW c \in Client, Doing(c, "look"), Fails(c), Outside, UNCHANGED nextId
  PROVE  RowsInv'
BY FailsKeeps, AtStep DEF Outside

LEMMA LookAddVersionKeeps ==
  ASSUME TInv, RowsInv, NEW c \in Client, LookAddVersion(c)
  PROVE  RowsInv'
<1>0. Doing(c, "look") /\ Req(c).op = "addVersion" /\ Outside /\ UNCHANGED nextId
  BY DEF LookAddVersion, Looks
<1>1. PICK k : k = call[c]
  OBVIOUS
<1>2. k \in Call
  BY <1>0, <1>1, LookingIs
<1>3. PICK i : i = FindPath(db, "model", Req(c).path)
  OBVIOUS
<1>4. CASE Fails(c)
  BY <1>0, <1>4, LookFailsKeeps
<1>5. CASE /\ i # None /\ db.objs[i].max < MaxVersion
           /\ call' = [call EXCEPT ![c].todo = << <<"version", i>>, <<"max", i>> >>, ![c].number = db.objs[i].max + 1]
           /\ Unwritten /\ UNCHANGED cut
  <2>1. i \in Id /\ i \in Live(db)
    <3>1. i \in Live(db)
      BY <1>3, <1>5, FindPathIs DEF Kinds, Leaves
    <3> QED BY <3>1, LiveIs
  <2>2. PICK s : s = << <<"version", i>>, <<"max", i>> >>
    OBVIOUS
  <2>3. <<"version", i>> \in Step /\ <<"max", i>> \in Step
    BY <2>1 DEF Step, Single
  <2>4. s \in Seq(Step) /\ DOMAIN s = {1, 2} /\ s[1] = <<"version", i>> /\ s[2] = <<"max", i>>
    BY <2>2, <2>3
  <2>5. PICK n : n = db.objs[i].max + 1
    OBVIOUS
  <2>6. n \in 0..MaxVersion
    <3>1. db.objs[i] \in Object
      BY <2>1 DEF TInv, TypeOK, Database, Live
    <3>2. db.objs[i].max \in 0..MaxVersion /\ MaxVersion \in Nat
      BY <3>1, ObjectsAssumption DEF Object
    <3> QED BY <1>5, <2>5, <3>2
  <2>7. PICK l : l = [k EXCEPT !.todo = s, !.number = n]
    OBVIOUS
  <2>8. l \in Call /\ l.n = k.n /\ l.todo = s
    <3> HIDE DEF Step, Id, None
    <3> QED BY <1>2, <2>4, <2>6, <2>7 DEF Call
  <2>9. Becomes(c, l)
    BY <1>1, <1>5, <2>2, <2>5, <2>7 DEF Becomes, TInv, TypeOK
  <2>10. Said(l, <<"version", i>>) /\ Said(l, <<"max", i>>)
    BY <2>1 DEF Said, PlainOK, Making, Single
  <2>11. \A j \in DOMAIN l.todo : Said(l, l.todo[j])
    BY <2>4, <2>8, <2>10
  <2> QED BY <1>0, <1>1, <1>5, <2>8, <2>9, <2>11, LookedKeeps
<1> QED BY <1>3, <1>4, <1>5 DEF LookAddVersion

LEMMA LookListKeeps ==
  ASSUME TInv, RowsInv, NEW c \in Client, LookList(c)
  PROVE  RowsInv'
<1> DEFINE parent == IF Req(c).kind = "catalog" THEN None ELSE FindParent(db, Req(c).kind, Req(c).path)
<1>0. Doing(c, "look") /\ Req(c).op = "list" /\ Outside /\ UNCHANGED nextId
  BY DEF LookList, Looks
<1>1. PICK k : k = call[c]
  OBVIOUS
<1>2. k \in Call /\ k.req \in Request
  BY <1>0, <1>1, LookingIs
<1>3. PICK p : p = parent
  OBVIOUS
<1>4. p \in Id \cup {None}
  BY <1>0, <1>1, <1>3, LookingIs, FindPathType DEF FindParent, ParentKind, Kinds
<1>5. CASE Fails(c)
  BY <1>0, <1>5, LookFailsKeeps
<1>6. CASE /\ call' = [call EXCEPT ![c].parent = p, ![c].todo = << <<"page", p>> >>]
           /\ Unwritten /\ UNCHANGED cut
  <2>1. PICK x : x = <<"page", p>>
    OBVIOUS
  <2>2. x \in Step /\ x[1] = "page" /\ x[2] = p
    BY <1>4, <2>1 DEF Step
  <2>3. PICK s : s = <<x>>
    OBVIOUS
  <2>4. s \in Seq(Step) /\ DOMAIN s = {1} /\ s[1] = x
    BY <2>2, <2>3, OneStep
  <2>5. PICK l : l = [k EXCEPT !.parent = p, !.todo = s]
    OBVIOUS
  <2>6. /\ l \in Call /\ l.n = k.n /\ l.req = k.req /\ l.todo = s /\ l.parent = p
        /\ l.seen = k.seen /\ l.twice = k.twice /\ l.after = k.after
    <3> HIDE DEF Step, Id, None
    <3> QED BY <1>2, <1>4, <2>4, <2>5 DEF Call
  <2>7. Becomes(c, l)
    BY <1>1, <1>6, <2>1, <2>3, <2>5 DEF Becomes, TInv, TypeOK
  <2>8. k.seen = {} /\ k.twice = {} /\ k.after = None
    BY <1>0, <1>1, HeadOK DEF PlainOK
  <2>9. PageOK(l, x)
    <3>1. ASSUME NEW y \in Under(db, l.parent, l.req.kind) PROVE ~(db.objs[y].name <= None)
      <4>1. y \in Live(db)
        BY <3>1 DEF Under
      <4>2. db.objs[y] \in Object
        BY <4>1 DEF TInv, TypeOK, Database, Live
      <4>3. db.objs[y].name \in Nat \ {None}
        BY <4>2, ObjectsAssumption DEF Object
      <4> QED BY <4>3 DEF None
    <3> QED BY <2>2, <2>6, <2>8, <3>1 DEF PageOK
  <2>10. Said(l, x)
    BY <2>2, <2>9 DEF Said, PlainOK, Making, Single
  <2>11. \A j \in DOMAIN l.todo : Said(l, l.todo[j])
    BY <2>4, <2>6, <2>10
  <2> QED BY <1>0, <1>1, <1>6, <2>6, <2>7, <2>11, LookedKeeps
<1> QED BY <1>3, <1>5, <1>6 DEF LookList

\* A catalog that is looked up is the only one of the name.
LEMMA LookUpKeeps ==
  ASSUME TInv, RowsInv, NamesUnique, NEW c \in Client, NEW op \in {"delete", "rename", "dropVersion"}, LookUp(c, op)
  PROVE  RowsInv'
<1>0. Doing(c, "look") /\ Req(c).op = op /\ Outside /\ UNCHANGED nextId
  BY DEF LookUp, Looks
<1>1. PICK k : k = call[c]
  OBVIOUS
<1>2. k \in Call /\ k.req = Req(c) /\ k.req \in Request /\ WellFormed(k.req) /\ k.req.kind \in Kinds
  BY <1>0, <1>1, LookingIs DEF Request
<1>3. PICK i : i = FindPath(db, Req(c).kind, Req(c).path)
  OBVIOUS
<1>4. CASE Fails(c)
  BY <1>0, <1>4, LookFailsKeeps
<1>5. CASE i # None /\ Proceed(c, StepsOn(Req(c), i)) /\ Unwritten /\ UNCHANGED cut
  <2>1. /\ i \in Live(db) /\ i \in Id /\ db.objs[i].kind = k.req.kind
        /\ db.objs[i].kind = "catalog" => Key(db.objs[i]) = <<"catalog", None, k.req.path[1]>>
    <3>1. /\ i \in Live(db) /\ db.objs[i].kind = k.req.kind /\ db.objs[i].name = k.req.path[Depth(k.req.kind)]
          /\ k.req.kind = "catalog" => db.objs[i].parent = None
      BY <1>2, <1>3, <1>5, FindPathIs
    <3>2. k.req.kind = "catalog" => Depth(k.req.kind) = 1
      BY DEF Depth
    <3> QED BY <3>1, <3>2, LiveIs DEF Key
  <2>2. note[i].kind = k.req.kind /\ note[i].kind # "none"
    BY <1>2, <2>1 DEF RowsInv, RowOK, Kinds, Leaves
  <2>3. PICK s : s = StepsOn(Req(c), i)
    OBVIOUS
  <2>4. /\ s \in Seq(Step) /\ s # << >>
        /\ \/ k.req.op # "delete" /\ Len(s) = 1 /\ s[1] = <<k.req.op, i>>
           \/ k.req.op = "delete" /\ k.req.kind \in {"catalog", "schema"} /\ Len(s) = 1 /\ s[1] = <<"empty", i>>
           \/ /\ k.req.op = "delete" /\ k.req.kind \in Leaves /\ k.req.kind # "table"
              /\ Len(s) = 2 /\ s[1] = <<"dropProps", i>> /\ s[2] = <<"dropRow", i>>
           \/ /\ k.req.op = "delete" /\ k.req.kind = "table"
              /\ Len(s) = 3 /\ s[1] = <<"dropParts", i>> /\ s[2] = <<"dropProps", i>> /\ s[3] = <<"dropRow", i>>
    BY <1>0, <1>2, <2>1, <2>3, StepsOnTyped
  <2>5. PICK l : l = [k EXCEPT !.todo = s]
    OBVIOUS
  <2>6. l \in Call /\ l.n = k.n /\ l.req = k.req /\ l.todo = s
    <3> HIDE DEF Step, Id, None
    <3> QED BY <1>2, <2>4, <2>5 DEF Call
  <2>7. Becomes(c, l)
    BY <1>0, <1>1, <1>5, <2>3, <2>4, <2>5, ProceedFromLook
  <2>8. NamedOK(l, i)
    <3> SUFFICES ASSUME note[i].kind = "catalog", NEW x \in Live(db), Key(db.objs[x]) = <<"catalog", None, l.req.path[1]>>
                 PROVE  x = i
      BY DEF NamedOK
    <3>1. Key(db.objs[x]) = Key(db.objs[i])
      BY <2>1, <2>2, <2>6
    <3> QED BY <2>1, <3>1 DEF NamesUnique
  <2>9. \A what \in {"rename", "empty", "dropRow", "dropProps", "dropParts", "dropVersion"} : Said(l, <<what, i>>)
    BY <2>1, <2>2, <2>6, <2>8 DEF Said, PlainOK, Making, Single
  <2>10. DOMAIN s = 1..Len(s)
    <3> HIDE DEF Step
    <3> QED BY <2>4
  <2>11. \A j \in DOMAIN s : \E what \in {"rename", "empty", "dropRow", "dropProps", "dropParts", "dropVersion"} : s[j] = <<what, i>>
    BY <1>0, <1>2, <2>4, <2>10
  <2>12. \A j \in DOMAIN l.todo : Said(l, l.todo[j])
    BY <2>6, <2>9, <2>11
  <2> QED BY <1>0, <1>1, <1>5, <2>6, <2>7, <2>12, LookedKeeps
<1> QED BY <1>3, <1>4, <1>5 DEF LookUp

\* The list of a creation, as its first look makes it.
LEMMA CreationPlaced ==
  ASSUME TInv, RowsInv, NEW l \in Call, NEW x \in Id, l.req.op = "create", l.todo = CreateSteps(l.req, x),
         l.req.staged # None => x = l.req.staged, l.req.staged = None => Fresh(x)'
  PROVE  CallOK(l)' /\ \A j \in DOMAIN l.todo : l.todo[j][1] \in Making => l.todo[j][2] = x
<1>1. PICK s : s = l.todo
  OBVIOUS
<1>2. /\ Chain(s, 1, 7, x) /\ Has(s, <<"row", x>>)
      /\ \A y : Has(s, y) => y[2] = x /\ y[1] \in {"staged", "root", "row", "parts", "props", "grant", "link"}
      /\ \A y : Has(s, y) /\ y[1] = "staged" => l.req.staged # None
      /\ l.req.staged # None => Has(s, <<"staged", x>>)
  BY <1>1, CreateStepsAre
<1>3. /\ DOMAIN s = 1..Len(s) /\ Len(s) \in Nat
      /\ \A j \in DOMAIN s : 1 <= Rank(s[j][1])
      /\ \A j, m \in DOMAIN s : j < m => Rank(s[j][1]) < Rank(s[m][1])
  BY <1>2 DEF Chain
<1>4. \A j \in DOMAIN s : /\ s[j][2] = x /\ s[j][1] \in {"staged", "root", "row", "parts", "props", "grant", "link"}
                          /\ s[j][1] = "staged" => l.req.staged # None
  BY <1>2 DEF Has
<1>5. Rank("staged") = 1 /\ Rank("row") = 3 /\ Rank("grant") = 6
  BY DEF Rank
<1>6. \A j \in DOMAIN s : s[j][1] = "staged" => j = 1
  <2> SUFFICES ASSUME NEW j \in DOMAIN s, s[j][1] = "staged", j # 1 PROVE FALSE
    OBVIOUS
  <2>1. 1 \in DOMAIN s /\ 1 < j
    BY <1>3
  <2>2. Rank(s[1][1]) < 1 /\ 1 <= Rank(s[1][1])
    BY <1>3, <1>5, <2>1
  <2> QED BY <2>2, RankNat
<1>7. l.req.staged # None => s[1][1] = "staged"
  BY <1>2, <1>6 DEF Has
<1>8. ASSUME NEW j \in DOMAIN s, s[j][1] = "row" PROVE MakerOK(l, j)'
  <2>1. \A m \in 1..(j - 1) : s[m][1] \notin Making \cup {"grant"}
    <3> SUFFICES ASSUME NEW m \in 1..(j - 1), s[m][1] \in Making \cup {"grant"} PROVE FALSE
      OBVIOUS
    <3>1. m \in DOMAIN s /\ m < j
      BY <1>3
    <3>2. Rank(s[m][1]) < 3
      BY <1>3, <1>5, <1>8, <3>1
    <3>3. s[m][1] \in {"row", "grant"}
      BY <1>4, <3>1 DEF Making
    <3> QED BY <1>5, <3>2, <3>3
  <2>2. s[j][2] = x
    BY <1>4
  <2>3. CASE l.req.staged = None
    BY <1>1, <2>1, <2>2, <2>3 DEF MakerOK
  <2>4. CASE l.req.staged # None
    BY <1>1, <1>7, <2>1, <2>2, <2>4 DEF MakerOK
  <2> QED BY <2>3, <2>4
<1>9. ASSUME NEW j \in DOMAIN s PROVE StepOK(l, j)'
  <2>1. PlainOK(l, s[j])'
    <3>1. PICK y : y = s[j]
      OBVIOUS
    <3>2. PlainOK(l, y)'
      BY <1>4, <3>1, CreatedPlain DEF Created
    <3> QED BY <3>1, <3>2
  <2>2. s[j][1] = "staged" => j = 1 /\ s[j][2] = l.req.staged /\ Has(s, <<"row", s[j][2]>>)
    BY <1>2, <1>4, <1>6
  <2>3. s[j][1] # "mark" /\ (s[j][1] \in Making => s[j][1] = "row")
    BY <1>4 DEF Making
  <2>4. PlaceOK(l, j)'
    BY <1>1, <1>8, <2>2, <2>3 DEF PlaceOK, Has
  <2> QED BY <1>1, <2>1, <2>4 DEF StepOK
<1> QED BY <1>1, <1>4, <1>9 DEF CallOK

\* The list of a staging table.
LEMMA StagingPlaced ==
  ASSUME NEW l \in Call, NEW x \in Id, l.req.staged = None, l.todo = << <<"stageRow", x>>, <<"grant", x>> >>, Fresh(x)'
  PROVE  CallOK(l)' /\ \A j \in DOMAIN l.todo : l.todo[j][1] \in Making => l.todo[j][2] = x
<1>1. PICK s : s = l.todo
  OBVIOUS
<1>2. DOMAIN s = {1, 2} /\ s[1] = <<"stageRow", x>> /\ s[2] = <<"grant", x>>
  BY <1>1
<1>3. MakerOK(l, 1)'
  BY <1>1, <1>2 DEF MakerOK
<1>4. ASSUME NEW j \in DOMAIN s PROVE StepOK(l, j)'
  <2>1. PlainOK(l, s[j])'
    <3>1. PICK y : y = s[j]
      OBVIOUS
    <3>2. PlainOK(l, y)'
      BY <1>2, <3>1, CreatedPlain DEF Created
    <3> QED BY <3>1, <3>2
  <2>2. PlaceOK(l, j)'
    BY <1>1, <1>2, <1>3 DEF PlaceOK, Making
  <2> QED BY <1>1, <2>1, <2>2 DEF StepOK
<1> QED BY <1>1, <1>2, <1>4 DEF CallOK, Making

LEMMA LookCreateKeeps ==
  ASSUME TInv, RowsInv, NEW c \in Client, LookCreate(c)
  PROVE  RowsInv'
<1> DEFINE parent == IF Req(c).kind = "catalog" THEN None ELSE FindParent(db, Req(c).kind, Req(c).path)
           i == IF Req(c).staged # None THEN Req(c).staged ELSE nextId
<1>0. Doing(c, "look") /\ Req(c).op \in {"create", "stage"} /\ nextId \in 1..(MaxId + 1) /\ Outside
  BY DEF LookCreate, Looks, TInv, TypeOK
<1>1. PICK k : k = call[c]
  OBVIOUS
<1>2. k.req = Req(c) /\ k \in Call /\ k.req \in Request /\ WellFormed(k.req) /\ call[c] # Idle
  BY <1>0, <1>1, LookingIs, HeadOK
<1>3. CASE Fails(c) /\ UNCHANGED nextId
  BY <1>0, <1>3, LookFailsKeeps
<1>4. CASE /\ i <= MaxId /\ nextId' = (IF i = nextId THEN nextId + 1 ELSE nextId)
           /\ call' = [call EXCEPT ![c].parent = parent,
                                   ![c].todo = IF Req(c).op = "create" THEN CreateSteps(Req(c), i)
                                               ELSE <<<<"stageRow", i>>, <<"grant", i>>>>]
           /\ Unwritten /\ UNCHANGED cut
  <2>1. PICK x : x = i
    OBVIOUS
  <2>2. x \in Id /\ nextId \in Nat /\ nextId' \in Nat /\ nextId <= nextId' /\ (k.req.staged = None => x = nextId /\ nextId < nextId')
    <3>1. k.req.staged \in Id \cup {None}
      BY <1>2 DEF Request
    <3>2. MaxId \in Nat
      BY ObjectsAssumption
    <3>3. CASE Req(c).staged # None
      <4>1. x = Req(c).staged /\ x \in Id
        BY <1>2, <2>1, <3>1, <3>3
      <4>2. nextId \in Nat /\ nextId' \in Nat /\ nextId <= nextId'
        BY <1>0, <1>4, <3>2
      <4> QED BY <1>2, <3>3, <4>1, <4>2
    <3>4. CASE Req(c).staged = None
      <4>1. x = nextId /\ nextId' = nextId + 1 /\ x <= MaxId
        BY <1>4, <2>1, <3>4
      <4> QED BY <1>0, <1>2, <3>2, <3>4, <4>1 DEF Id
    <3> QED BY <3>3, <3>4
  <2>3. PICK p : p = parent
    OBVIOUS
  <2>4. p \in Id \cup {None}
    BY <1>0, <1>1, <2>3, LookingIs, FindPathType DEF FindParent, ParentKind, Kinds
  <2>5. PICK s : s = IF Req(c).op = "create" THEN CreateSteps(Req(c), x) ELSE << <<"stageRow", x>>, <<"grant", x>> >>
    OBVIOUS
  <2>6. s \in Seq(Step)
    <3>1. CASE Req(c).op = "create"
      <4>1. s = CreateSteps(Req(c), x)
        BY <2>5, <3>1
      <4> QED BY <2>2, <4>1, CreateStepsTyped
    <3>2. CASE Req(c).op = "stage"
      <4>1. s = << <<"stageRow", x>>, <<"grant", x>> >>
        BY <2>5, <3>2
      <4>2. <<"stageRow", x>> \in Step /\ <<"grant", x>> \in Step
        BY <2>2 DEF Step, Single
      <4> QED BY <4>1, <4>2
    <3> QED BY <1>0, <3>1, <3>2
  <2>7. PICK l : l = [k EXCEPT !.parent = p, !.todo = s]
    OBVIOUS
  <2>8. l \in Call /\ l.n = k.n /\ l.req = k.req /\ l.todo = s
    <3> HIDE DEF Step, Id, None
    <3> QED BY <1>2, <2>4, <2>6, <2>7 DEF Call
  <2>9. Becomes(c, l)
    BY <1>1, <1>4, <2>1, <2>3, <2>5, <2>7 DEF Becomes, TInv, TypeOK
  <2>10. k.req.staged = None => Fresh(x)'
    <3> SUFFICES ASSUME k.req.staged = None PROVE Fresh(x)'
      OBVIOUS
    <3>1. RowOK(x) /\ x = nextId /\ nextId < nextId'
      BY <2>2 DEF RowsInv
    <3>2. note[x].kind = "none" /\ db.staging[x] = "none"
      BY <2>2, <3>1 DEF RowOK
    <3> QED BY <1>4, <3>1, <3>2 DEF Fresh, Unwritten
  <2>11. CallOK(l)' /\ \A j \in DOMAIN l.todo : l.todo[j][1] \in Making => l.todo[j][2] = x
    <3>1. CASE Req(c).op = "create"
      <4>1. l.todo = CreateSteps(l.req, x) /\ l.req.op = "create"
        BY <1>2, <2>5, <2>8, <3>1
      <4>2. l.req.staged # None => x = l.req.staged
        BY <1>2, <2>1, <2>8
      <4> QED BY <2>2, <2>8, <2>10, <4>1, <4>2, CreationPlaced
    <3>2. CASE Req(c).op = "stage"
      <4>1. l.todo = << <<"stageRow", x>>, <<"grant", x>> >>
        BY <2>5, <2>8, <3>2
      <4>2. l.req.staged = None
        BY <1>2, <2>8, <3>2 DEF WellFormed
      <4> QED BY <2>2, <2>8, <2>10, <4>1, <4>2, StagingPlaced
    <3> QED BY <1>0, <3>1, <3>2
  <2>12. \A j \in DOMAIN l.todo : l.todo[j][1] \in Making /\ l.req.staged = None => l.todo[j][2] = nextId /\ nextId < nextId'
    BY <2>2, <2>8, <2>11
  <2>13. \A y \in Id : ~Has(call[c].todo, <<"row", y>>)
    BY <1>0, LooksAlone
  <2>14. met \subseteq met' /\ \A d \in Client \ {c} : call[d] # Idle => {call[d].n, l.n} \in met'
    BY <1>0, <1>1, <1>2, <2>8, StillMet
  <2> QED BY <1>4, <2>2, <2>8, <2>9, <2>11, <2>12, <2>13, <2>14, Opened
<1> QED BY <1>3, <1>4 DEF LookCreate

LEMMA LookKeeps == ASSUME TInv, RowsInv, NamesUnique, NEW c \in Client, Look(c) PROVE RowsInv'
BY LookCreateKeeps, LookUpKeeps, LookAddVersionKeeps, LookListKeeps DEF Look, LookDelete, LookRename, LookDropVersion

\* A call that comes in knows the others from then on.
LEMMA BeginKeeps == ASSUME TInv, RowsInv, NEW c \in Client, Begin(c) PROVE RowsInv'
<1>1. begun + 1 \in Ordinal
  BY ObjectsAssumption DEF TInv, TypeOK, Begin, Ordinal
<1>2. PICK req \in Requests :
        call' = [call EXCEPT ![c] = [Idle EXCEPT !.n = begun + 1, !.req = req, !.todo = << <<"look", None>> >>]]
  BY DEF Begin
<1>3. PICK l : l = Newcomer(begun + 1, req)
  OBVIOUS
<1>4. /\ l \in Call /\ l.n = begun + 1 /\ l.seen = {} /\ l.twice = {} /\ l.after = None
      /\ l.todo[1] = <<"look", None>> /\ DOMAIN l.todo = {1}
  BY <1>1, <1>3, NewcomerTyped
<1>5. Becomes(c, l)
  BY <1>2, <1>3 DEF Becomes, Newcomer
<1>6. met \subseteq met' /\ \A d \in Client \ {c} : call[d] # Idle => {call[d].n, l.n} \in met'
  BY <1>4 DEF Begin
<1>7. Said(l, <<"look", None>>)
  BY <1>4 DEF Said, PlainOK, Making, Single
<1>8. \A j \in DOMAIN l.todo : Said(l, l.todo[j])
  BY <1>4, <1>7
<1>9. \A i \in Id : ~Has(call[c].todo, <<"row", i>>)
  <2>1. DOMAIN call[c].todo = {}
    BY DEF Begin, Idle
  <2> QED BY <2>1 DEF Has
<1>10. Unwritten /\ UNCHANGED <<cut, nextId>>
  BY DEF Begin
<1> QED BY <1>4, <1>5, <1>6, <1>8, <1>9, <1>10, OpenedPlain

-----------------------------------------------------------------------------
(* All steps                                                               *)

LEMMA WorkKeeps == ASSUME TInv, RowsInv, NEW c \in Client, Work(c) PROVE RowsInv'
<1>1. Outside /\ UNCHANGED nextId
  BY DEF Work
<1>2. CASE \/ StagedTable(c) \/ MarkCommitted(c) \/ StageRow(c) \/ FindRoot(c) \/ CreateRow(c) \/ GrantOwner(c)
           \/ DropOne(c) \/ CheckEmpty(c) \/ ListChildren(c) \/ NextChild(c) \/ Rename(c) \/ ReadPage(c) \/ Answer(c)
  BY <1>1, <1>2, StagedTableKeeps, MarkCommittedKeeps, StageRowKeeps, FindRootKeeps, CreateRowKeeps, GrantOwnerKeeps,
     DropOneKeeps, CheckEmptyKeeps, ListChildrenKeeps, NextChildKeeps, RenameKeeps, ReadPageKeeps, AnswerKeeps
<1>3. CASE \/ AddParts(c) \/ SetProps(c) \/ LinkChild(c) \/ DropParts(c) \/ DropProps(c)
           \/ PutVersion(c) \/ SetMax(c) \/ DropVersion(c)
  BY <1>1, <1>3, HangingKeeps
<1> QED BY <1>2, <1>3 DEF Work

LEMMA InterruptKeeps == ASSUME TInv, RowsInv, NEW c \in Client, Interrupt(c) PROVE RowsInv'
BY FailsKeeps DEF Interrupt

\* Nothing that the invariant speaks of changes.
LEMMA StillKeeps ==
  ASSUME RowsInv, UNCHANGED <<db, nextId, call, met, cut, touched, note>>
  PROVE  RowsInv'
<1>1. \A i \in Id : RowOK(i)'
  <2> TAKE i \in Id
  <2>1. RowOK(i)
    BY DEF RowsInv
  <2> QED BY <2>1 DEF RowOK, Pursued, Overlaps
<1>2. \A c \in Client : \A k \in {call'[c]} : CallOK(k)'
  <2> SUFFICES ASSUME NEW c \in Client, NEW k, k = call[c], NEW j \in DOMAIN k.todo PROVE StepOK(k, j)'
    BY DEF CallOK
  <2>1. StepOK(k, j)
    BY DEF RowsInv, CallOK
  <2>2. PICK s : s = k.todo[j]
    OBVIOUS
  <2>3. PlainOK(k, s) /\ PlaceOK(k, j)
    BY <2>1, <2>2 DEF StepOK
  <2>4. PlainOK(k, s)'
    BY <2>3 DEF PlainOK, NamedOK, PageOK, Overlaps
  <2>5. PlaceOK(k, j)'
    BY <2>3 DEF PlaceOK, MakerOK, Fresh
  <2> QED BY <2>2, <2>4, <2>5 DEF StepOK
<1>3. AllMet' /\ MakersDiffer'
  BY DEF RowsInv, AllMet, MakersDiffer, Req
<1> QED BY <1>1, <1>2, <1>3 DEF RowsInv

LEMMA NextKeeps == TInv /\ RowsInv /\ NamesUnique /\ [Next]_vars => RowsInv'
<1> SUFFICES ASSUME TInv, RowsInv, NamesUnique, [Next]_vars PROVE RowsInv'
  OBVIOUS
<1>1. CASE UNCHANGED vars \/ DeleteUser
  <2>1. UNCHANGED <<db, nextId, call, met, cut, touched, note>>
    BY <1>1 DEF vars, DeleteUser, Unwritten
  <2> QED BY <2>1, StillKeeps
<1>2. ASSUME NEW c \in Client, Begin(c) \/ Look(c) \/ Work(c) \/ Interrupt(c) PROVE RowsInv'
  BY <1>2, BeginKeeps, LookKeeps, WorkKeeps, InterruptKeeps
<1> QED BY <1>1, <1>2 DEF Next

LEMMA InitRows == Init => RowsInv
<1> SUFFICES ASSUME Init PROVE RowsInv
  OBVIOUS
<1>1. /\ db = Seed /\ call = [c \in Client |-> Idle] /\ met = {}
      /\ \A i \in Id : note[i].kind = Seed.objs[i].kind /\ note[i].hit = None
  BY DEF Init, NoNote
<1>2. \A c \in Client : DOMAIN call[c].todo = {} /\ call[c] = Idle
  BY <1>1 DEF Idle
<1>3. PICK n \in 0..MaxId : SeedIds = 1..n
  BY ObjectsAssumption
<1>4. nextId = 1 + n /\ n \in Nat
  <2>1. MaxId \in Nat
    BY ObjectsAssumption
  <2>2. n \in Nat /\ Cardinality(SeedIds) = n
    BY <1>3, <2>1, FS_Interval
  <2> QED BY <2>2 DEF Init
<1>5. ASSUME NEW i \in Id PROVE RowOK(i)
  <2>1. i \in Live(db) <=> i \in Seeded
    BY <1>1 DEF Live, Seeded
  <2>2. i \notin Seeded => note[i].kind = "none"
    BY <1>1 DEF Seeded, NoObject
  <2>3. i >= nextId => i \notin Seeded /\ db.staging[i] = "none"
    <3> SUFFICES ASSUME i >= nextId PROVE i \notin SeedIds
      BY <1>1 DEF SeedIds
    <3>1. i \notin 1..n
      BY <1>4 DEF Id
    <3> HIDE DEF SeedIds
    <3> QED BY <1>3, <3>1
  <2>4. SeedParts /\ Seed.staging[i] \in {"none", "open", "committed"}
    BY ObjectsAssumption DEF Database
  <2>5. db.staging[i] = "open" => i \notin Seeded
    BY <1>1, <2>4 DEF SeedParts
  <2>6. db.staging[i] = "committed" => note[i].kind = "table"
    BY <1>1, <2>4 DEF SeedParts
  <2> QED BY <1>1, <2>1, <2>2, <2>3, <2>4, <2>5, <2>6 DEF RowOK
<1>6. \A c \in Client : \A k \in {call[c]} : CallOK(k)
  BY <1>2 DEF CallOK
<1>7. AllMet /\ MakersDiffer
  BY <1>2 DEF AllMet, MakersDiffer
<1> QED BY <1>5, <1>6, <1>7 DEF RowsInv

-----------------------------------------------------------------------------
(* Names                                                                   *)

\* Rows and the database are records with the fields they have.
Row(o) ==
  o = [kind |-> o.kind, name |-> o.name, parent |-> o.parent, max |-> o.max, root |-> o.root, from |-> o.from]

Rows ==
  db = [objs |-> db.objs, parts |-> db.parts, props |-> db.props, versions |-> db.versions,
        staging |-> db.staging, owners |-> db.owners, links |-> db.links]

Shape ==
  /\ Rows
  /\ DOMAIN db.objs = Id /\ db.objs = [i \in Id |-> db.objs[i]]
  /\ \A i \in Id : Row(db.objs[i])

UniqueInv == Shape /\ NamesUnique

LEMMA NoObjectRow == Row(NoObject)
BY DEF Row, NoObject

\* One row changes.
Put(i, row) == Rows' /\ db'.objs = [db.objs EXCEPT ![i] = row]

LEMMA PutShape ==
  ASSUME Shape, NEW i, NEW row, Row(row), Put(i, row)
  PROVE  Shape' /\ \A j \in Id : db'.objs[j] = IF j = i THEN row ELSE db.objs[j]
BY DEF Shape, Put

\* The ways a commit may change the rows of objects.
SameObjects == Rows' /\ db'.objs = db.objs

New == \E i, row : Row(row) /\ ~Taken(db, row) /\ Put(i, row)

Gone == \E i : Put(i, NoObject)

Rekeyed == \E i \in Live(db) : \E name : ~RenameRefused(db, i, name) /\ Put(i, Renamed(db, i, name))

Counted == \E i \in Live(db) : \E n : Put(i, [db.objs[i] EXCEPT !.max = n])

LEMMA SameInv == ASSUME UniqueInv, SameObjects PROVE UniqueInv'
BY DEF UniqueInv, Shape, SameObjects, NamesUnique, Live

LEMMA NewInv == ASSUME UniqueInv, New PROVE UniqueInv'
<1>1. PICK i, row : Row(row) /\ ~Taken(db, row) /\ Put(i, row)
  BY DEF New
<1>2. Shape' /\ \A j \in Id : db'.objs[j] = IF j = i THEN row ELSE db.objs[j]
  BY <1>1, PutShape DEF UniqueInv
<1>3. \A j \in Live(db) : Key(db.objs[j]) # Key(row)
  BY <1>1 DEF Taken
<1>4. NamesUnique'
  <2> SUFFICES ASSUME NEW j \in Live(db'), NEW k \in Live(db'), Key(db'.objs[j]) = Key(db'.objs[k])
               PROVE  j = k
    BY DEF NamesUnique
  <2>1. CASE j # i /\ k # i
    BY <1>2, <2>1, LiveIs DEF UniqueInv, NamesUnique
  <2>2. CASE j = i /\ k # i
    BY <1>2, <1>3, <2>2, LiveIs
  <2>3. CASE j # i /\ k = i
    BY <1>2, <1>3, <2>3, LiveIs
  <2> QED BY <2>1, <2>2, <2>3
<1> QED BY <1>2, <1>4 DEF UniqueInv

LEMMA GoneInv == ASSUME UniqueInv, Gone PROVE UniqueInv'
<1>1. PICK i : Put(i, NoObject)
  BY DEF Gone
<1>2. Shape' /\ \A j \in Id : db'.objs[j] = IF j = i THEN NoObject ELSE db.objs[j]
  BY <1>1, PutShape, NoObjectRow DEF UniqueInv
<1>3. NamesUnique'
  BY <1>2, LiveIs DEF UniqueInv, NamesUnique
<1> QED BY <1>2, <1>3 DEF UniqueInv

\* A row keeps its key, or gets one that nobody has.
LEMMA RekeyedInv == ASSUME UniqueInv, Rekeyed PROVE UniqueInv'
<1>0. PICK i \in Live(db) : \E name : ~RenameRefused(db, i, name) /\ Put(i, Renamed(db, i, name))
  BY DEF Rekeyed
<1>1. PICK name : ~RenameRefused(db, i, name) /\ Put(i, Renamed(db, i, name))
  BY <1>0
<1> DEFINE row == Renamed(db, i, name)
<1>2. Row(db.objs[i]) /\ i \in Id
  BY LiveIs DEF UniqueInv, Shape
<1>3. Row(row) /\ Key(row) = <<db.objs[i].kind, db.objs[i].parent, name>>
  BY <1>2 DEF Row, Renamed, Key
<1>4. Key(row) = Key(db.objs[i]) \/ \A j \in Live(db) : Key(db.objs[j]) # Key(row)
  BY <1>1, <1>3 DEF RenameRefused, Taken, Key
<1> HIDE DEF row
<1>5. Shape' /\ \A j \in Id : db'.objs[j] = IF j = i THEN row ELSE db.objs[j]
  BY <1>1, <1>3, PutShape DEF UniqueInv, row
<1>6. NamesUnique'
  <2> SUFFICES ASSUME NEW j \in Live(db'), NEW k \in Live(db'), Key(db'.objs[j]) = Key(db'.objs[k])
               PROVE  j = k
    BY DEF NamesUnique
  <2>1. CASE j # i /\ k # i
    BY <1>5, <2>1, LiveIs DEF UniqueInv, NamesUnique
  <2>2. CASE j = i /\ k # i
    BY <1>4, <1>5, <2>2, LiveIs DEF UniqueInv, NamesUnique
  <2>3. CASE j # i /\ k = i
    BY <1>4, <1>5, <2>3, LiveIs DEF UniqueInv, NamesUnique
  <2> QED BY <2>1, <2>2, <2>3
<1> QED BY <1>5, <1>6 DEF UniqueInv

LEMMA CountedInv == ASSUME UniqueInv, Counted PROVE UniqueInv'
<1>0. PICK i \in Live(db) : \E n : Put(i, [db.objs[i] EXCEPT !.max = n])
  BY DEF Counted
<1>1. PICK n : Put(i, [db.objs[i] EXCEPT !.max = n])
  BY <1>0
<1> DEFINE row == [db.objs[i] EXCEPT !.max = n]
<1>2. Row(db.objs[i]) /\ i \in Id
  BY LiveIs DEF UniqueInv, Shape
<1>3. Row(row) /\ Key(row) = Key(db.objs[i])
  BY <1>2 DEF Row, Key
<1> HIDE DEF row
<1>4. Shape' /\ \A j \in Id : db'.objs[j] = IF j = i THEN row ELSE db.objs[j]
  BY <1>1, <1>3, PutShape DEF UniqueInv, row
<1>5. NamesUnique'
  BY <1>3, <1>4, LiveIs DEF UniqueInv, NamesUnique
<1> QED BY <1>4, <1>5 DEF UniqueInv

RowStep == SameObjects \/ New \/ Gone \/ Rekeyed \/ Counted

LEMMA RowStepInv == ASSUME UniqueInv, RowStep PROVE UniqueInv'
BY SameInv, NewInv, GoneInv, RekeyedInv, CountedInv DEF RowStep

LEMMA UnwrittenStep == ASSUME Shape, UNCHANGED db PROVE RowStep
BY DEF Shape, Rows, RowStep, SameObjects

\* A commit of other rows than those of objects.
LEMMA OtherRows ==
  ASSUME Shape, NEW c,
         \/ MarkCommitted(c) \/ StageRow(c) \/ AddParts(c) \/ SetProps(c) \/ LinkChild(c)
         \/ DropParts(c) \/ DropProps(c) \/ PutVersion(c) \/ DropVersion(c) \/ GrantOwner(c)
  PROVE  RowStep
<1>1. SameObjects
  BY DEF Shape, Rows, SameObjects, MarkCommitted, StageRow, AddParts, SetProps, LinkChild,
     DropParts, DropProps, PutVersion, DropVersion, GrantOwner, Write
<1> QED BY <1>1 DEF RowStep

LEMMA CreateRowStep == ASSUME Shape, NEW c, CreateRow(c) PROVE RowStep
<1> DEFINE row == [kind |-> Req(c).kind, name |-> Last(Req(c).path), parent |-> call[c].parent, max |-> 0,
                   root |-> "root" \in Req(c).opts, from |-> call[c].from]
<1>1. Row(row)
  BY DEF Row
<1>2. CASE Fails(c)
  BY <1>2, UnwrittenStep DEF Fails, Unwritten
<1>3. CASE ~Taken(db, row) /\ Write(c, PutRow(db, On(c), row), {On(c), call[c].parent})
  <2> HIDE DEF row
  <2>1. Put(On(c), row)
    BY <1>3 DEF Write, PutRow, Put, Shape, Rows
  <2> QED BY <1>1, <1>3, <2>1 DEF RowStep, New
<1> QED BY <1>2, <1>3 DEF CreateRow

LEMMA DropOneStep == ASSUME Shape, NEW c, DropOne(c) PROVE RowStep
<1>1. CASE Fails(c)
  BY <1>1, UnwrittenStep DEF Fails, Unwritten
<1>2. CASE Write(c, DropRow(db, Hit(c)), {Hit(c)})
  <2>1. Put(Hit(c), NoObject)
    BY <1>2 DEF Write, DropRow, Put, Shape, Rows
  <2> QED BY <2>1 DEF RowStep, Gone
<1> QED BY <1>1, <1>2 DEF DropOne

LEMMA RenameStep == ASSUME Shape, NEW c, Rename(c) PROVE RowStep
<1> DEFINE i == Hit(c)
<1>1. CASE Fails(c)
  BY <1>1, UnwrittenStep DEF Fails, Unwritten
<1>2. CASE Unwritten
  BY <1>2, UnwrittenStep DEF Unwritten
<1>3. CASE /\ i \in Live(db) /\ ~RenameRefused(db, i, Req(c).to)
           /\ Write(c, PutRow(db, i, Renamed(db, i, Req(c).to)), {i})
  <2> HIDE DEF i
  <2>1. Put(i, Renamed(db, i, Req(c).to))
    BY <1>3 DEF Write, PutRow, Put, Shape, Rows
  <2> QED BY <1>3, <2>1 DEF RowStep, Rekeyed
<1> QED BY <1>1, <1>2, <1>3 DEF Rename

LEMMA SetMaxStep == ASSUME Shape, NEW c, SetMax(c) PROVE RowStep
<1>1. CASE On(c) \in Live(db) /\ db' = [db EXCEPT !.objs[On(c)].max = call[c].number]
  <2>1. Put(On(c), [db.objs[On(c)] EXCEPT !.max = call[c].number])
    BY <1>1 DEF Put, Shape, Rows
  <2> QED BY <1>1, <2>1 DEF RowStep, Counted
<1>2. CASE db' = db
  BY <1>2, UnwrittenStep
<1> QED BY <1>1, <1>2 DEF SetMax, Write

LEMMA WorkStep == ASSUME Shape, NEW c \in Client, Work(c) PROVE RowStep
<1>1. CASE \/ StagedTable(c) \/ FindRoot(c) \/ CheckEmpty(c) \/ ListChildren(c) \/ NextChild(c)
           \/ ReadPage(c) \/ Answer(c)
  <2>1. UNCHANGED db
    BY <1>1 DEF StagedTable, FindRoot, CheckEmpty, ListChildren, NextChild, ReadPage, Answer,
       Fails, Unwritten
  <2> QED BY <2>1, UnwrittenStep
<1> QED BY <1>1, OtherRows, CreateRowStep, DropOneStep, RenameStep, SetMaxStep DEF Work

LEMMA NextStep == Shape /\ [Next]_vars => RowStep
<1> SUFFICES ASSUME Shape, [Next]_vars
             PROVE  RowStep
  OBVIOUS
<1>1. ASSUME NEW c \in Client, Begin(c) \/ Look(c) \/ Interrupt(c)
      PROVE  UNCHANGED db
  BY <1>1 DEF Begin, Look, Interrupt, LookCreate, LookDelete, LookRename, LookDropVersion,
     LookAddVersion, LookList, LookUp, Fails, Unwritten
<1>2. DeleteUser \/ UNCHANGED vars => UNCHANGED db
  BY DEF DeleteUser, Unwritten, vars
<1> QED BY <1>1, <1>2, UnwrittenStep, WorkStep DEF Next

LEMMA InitUnique == Init => UniqueInv
<1> SUFFICES ASSUME Init
             PROVE  UniqueInv
  OBVIOUS
<1>1. db = Seed /\ Seed \in Database
  BY ObjectsAssumption DEF Init
<1>2. Rows /\ db.objs \in [Id -> Object \cup {NoObject}]
  BY <1>1 DEF Rows, Database
<1>3. \A o \in Object \cup {NoObject} : Row(o)
  BY NoObjectRow DEF Row, Object
<1>4. Shape
  BY <1>2, <1>3 DEF Shape
<1>5. NamesUnique
  <2> SUFFICES ASSUME NEW i \in Live(db), NEW j \in Live(db), Key(db.objs[i]) = Key(db.objs[j]) PROVE i = j
    BY DEF NamesUnique
  <2>1. i \in Seeded /\ j \in Seeded
    BY <1>1, LiveIs DEF Seeded
  <2>2. SeedRow(j)
    BY <2>1, ObjectsAssumption
  <2> QED BY <1>1, <2>1, <2>2 DEF SeedRow, Key
<1> QED BY <1>4, <1>5 DEF UniqueInv

-----------------------------------------------------------------------------
(* The theorems                                                            *)

ObjectsInv == TInv /\ RowsInv /\ UniqueInv

LEMMA RenamesAreOfKind == TInv /\ RowsInv => RenamesKind
<1> SUFFICES ASSUME TInv, RowsInv, NEW c \in Client, Doing(c, "rename") PROVE note[On(c)].kind = Req(c).kind
  BY DEF RenamesKind
<1> QED BY HeadOK DEF PlainOK, Req

LEMMA InvStep == ObjectsInv /\ [Next]_vars => ObjectsInv'
<1> SUFFICES ASSUME ObjectsInv, [Next]_vars PROVE ObjectsInv'
  OBVIOUS
<1>1. TInv'
  BY RenamesAreOfKind, NextTyped DEF ObjectsInv
<1>2. RowsInv'
  BY NextKeeps DEF ObjectsInv, UniqueInv
<1>3. UniqueInv'
  BY NextStep, RowStepInv DEF ObjectsInv, UniqueInv
<1> QED BY <1>1, <1>2, <1>3 DEF ObjectsInv

LEMMA InvInit == Init => ObjectsInv
BY InitTyped, InitRows, InitUnique DEF ObjectsInv

\* No two objects of a kind have one name under one parent, however creations,
\* renames and drops interleave (create and update of every repository, and a
\* table that takes its staging table's id).
THEOREM NamesStayUnique == Spec => []NamesUnique
<1>1. ObjectsInv => NamesUnique
  BY DEF ObjectsInv, UniqueInv
<1> QED BY InvInit, InvStep, <1>1, PTL DEF Spec

\* The rows, the ids given out and every call's list of steps stay what the
\* handlers take them for.
THEOREM ObjectsTyped == Spec => []TypeOK
<1>1. ObjectsInv => TypeOK
  BY DEF ObjectsInv, TInv
<1> QED BY InvInit, InvStep, <1>1, PTL DEF Spec

LEMMA StagingFollows == ObjectsInv => StagingFollowsTables
<1> SUFFICES ASSUME ObjectsInv, NEW i \in Id, db.staging[i] = "committed", note[i].kind # "table" PROVE Disturbed(i)
  BY DEF StagingFollowsTables
<1>1. Pursued(i)
  BY DEF ObjectsInv, RowsInv, RowOK
<1> QED BY <1>1 DEF Pursued, Disturbed, Active

\* A staging table that is committed became a table, or the creation that
\* committed it (mark_committed) is under way, was refused or was broken off.
THEOREM StagingBecomesTables == Spec => []StagingFollowsTables
BY InvInit, InvStep, StagingFollows, PTL DEF Spec

LEMMA HitsAreKnown == ObjectsInv => HitWhatWasChecked
BY DEF ObjectsInv, RowsInv, RowOK, Overlaps, HitWhatWasChecked

\* Where update and delete of a catalog, which go by its name, reach another
\* catalog than the handler has checked, a call that ran at the same time gave
\* that one the name.
THEOREM HitsWereChecked == Spec => []HitWhatWasChecked
BY InvInit, InvStep, HitsAreKnown, PTL DEF Spec

LEMMA AnswersAreComplete == ObjectsInv => ListingComplete
<1> SUFFICES ASSUME ObjectsInv, NEW c \in Client, Doing(c, "answer"), NEW i \in Under(db, call[c].parent, Req(c).kind)
             PROVE  i \in call[c].seen \ call[c].twice \/ \E x \in touched[i] : {x, call[c].n} \in met
  BY DEF ListingComplete
<1>1. PlainOK(call[c], call[c].todo[1]) /\ call[c].todo[1][1] = "answer"
  BY HeadOK DEF ObjectsInv
<1>2. PageOK(call[c], call[c].todo[1])
  BY <1>1 DEF PlainOK
<1> QED BY <1>1, <1>2 DEF PageOK, Overlaps, Req

\* A listing read page by page (scan_prefix, one row over, a token that is the
\* last name shown) shows what nobody touched meanwhile, and shows it once,
\* whatever the page size and however many creations, renames and drops pass.
THEOREM ListingsComplete == Spec => []ListingComplete
BY InvInit, InvStep, AnswersAreComplete, PTL DEF Spec

LEMMA WantsKeepMade ==
  ASSUME TInv, NEW x \in Id, NEW value, Note(x, "wants", value)
  PROVE  \A i \in Id : note'[i].made = note[i].made
<1>1. note \in [Id -> Notes] /\ note[x] \in Notes
  BY DEF TInv, TypeOK
<1>2. note' = [note EXCEPT ![x] = [note[x] EXCEPT !.wants = value]]
  BY <1>1 DEF Note
<1>3. \A i \in Id : note'[i] = note[i] \/ (i = x /\ note'[i] = [note[i] EXCEPT !.wants = value])
  BY <1>1, <1>2
<1>4. ASSUME NEW r \in Notes PROVE [r EXCEPT !.wants = value].made = r.made
  BY DEF Notes
<1> QED BY <1>1, <1>3, <1>4

\* Only a creation says anew who made an object.
LEMMA MadeByCreation ==
  ASSUME TInv, [Next]_vars, NEW i \in Id, note'[i].made # note[i].made
  PROVE  \E c \in Client : CreateRow(c) /\ note' # note
<1>1. note' # note
  OBVIOUS
<1>2. PICK c \in Client : Work(c)
  BY <1>1 DEF Next, vars, DeleteUser, Begin, Look, Interrupt, LookCreate, LookDelete, LookRename, LookDropVersion,
     LookAddVersion, LookList, LookUp, Fails, Unwritten
<1>3. ~SetProps(c) /\ ~GrantOwner(c)
  <2>1. SetProps(c) \/ GrantOwner(c) => On(c) \in Id
    BY AtStep DEF SetProps, GrantOwner, Single
  <2>2. SetProps(c) => \E value : Note(On(c), "wants", value)
    BY DEF SetProps
  <2>3. GrantOwner(c) => \E value : Note(On(c), "wants", value)
    BY <1>1 DEF GrantOwner
  <2> QED BY <2>1, <2>2, <2>3, WantsKeepMade
<1>4. ~DropOne(c) /\ ~Rename(c)
  <2> SUFFICES ASSUME DropOne(c) \/ Rename(c) PROVE FALSE
    OBVIOUS
  <2>1. On(c) \in Id
    BY AtStep DEF DropOne, Rename, Single
  <2>2. \E gone : Mark(c, Hit(c), gone) /\ (Hit(c) \in Id \/ Hit(c) \notin Id)
    BY <1>1 DEF DropOne, Rename, Fails, Unwritten
  <2>3. CASE Hit(c) \in Id
    BY <2>2, <2>3, MarkIs
  <2>4. CASE Hit(c) \notin Id
    <3>1. PICK gone : Mark(c, Hit(c), gone)
      BY <2>2
    <3>2. note' = note
      <4>1. note \in [Id -> Notes]
        BY DEF TInv, TypeOK
      <4> QED BY <2>4, <3>1, <4>1 DEF Mark
    <3> QED BY <1>1, <3>2
  <2> QED BY <2>3, <2>4
<1>5. CASE \/ StagedTable(c) \/ MarkCommitted(c) \/ StageRow(c) \/ FindRoot(c) \/ AddParts(c) \/ LinkChild(c)
           \/ DropParts(c) \/ DropProps(c) \/ CheckEmpty(c) \/ ListChildren(c) \/ NextChild(c)
           \/ PutVersion(c) \/ SetMax(c) \/ DropVersion(c) \/ ReadPage(c) \/ Answer(c)
  BY <1>1, <1>5 DEF StagedTable, MarkCommitted, StageRow, FindRoot, AddParts, LinkChild, DropParts, DropProps, CheckEmpty,
     ListChildren, NextChild, PutVersion, SetMax, DropVersion, ReadPage, Answer, Fails, Unwritten
<1> QED BY <1>1, <1>2, <1>3, <1>4, <1>5 DEF Work

LEMMA TakenOnceStep ==
  ASSUME ObjectsInv, [Next]_vars, NEW i \in Live(db), note'[i].made # note[i].made
  PROVE  {note[i].made, note'[i].made} \in met
<1>0. TInv /\ RowsInv /\ i \in Id
  BY LiveIs DEF ObjectsInv
<1>1. PICK c \in Client : CreateRow(c) /\ note' # note
  BY <1>0, MadeByCreation
<1>2. PICK k : k = call[c]
  OBVIOUS
<1>3. Doing(c, "row") /\ ~Fails(c)
  BY <1>1 DEF CreateRow, Fails, Unwritten
<1>4. PICK x : x = On(c)
  OBVIOUS
<1>5. x \in Id /\ k.todo[1] = <<"row", x>> /\ PlaceOK(k, 1)
  BY <1>0, <1>2, <1>3, <1>4, CreationIs
<1>6. PICK new : new = [NoNote EXCEPT !.kind = k.req.kind, !.made = k.n, !.wants = Wanted(k.req)]
  OBVIOUS
<1>7. note' = [note EXCEPT ![x] = new]
  BY <1>1, <1>2, <1>3, <1>4, <1>6 DEF CreateRow, Req
<1>8. i = x /\ note'[i].made = k.n
  <2>1. note \in [Id -> Notes]
    BY <1>0 DEF TInv, TypeOK
  <2>2. note'[x] = new /\ \A y \in Id : y # x => note'[y] = note[y]
    BY <1>5, <1>7, <2>1
  <2>3. new.made = k.n
    BY <1>6 DEF NoNote
  <2> QED BY <1>0, <2>2, <2>3
<1>9. MakerOK(k, 1)
  <2>1. k.todo[1][1] = "row"
    BY <1>5
  <2> QED BY <1>5, <2>1 DEF PlaceOK, Making
<1>10. note[i].kind # "none"
  <2>1. RowOK(i) /\ db.objs[i] \in Object
    BY <1>0, LiveIs DEF RowsInv, TInv, TypeOK, Database
  <2>2. note[i].kind \in Kinds
    BY <2>1 DEF RowOK, Object
  <2> QED BY <2>2 DEF Kinds, Leaves
<1>11. k.todo[1][1] = "row" /\ k.todo[1][2] = i
  BY <1>5, <1>8
<1> QED BY <1>8, <1>9, <1>10, <1>11 DEF MakerOK, Fresh

\* A staging table becomes one table: a creation that takes over the row of
\* another one had looked at the staging table (get_by_location) while that one
\* was running.
THEOREM StagingIsTakenOnce == Spec => StagingTakenOnce
<1>1. ObjectsInv /\ [Next]_vars =>
        [\A i \in Live(db) : note'[i].made # note[i].made => {note[i].made, note'[i].made} \in met]_vars
  BY TakenOnceStep
<1> QED BY InvInit, InvStep, <1>1, PTL DEF Spec, StagingTakenOnce

-----------------------------------------------------------------------------
(* Parents and roots                                                       *)

\* Another call ran at the same time as n.
Met(n) == \E x \in Ordinal : {x, n} \in met

\* Two calls that ran at the same time have written about i.
Clash(i) == \E x, y \in touched[i] : x # y /\ {x, y} \in met

Managed == {"table", "volume", "model"}

\* Where a managed object may lie: under its parent or its parent's parent.
UnderOwn(from, p) == from \in {None, p} \/ (p \in Live(db) /\ from = db.objs[p].parent)

RowKin(i) ==
  LET row == db.objs[i]
      p == row.parent
  IN i \in Live(db) =>
       /\ row.kind = "catalog" <=> p = None
       /\ p # None => /\ note[p].kind = ParentKind(row.kind)
                      /\ p \in Live(db) \/ Clash(p)
                      /\ note[i].made # None => note[i].made \in touched[p]
       /\ UnderOwn(row.from, p) \/ Met(note[i].made)

\* A creation past its first look has a parent, or had, and stays under its roots.
CallKin(k) ==
  k.req.op = "create" /\ k.todo # << >> =>
    IF k.todo[1][1] = "look" THEN k.from = None
    ELSE /\ k.req.kind = "catalog" <=> k.parent = None
         /\ k.parent # None => /\ note[k.parent].kind = ParentKind(k.req.kind)
                               /\ k.parent \in Live(db) \/ Overlaps(k.n, k.parent)
         /\ \A j \in DOMAIN k.todo : k.todo[j][1] = "root" => j = 1 /\ k.req.kind \in Managed
         /\ \/ Met(k.n)
            \/ /\ UnderOwn(k.from, k.parent)
               /\ k.todo[1][1] = "root" => FindPath(db, "schema", k.req.path) = k.parent

\* A step that will see to it that child i of p goes.
Covers(s, i, p) == s = <<"list", p, note[i].kind>> \/ s = <<"dropRow", i>> \/ (s[1] = "each" /\ i \in s[2])

\* Before a catalog or schema goes, so do its children, but for those that were
\* created meanwhile.
CoverOK(k) ==
  \A j \in DOMAIN k.todo :
    LET p == k.todo[j][2]
    IN k.todo[j][1] = "dropRow" /\ note[p].kind \in {"schema", "catalog"} =>
         \A i \in Live(db) : db.objs[i].parent = p =>
           {note[i].made, k.n} \in met \/ \E l \in 1..(j - 1) : Covers(k.todo[l], i, p)

\* Calls have numbers of their own.
NumbersOK ==
  /\ \A c \in Client : call[c].n <= begun
  /\ \A n \in Ordinal : {n} \notin met

KinInv ==
  /\ \A i \in Id : RowKin(i)
  /\ \A c \in Client : \A k \in {call[c]} : CallKin(k) /\ CoverOK(k)
  /\ NumbersOK

\* What every step keeps of the ghosts.
KinGrows ==
  /\ met \subseteq met'
  /\ \A i \in Id : touched[i] \subseteq touched'[i] /\ (note[i].kind # "none" => note'[i].kind = note[i].kind)

\* Row i stays where it is.
SameKin(i) ==
  /\ i \in Live(db)
  /\ db'.objs[i].kind = db.objs[i].kind /\ db'.objs[i].parent = db.objs[i].parent /\ db'.objs[i].from = db.objs[i].from
  /\ note'[i].kind = note[i].kind /\ note'[i].made = note[i].made

\* Call c makes row i.
MadeKin(c, i) ==
  /\ At(c, <<"row", i>>) /\ Req(c).op = "create" /\ note[i].kind \in {"none", "table"}
  /\ db'.objs[i].kind = Req(c).kind /\ db'.objs[i].parent = call[c].parent /\ db'.objs[i].from = call[c].from
  /\ note'[i].kind = Req(c).kind /\ note'[i].made = call[c].n
  /\ \A p \in Id : p = call[c].parent => call[c].n \in touched'[p]

\* Call c drops row p; what is below it is new, or p is not what it looked at.
LostKin(c, p) ==
  /\ Doing(c, "dropRow") /\ call[c].n \in touched'[p]
  /\ \/ note[p].kind = "catalog" /\ Overlaps(call[c].n, p)
     \/ \A i \in Live(db) : db.objs[i].parent = p => {note[i].made, call[c].n} \in met

RowsKin(c) ==
  /\ KinGrows
  /\ \A i \in Live(db') : SameKin(i) \/ MadeKin(c, i)
  /\ \A p \in Live(db) : p \in Live(db') \/ LostKin(c, p)

LEMMA RowKinKept ==
  ASSUME TInv, RowsInv, KinInv, NEW c \in Client, call[c].todo # << >>, RowsKin(c), NEW i \in Id
  PROVE  RowKin(i)'
<1> SUFFICES ASSUME i \in Live(db'), NEW p, p = db'.objs[i].parent, NEW f, f = db'.objs[i].from, NEW m, m = note'[i].made,
                    NEW kind, kind = db'.objs[i].kind
             PROVE  /\ kind = "catalog" <=> p = None
                    /\ p # None => /\ note'[p].kind = ParentKind(kind)
                                   /\ p \in Live(db') \/ \E x, y \in touched'[p] : x # y /\ {x, y} \in met'
                                   /\ m # None => m \in touched'[p]
                    /\ \/ f \in {None, p} \/ (p \in Live(db') /\ f = db'.objs[p].parent)
                       \/ \E x \in Ordinal : {x, m} \in met'
  BY ZenonT(60) DEF RowKin, UnderOwn, Met, Clash
<1>1. call[c].n \in Ordinal /\ KinGrows
  BY Working DEF RowsKin
<1>2. /\ \A x : {x} \notin met
      /\ \A x, y : {x, y} \in met => x \in Ordinal /\ y \in Ordinal
  <2>1. met \in SUBSET SUBSET Ordinal
    BY DEF TInv, TypeOK
  <2> QED BY <2>1 DEF KinInv, NumbersOK
<1>3. \A j \in Live(db) : /\ RowKin(j) /\ j \in Id /\ db.objs[j] \in Object /\ note[j].kind = db.objs[j].kind
  <2>1. db.objs \in [Id -> Object \cup {NoObject}]
    BY DEF TInv, TypeOK, Database
  <2> QED BY <2>1, LiveIs DEF KinInv, RowsInv, RowOK
<1>4. \A j \in Live(db') : j \in Live(db) /\ note[j].kind \in {"schema", "catalog"} => SameKin(j)
  BY <1>3 DEF RowsKin, MadeKin
<1>5. \A a : ParentKind(a) \in {"schema", "catalog"}
  BY DEF ParentKind
<1>6. p \in Id \/ p = None
  <2>1. CASE SameKin(i)
    <3>1. i \in Live(db) /\ p = db.objs[i].parent
      BY <2>1 DEF SameKin
    <3>2. \A o \in Object : o.parent \in Id \cup {None}
      BY DEF Object
    <3> QED BY <1>3, <3>1, <3>2
  <2>2. CASE MadeKin(c, i)
    <3>1. call[c] \in Call /\ p = call[c].parent
      BY <2>2, Working DEF MadeKin, Busy
    <3>2. \A k \in Call : k.parent \in Id \cup {None}
      BY DEF Call
    <3> QED BY <3>1, <3>2
  <2> QED BY <2>1, <2>2 DEF RowsKin
<1>7. CASE SameKin(i)
  <2>1. /\ i \in Live(db) /\ kind = db.objs[i].kind /\ p = db.objs[i].parent /\ f = db.objs[i].from /\ m = note[i].made
    BY <1>7 DEF SameKin
  <2>2. /\ kind = "catalog" <=> p = None
        /\ p # None => /\ note[p].kind = ParentKind(kind)
                       /\ p \in Live(db) \/ \E x, y \in touched[p] : x # y /\ {x, y} \in met
                       /\ m # None => m \in touched[p]
        /\ \/ f \in {None, p} \/ (p \in Live(db) /\ f = db.objs[p].parent)
           \/ \E x \in Ordinal : {x, m} \in met
    BY <1>3, <2>1 DEF RowKin, UnderOwn, Met, Clash
  <2>3. p # None => /\ note'[p].kind = ParentKind(kind)
                    /\ m # None => m \in touched'[p]
    <3>1. p # None => note[p].kind # "none"
      BY <1>5, <2>2
    <3> QED BY <1>1, <1>6, <2>2, <3>1 DEF KinGrows
  <2>4. CASE p = None \/ p \in Live(db')
    <3>1. p # None /\ p \in Live(db) => SameKin(p)
      BY <1>4, <1>5, <2>2, <2>4
    <3>2. p # None /\ p \in Live(db) => db'.objs[p].parent = db.objs[p].parent
      BY <3>1 DEF SameKin
    <3>3. met \subseteq met'
      BY <1>1 DEF KinGrows
    <3>4. p = None => p \notin Live(db)
      BY <1>3, NoneNot
    <3> QED BY <2>2, <2>3, <2>4, <3>2, <3>3, <3>4
  <2>5. CASE p \in Live(db) /\ p \notin Live(db')
    <3>1. LostKin(c, p) /\ p \in Id /\ p # None
      BY <1>3, <2>5, NoneNot DEF RowsKin
    <3>2. touched[p] \subseteq touched'[p] /\ met \subseteq met'
      BY <1>1, <3>1 DEF KinGrows
    <3>3. CASE note[p].kind = "catalog" /\ Overlaps(call[c].n, p)
      <4>1. PICK x \in touched[p] : {x, call[c].n} \in met
        BY <3>3 DEF Overlaps
      <4>2. x # call[c].n /\ x \in touched'[p] /\ call[c].n \in touched'[p] /\ {x, call[c].n} \in met'
        BY <1>2, <3>1, <3>2, <4>1 DEF LostKin
      <4>3. db.objs[p].parent = None
        BY <1>3, <2>5, <3>3 DEF RowKin
      <4>4. f \in {None, p} \/ \E x_1 \in Ordinal : {x_1, m} \in met'
        BY <2>2, <3>2, <4>3
      <4> QED BY <2>2, <2>3, <4>2, <4>4
    <3>4. CASE \A j \in Live(db) : db.objs[j].parent = p => {note[j].made, call[c].n} \in met
      <4>1. {m, call[c].n} \in met
        BY <2>1, <3>4
      <4>2. m \in Ordinal /\ m # call[c].n /\ m # None
        <5>1. m \in Ordinal
          BY <1>2, <4>1
        <5>2. m = call[c].n => {m} \in met
          BY <4>1
        <5>3. {m} \notin met
          BY <1>2
        <5>4. m # call[c].n
          BY <5>2, <5>3
        <5>5. \A x \in Ordinal : x # None
          BY ObjectsAssumption DEF Ordinal, None
        <5> QED BY <5>1, <5>4, <5>5
      <4>3. m \in touched'[p] /\ call[c].n \in touched'[p] /\ {m, call[c].n} \in met'
        BY <2>3, <3>1, <3>2, <4>1, <4>2 DEF LostKin
      <4>4. {call[c].n, m} \in met' /\ call[c].n \in Ordinal
        <5>1. {m, call[c].n} = {call[c].n, m}
          OBVIOUS
        <5> QED BY <1>1, <4>3, <5>1
      <4> QED BY <2>2, <2>3, <4>2, <4>3, <4>4
    <3> QED BY <3>1, <3>3, <3>4 DEF LostKin
  <2>6. CASE p # None /\ p \notin Live(db) /\ p \notin Live(db')
    <3>1. touched[p] \subseteq touched'[p] /\ met \subseteq met'
      BY <1>1, <1>6, <2>6 DEF KinGrows
    <3> QED BY <2>2, <2>3, <2>6, <3>1
  <2> QED BY <2>4, <2>5, <2>6
<1>8. CASE MadeKin(c, i)
  <2> DEFINE k == call[c]
  <2>1. /\ kind = k.req.kind /\ p = k.parent /\ f = k.from /\ m = k.n /\ k.todo # << >> /\ k.todo[1][1] = "row"
        /\ k.req.op = "create"
    BY <1>8 DEF MadeKin, Req, At
  <2>2. CallKin(k)
    BY DEF KinInv
  <2>3. /\ kind = "catalog" <=> p = None
        /\ p # None => /\ note[p].kind = ParentKind(kind)
                       /\ p \in Live(db) \/ Overlaps(k.n, p)
        /\ Met(k.n) \/ UnderOwn(f, p)
    BY <2>1, <2>2 DEF CallKin
  <2>4. \A x \in Live(db) : x \in Live(db')
    <3>1. ~Doing(c, "dropRow")
      BY <2>1 DEF Doing
    <3> QED BY <3>1 DEF RowsKin, LostKin
  <2> HIDE DEF k
  <2>5. p # None => p \in Id /\ note'[p].kind = ParentKind(kind) /\ m \in touched'[p]
    <3>1. p # None => note[p].kind # "none"
      BY <1>5, <2>3
    <3> QED BY <1>1, <1>6, <1>8, <2>1, <2>3, <3>1 DEF KinGrows, MadeKin, k
  <2>6. p # None => p \in Live(db') \/ \E x, y \in touched'[p] : x # y /\ {x, y} \in met'
    <3>1. CASE p \in Live(db)
      BY <2>4, <3>1
    <3>2. CASE p # None /\ Overlaps(k.n, p)
      <4>1. PICK x \in touched[p] : {x, k.n} \in met
        BY <3>2 DEF Overlaps
      <4>2. x \in touched'[p] /\ {x, k.n} \in met'
        BY <1>1, <2>5, <3>2, <4>1 DEF KinGrows
      <4> QED BY <1>2, <2>1, <2>5, <3>2, <4>1, <4>2, ZenonT(60)
    <3> QED BY <2>3, <3>1, <3>2
  <2>7. f \in {None, p} \/ (p \in Live(db') /\ f = db'.objs[p].parent) \/ \E x \in Ordinal : {x, m} \in met'
    <3>1. CASE Met(k.n)
      BY <1>1, <2>1, <3>1 DEF Met, KinGrows
    <3>2. CASE p \in Live(db) /\ f = db.objs[p].parent
      <4>1. SameKin(p)
        BY <1>3, <1>4, <1>5, <2>3, <2>4, <3>2, NoneNot
      <4> QED BY <2>4, <3>2, <4>1 DEF SameKin
    <3> QED BY <2>3, <3>1, <3>2 DEF UnderOwn
  <2> QED BY <2>3, <2>5, <2>6, <2>7
<1> QED BY <1>7, <1>8 DEF RowsKin

\* What a creation under way has said stays so, whichever call takes a step.
LEMMA CallKinKept ==
  ASSUME TInv, RowsInv, KinInv, NEW c \in Client, call[c].todo # << >>, RowsKin(c),
         NEW d \in Client, d # c, NEW k, k = call[d]
  PROVE  CallKin(k)'
<1> SUFFICES ASSUME k.req.op = "create", k.todo # << >>
             PROVE  CallKin(k)'
  BY DEF CallKin
<1>1. /\ call[c].n \in Ordinal /\ k.n \in Ordinal /\ k.parent \in Id \cup {None} /\ {call[c].n, k.n} \in met
      /\ {k.n, call[c].n} \in met /\ KinGrows
  <2>1. call[c].n \in Ordinal /\ call[c] # Idle
    BY Working
  <2>2. k.n \in Ordinal /\ k # Idle /\ k \in Call
    BY Working DEF Busy
  <2>3. {call[c].n, k.n} \in met
    BY <2>1, <2>2 DEF RowsInv, AllMet
  <2>4. {call[c].n, k.n} = {k.n, call[c].n}
    OBVIOUS
  <2> QED BY <2>1, <2>2, <2>3, <2>4 DEF Call, RowsKin
<1>2. CallKin(k)
  BY DEF KinInv
<1>3. CASE k.todo[1][1] = "look"
  BY <1>2, <1>3 DEF CallKin
<1>4. CASE k.todo[1][1] # "look"
  <2> DEFINE p == k.parent
  <2>1. /\ k.req.kind = "catalog" <=> p = None
        /\ p # None => /\ note[p].kind = ParentKind(k.req.kind)
                       /\ p \in Live(db) \/ \E x \in touched[p] : {x, k.n} \in met
        /\ \A j \in DOMAIN k.todo : k.todo[j][1] = "root" => j = 1 /\ k.req.kind \in Managed
    BY <1>2, <1>4 DEF CallKin, Overlaps
  <2>2. Met(k.n)'
    BY <1>1 DEF Met, KinGrows
  <2> HIDE DEF p
  <2>3. ASSUME p # None
        PROVE  /\ note'[p].kind = ParentKind(k.req.kind)
               /\ p \in Live(db') \/ \E x \in touched'[p] : {x, k.n} \in met'
    <3>1. p \in Id /\ note[p].kind = ParentKind(k.req.kind) /\ touched[p] \subseteq touched'[p] /\ met \subseteq met'
      BY <1>1, <2>1, <2>3 DEF KinGrows, p
    <3>2. note[p].kind # "none"
      BY <3>1 DEF ParentKind
    <3>3. CASE p \in Live(db)
      BY <1>1, <3>1, <3>2, <3>3 DEF RowsKin, LostKin, KinGrows
    <3>4. CASE \E x \in touched[p] : {x, k.n} \in met
      BY <1>1, <3>1, <3>2, <3>4 DEF KinGrows
    <3> QED BY <2>1, <2>3, <3>3, <3>4
  <2> QED BY <1>4, <2>1, <2>2, <2>3 DEF CallKin, Overlaps, p
<1> QED BY <1>3, <1>4

\* So do the steps that will see to the children of what a call drops.
LEMMA CoverKept ==
  ASSUME TInv, RowsInv, KinInv, NEW c \in Client, call[c].todo # << >>, RowsKin(c),
         NEW d \in Client, d # c, NEW k, k = call[d]
  PROVE  CoverOK(k)'
<1> SUFFICES ASSUME NEW j \in DOMAIN k.todo, NEW p, p = k.todo[j][2], k.todo[j][1] = "dropRow",
                    note'[p].kind \in {"schema", "catalog"}, NEW i \in Live(db'), db'.objs[i].parent = p
             PROVE  {note'[i].made, k.n} \in met' \/ \E l \in 1..(j - 1) : Covers(k.todo[l], i, p)'
  BY DEF CoverOK
<1>1. k \in Call /\ k.todo # << >> /\ k.todo \in Seq(Step) /\ k.n \in Ordinal /\ k # Idle
  <2>1. k.todo # << >>
    <3>1. DOMAIN << >> = {}
      OBVIOUS
    <3> QED BY <3>1
  <2> QED BY <2>1, Working DEF Busy
<1>2. p \in Id /\ note[p].kind # "none" /\ note[p].kind = note'[p].kind
  <2>1. k.todo[j] \in Step
    BY <1>1
  <2>2. p \in Id
    BY <2>1 DEF Step, Single, Below, Leaves
  <2>3. PlainOK(k, k.todo[j])
    BY DEF RowsInv, CallOK, StepOK
  <2>4. note[p].kind # "none"
    BY <2>3 DEF PlainOK
  <2> QED BY <2>2, <2>4 DEF RowsKin, KinGrows
<1>3. {call[c].n, k.n} \in met /\ met \subseteq met'
  BY <1>1, Working DEF RowsInv, AllMet, RowsKin, KinGrows
<1>4. CASE SameKin(i)
  <2>1. i \in Live(db) /\ db.objs[i].parent = p /\ note'[i].made = note[i].made /\ note'[i].kind = note[i].kind
    BY <1>4 DEF SameKin
  <2>2. {note[i].made, k.n} \in met \/ \E l \in 1..(j - 1) : Covers(k.todo[l], i, p)
    BY <1>2, <2>1 DEF KinInv, CoverOK
  <2>3. \A l : Covers(k.todo[l], i, p) => Covers(k.todo[l], i, p)'
    BY <2>1 DEF Covers
  <2> QED BY <1>3, <2>1, <2>2, <2>3
<1>5. CASE MadeKin(c, i)
  BY <1>3, <1>5 DEF MadeKin
<1> QED BY <1>4, <1>5 DEF RowsKin

\* What the call that took the step has still to do.
OwnKin(c) == \A l \in {call'[c]} : CallKin(l)' /\ CoverOK(l)' /\ l.n \in {call[c].n, None}

LEMMA KinKept ==
  ASSUME TInv, RowsInv, KinInv, NEW c \in Client, call[c].todo # << >>, RowsKin(c), OwnKin(c),
         NEW l, Becomes(c, l), UNCHANGED <<begun, met>>
  PROVE  KinInv'
<1>1. call'[c] = l /\ \A d \in Client \ {c} : call'[d] = call[d]
  BY DEF Becomes, TInv, TypeOK
<1>2. \A i \in Id : RowKin(i)'
  BY RowKinKept
<1>3. ASSUME NEW d \in Client, NEW k, k = call'[d] PROVE CallKin(k)' /\ CoverOK(k)'
  <2>1. CASE d = c
    BY <1>3, <2>1 DEF OwnKin
  <2>2. CASE d # c
    BY <1>1, <1>3, <2>2, CallKinKept, CoverKept
  <2> QED BY <2>1, <2>2
<1>4. NumbersOK'
  <2>1. \A d \in Client : call'[d].n = call[d].n \/ call'[d].n = None
    BY <1>1 DEF OwnKin
  <2>2. begun \in Nat
    BY ObjectsAssumption DEF TInv, TypeOK
  <2> QED BY <2>1, <2>2 DEF KinInv, NumbersOK, None
<1> QED BY <1>2, <1>3, <1>4 DEF KinInv

LEMMA IdleKin == CallKin(Idle)' /\ CoverOK(Idle)' /\ Idle.n = None
BY DEF Idle, CallKin, CoverOK, NoRequest

\* A call after a step of its own: it is over, or more comes before what was left.
Moved(k, l, more) ==
  \/ l = Idle
  \/ /\ Busy(l) /\ l.todo = more \o Tail(k.todo) /\ l.todo # << >>
     /\ l.n = k.n /\ l.req = k.req /\ l.parent = k.parent /\ l.from = k.from

LEMMA NextOwn ==
  ASSUME TInv, TInv', NEW c \in Client, call[c].todo # << >>, NEW more, Proceed(c, more), NEW k, k = call[c],
         NEW l, l = call'[c]
  PROVE  Becomes(c, l) /\ Moved(k, l, more)
<1>1. Becomes(c, Done(k, more))
  BY ProceedIs
<1>2. l = Done(k, more) /\ Becomes(c, l)
  BY <1>1 DEF TInv, TypeOK, Becomes
<1>3. l \in Call /\ (l = Idle \/ Regular(l))
  BY DEF TInv, TypeOK
<1>4. CASE l # Idle
  <2>1. k \in Call
    BY Working DEF Busy
  <2>2. l = [k EXCEPT !.todo = more \o Tail(k.todo)]
    BY <1>2, <1>4 DEF Done
  <2>3. l.todo = more \o Tail(k.todo) /\ l.n = k.n /\ l.req = k.req /\ l.parent = k.parent /\ l.from = k.from
    BY <2>1, <2>2 DEF Call
  <2> QED BY <1>2, <1>3, <1>4, <2>3 DEF Busy, Regular, Moved
<1> QED BY <1>2, <1>4 DEF Moved

\* Only deletes drop rows.
LEMMA OtherCover ==
  ASSUME NEW l, Busy(l), l.req.op # "delete"
  PROVE  CoverOK(l)'
<1>1. l.req.op \in {"create", "rename", "stage", "addVersion", "dropVersion", "list"}
  BY ObjectsAssumption DEF Busy, Regular, Request
<1>2. "dropRow" \notin {"look"} \cup OpSteps(l.req.op)
  BY <1>1 DEF OpSteps
<1>3. \A j \in DOMAIN l.todo : l.todo[j][1] # "dropRow"
  BY <1>2 DEF Busy, Regular
<1> QED BY <1>3 DEF CoverOK

\* The next step of a creation that is neither broken off nor at its root.
LEMMA CreationGoesOn ==
  ASSUME TInv, TInv', RowsInv, KinInv, NEW c \in Client, NEW k, k = call[c], k.todo # << >>, k.req.op = "create",
         k.todo[1][1] # "look", RowsKin(c), ~Doing(c, "dropRow"),
         NEW more \in Seq(Step), \A j \in DOMAIN more : more[j][1] \notin {"root", "look"},
         Proceed(c, more), NEW l, l = call'[c]
  PROVE  CallKin(l)'
<1>0. call[c].todo # << >>
  OBVIOUS
<1>1. Becomes(c, l) /\ Moved(k, l, more)
  BY <1>0, NextOwn
<1>2. CASE l = Idle
  BY <1>2, IdleKin
<1>3. CASE /\ Busy(l) /\ l.todo = more \o Tail(k.todo) /\ l.todo # << >>
           /\ l.n = k.n /\ l.req = k.req /\ l.parent = k.parent /\ l.from = k.from
  <2>1. k.todo \in Seq(Step) /\ k.n \in Ordinal /\ Busy(k) /\ k.parent \in Id \cup {None}
    BY Working DEF Busy, Call
  <2>2. CallKin(k)
    BY DEF KinInv
  <2>3. /\ k.req.kind = "catalog" <=> k.parent = None
        /\ k.parent # None => /\ note[k.parent].kind = ParentKind(k.req.kind)
                              /\ k.parent \in Live(db) \/ \E x \in touched[k.parent] : {x, k.n} \in met
        /\ \A j \in DOMAIN k.todo : k.todo[j][1] = "root" => j = 1 /\ k.req.kind \in Managed
        /\ Met(k.n) \/ UnderOwn(k.from, k.parent)
    BY <2>2 DEF CallKin, Overlaps
  <2>4. \A j \in DOMAIN l.todo : l.todo[j][1] \notin {"root", "look"}
    <3> PICK s, t : s = k.todo /\ t = l.todo
      OBVIOUS
    <3>0. s \in Seq(Step) /\ s # << >> /\ t = more \o Tail(s) /\ more \in Seq(Step)
      BY <1>3, <2>1
    <3>1. \A j \in DOMAIN t : (j \in DOMAIN more /\ t[j] = more[j]) \/ \E m \in DOMAIN s \ {1} : t[j] = s[m]
      BY ONLY <3>0, Shifted
    <3>2. \A m \in DOMAIN k.todo \ {1} : k.todo[m][1] # "look"
      <4>1. \A m \in DOMAIN k.todo : k.todo[m][1] \in Alone => Len(k.todo) = 1
        BY <2>1 DEF Busy, Regular
      <4>2. DOMAIN k.todo = 1..Len(k.todo) /\ Len(k.todo) \in Nat
        BY <2>1
      <4> QED BY <4>1, <4>2 DEF Alone
    <3> QED BY <2>3, <3>1, <3>2
  <2>5. 1 \in DOMAIN l.todo
    <3>1. l.todo \in Seq(Step)
      BY <1>3 DEF Busy, Call
    <3> QED BY <1>3, <3>1
  <2>6. met \subseteq met' /\ \A x \in Live(db) : x \in Live(db')
    BY DEF RowsKin, KinGrows, LostKin
  <2> DEFINE p == k.parent
  <2> HIDE DEF p
  <2>7. ASSUME p # None
        PROVE  /\ note'[p].kind = ParentKind(k.req.kind)
               /\ p \in Live(db') \/ \E x \in touched'[p] : {x, k.n} \in met'
    <3>1. p \in Id /\ note[p].kind = ParentKind(k.req.kind) /\ touched[p] \subseteq touched'[p]
      BY <2>1, <2>3, <2>7 DEF RowsKin, KinGrows, p
    <3>2. note[p].kind # "none"
      BY <3>1 DEF ParentKind
    <3>3. note'[p].kind = note[p].kind
      BY <3>1, <3>2 DEF RowsKin, KinGrows
    <3> QED BY <2>3, <2>6, <2>7, <3>1, <3>3 DEF p
  <2>8. Met(k.n)' \/ k.from \in {None, p} \/ (p \in Live(db') /\ k.from = db'.objs[p].parent)
    <3>1. CASE p \in Live(db) /\ k.from = db.objs[p].parent
      <4>1. p # None /\ p \in Live(db')
        BY <2>6, <3>1, NoneNot, LiveIs
      <4>2. note[p].kind \in {"schema", "catalog"}
        BY <2>3, <4>1 DEF ParentKind, p
      <4>3. SameKin(p)
        BY <4>1, <4>2 DEF RowsKin, MadeKin
      <4> QED BY <3>1, <4>1, <4>3 DEF SameKin
    <3>2. Met(k.n) => Met(k.n)'
      BY <2>6 DEF Met
    <3> QED BY <2>3, <3>1, <3>2 DEF UnderOwn, p
  <2> QED BY <1>3, <2>3, <2>4, <2>5, <2>7, <2>8 DEF CallKin, Overlaps, UnderOwn, p
<1> QED BY <1>1, <1>2, <1>3 DEF Moved

-----------------------------------------------------------------------------
(* Parents and roots: commits                                              *)

\* A step that makes and drops no row.
Still ==
  /\ \A i \in Id : note'[i].kind = note[i].kind /\ note'[i].made = note[i].made /\ touched[i] \subseteq touched'[i]
  /\ Live(db') = Live(db)
  /\ \A i \in Live(db) : /\ db'.objs[i].kind = db.objs[i].kind /\ db'.objs[i].parent = db.objs[i].parent
                         /\ db'.objs[i].from = db.objs[i].from

LEMMA StillRows == ASSUME Still, UNCHANGED met, NEW c PROVE RowsKin(c)
BY LiveIs DEF Still, RowsKin, KinGrows, SameKin

LEMMA UnwrittenStill == ASSUME Unwritten PROVE Still
BY DEF Unwritten, Still

LEMMA FailsKin ==
  ASSUME TInv, RowsInv, KinInv, NEW c \in Client, call[c].todo # << >>, Fails(c), UNCHANGED <<begun, met>>
  PROVE  KinInv'
<1>1. RowsKin(c)
  BY UnwrittenStill, StillRows DEF Fails
<1>2. Becomes(c, Idle) /\ call'[c] = Idle
  BY DEF Fails, Becomes, TInv, TypeOK
<1>3. OwnKin(c)
  BY <1>2, IdleKin DEF OwnKin
<1> QED BY <1>1, <1>2, <1>3, KinKept

\* A step of a call that deletes nothing.
LEMMA StillKin ==
  ASSUME TInv, TInv', RowsInv, KinInv, NEW c \in Client, call[c].todo # << >>, ~Doing(c, "look"),
         Req(c).op # "delete", ~Doing(c, "dropRow"), RowsKin(c), UNCHANGED <<begun, met>>,
         NEW more, Proceed(c, more),
         Req(c).op = "create" => more \in Seq(Step) /\ \A j \in DOMAIN more : more[j][1] \notin {"root", "look"}
  PROVE  KinInv'
<1>0. PICK k, l : k = call[c] /\ l = call'[c]
  OBVIOUS
<1>1. Becomes(c, l) /\ Moved(k, l, more)
  BY <1>0, NextOwn
<1>2. k.n \in Ordinal /\ k.todo # << >> /\ k.req = Req(c) /\ k.todo[1][1] # "look"
  BY <1>0, Working DEF Req, Doing
<1>3. CASE l = Idle
  BY <1>0, <1>1, <1>3, IdleKin, KinKept DEF OwnKin
<1>4. CASE l # Idle
  <2>1. Busy(l) /\ l.n = k.n /\ l.req = Req(c)
    BY <1>1, <1>2, <1>4 DEF Moved
  <2>2. CoverOK(l)'
    BY <2>1, OtherCover
  <2>3. CallKin(l)'
    <3>1. CASE Req(c).op = "create"
      BY <1>0, <1>2, <3>1, CreationGoesOn
    <3>2. CASE Req(c).op # "create"
      BY <2>1, <3>2 DEF CallKin
    <3> QED BY <3>1, <3>2
  <2>4. OwnKin(c)
    BY <1>0, <2>1, <2>2, <2>3 DEF OwnKin
  <2> QED BY <1>1, <2>4, KinKept
<1> QED BY <1>3, <1>4

\* Commits of what hangs on rows, and of staging tables.
LEMMA HangingStill ==
  ASSUME TInv, NEW c \in Client,
         \/ AddParts(c) \/ SetProps(c) \/ LinkChild(c) \/ DropParts(c) \/ DropProps(c)
         \/ PutVersion(c) \/ SetMax(c) \/ DropVersion(c) \/ MarkCommitted(c) \/ StageRow(c)
  PROVE  Still
<1>1. call[c].todo # << >> /\ On(c) \in Id
  BY AtStep DEF AddParts, SetProps, LinkChild, DropParts, DropProps, PutVersion, SetMax, DropVersion, MarkCommitted,
     StageRow, Single
<1>2. \A i \in Id : touched[i] \subseteq touched'[i]
  BY WriteTouches DEF AddParts, SetProps, LinkChild, DropParts, DropProps, PutVersion, SetMax, DropVersion, MarkCommitted,
     StageRow
<1>3. db \in Database /\ note \in [Id -> Notes] /\ note[On(c)] \in Notes
  BY <1>1 DEF TInv, TypeOK
<1>4. \A i \in Id : note'[i].kind = note[i].kind /\ note'[i].made = note[i].made
  <2>1. CASE SetProps(c)
    <3>1. note' = [note EXCEPT ![On(c)]["wants"] = note[On(c)].wants \cup {"props"}]
      BY <2>1 DEF SetProps, Note
    <3>2. note' = [note EXCEPT ![On(c)] = [note[On(c)] EXCEPT !.wants = note[On(c)].wants \cup {"props"}]]
      BY <1>1, <1>3, <3>1
    <3>3. \A i \in Id : note'[i] = note[i] \/ (i = On(c) /\ note'[i] = [note[i] EXCEPT !.wants = note[i].wants \cup {"props"}])
      BY <1>3, <3>2
    <3>4. ASSUME NEW i \in Id PROVE note'[i].kind = note[i].kind /\ note'[i].made = note[i].made
      <4>1. note'[i] = note[i] \/ \E W : note'[i] = [note[i] EXCEPT !.wants = W]
        BY <3>3
      <4>2. note[i] \in Notes
        BY <1>3
      <4> QED BY <4>1, <4>2, OnlyWants
    <3> QED BY <3>4
  <2>2. CASE ~SetProps(c)
    BY <2>2 DEF AddParts, LinkChild, DropParts, DropProps, PutVersion, SetMax, DropVersion, MarkCommitted, StageRow
  <2> QED BY <2>1, <2>2
<1>5. CASE db'.objs = db.objs
  BY <1>2, <1>4, <1>5, LiveIs DEF Still
<1>6. ASSUME db'.objs # db.objs PROVE Still
  <2>1. SetMax(c) /\ On(c) \in Live(db)
    BY <1>3, <1>6 DEF AddParts, SetProps, LinkChild, DropParts, DropProps, PutVersion, SetMax, DropVersion, MarkCommitted,
       StageRow, Write, Database
  <2>2. db' = [db EXCEPT !.objs[On(c)].max = call[c].number]
    BY <2>1 DEF SetMax, Write
  <2>3. db' = [db EXCEPT !.objs = [@ EXCEPT ![On(c)] = [db.objs[On(c)] EXCEPT !.max = call[c].number]]]
    BY <1>1, <1>3, <2>2 DEF Database
  <2>4. db'.objs = [db.objs EXCEPT ![On(c)] = [db.objs[On(c)] EXCEPT !.max = call[c].number]]
    BY <1>3, <2>3 DEF Database
  <2>5. \A i \in Id : i # On(c) => db'.objs[i] = db.objs[i]
    BY <1>3, <2>4 DEF Database
  <2>6. db'.objs[On(c)] = [db.objs[On(c)] EXCEPT !.max = call[c].number] /\ db.objs[On(c)] \in Object
    BY <1>1, <1>3, <2>1, <2>4, LiveIs DEF Database
  <2>7. /\ db'.objs[On(c)].kind = db.objs[On(c)].kind /\ db'.objs[On(c)].parent = db.objs[On(c)].parent
        /\ db'.objs[On(c)].from = db.objs[On(c)].from /\ db.objs[On(c)].kind \in Kinds
    BY <2>6 DEF Object
  <2>8. db'.objs[On(c)] # NoObject
    <3>1. NoObject.kind \notin Kinds
      BY DEF NoObject, Kinds, Leaves
    <3> QED BY <2>7, <3>1
  <2>9. \A i : i \in Live(db') <=> i \in Live(db)
    BY <1>1, <2>1, <2>5, <2>8, LiveIs
  <2>10. \A i \in Live(db) : /\ db'.objs[i].kind = db.objs[i].kind /\ db'.objs[i].parent = db.objs[i].parent
                             /\ db'.objs[i].from = db.objs[i].from
    BY <2>5, <2>7, LiveIs
  <2>11. Live(db') = Live(db)
    BY <2>9
  <2> QED BY <1>2, <1>4, <2>10, <2>11 DEF Still
<1> QED BY <1>5, <1>6

LEMMA HangingKin ==
  ASSUME TInv, TInv', RowsInv, KinInv, NEW c \in Client, Outside, Req(c).op # "delete",
         \/ AddParts(c) \/ SetProps(c) \/ LinkChild(c)
         \/ PutVersion(c) \/ SetMax(c) \/ DropVersion(c) \/ MarkCommitted(c) \/ StageRow(c)
  PROVE  KinInv'
<1>1. call[c].todo # << >> /\ ~Doing(c, "look") /\ ~Doing(c, "dropRow") /\ Proceed(c, << >>)
  BY DEF AddParts, SetProps, LinkChild, PutVersion, SetMax, DropVersion, MarkCommitted, StageRow, Doing
<1>2. RowsKin(c)
  BY HangingStill, StillRows DEF Outside
<1>3. PICK more : more = << >>
  OBVIOUS
<1>4. more \in Seq(Step) /\ DOMAIN more = {} /\ Proceed(c, more)
  BY <1>1, <1>3
<1>5. UNCHANGED <<begun, met>>
  BY DEF Outside
<1> QED BY <1>1, <1>2, <1>4, <1>5, StillKin

\* Which calls take a step.
LEMMA OpOf ==
  ASSUME TInv, NEW c \in Client, NEW what, Doing(c, what)
  PROVE  /\ what \in {"row", "root", "mark", "staged", "parts", "link"} => Req(c).op = "create"
         /\ what \in {"stageRow", "grant"} => Req(c).op \in {"create", "stage"}
         /\ what = "props" => Req(c).op \in {"create", "rename"}
         /\ what = "rename" => Req(c).op = "rename"
         /\ what \in {"version", "max"} => Req(c).op = "addVersion"
         /\ what = "dropVersion" => Req(c).op = "dropVersion"
         /\ what \in {"page", "answer"} => Req(c).op = "list"
         /\ what \in {"empty", "list", "each"} \cup DropStep => Req(c).op = "delete"
<1>1. what \in {"look"} \cup OpSteps(Req(c).op) /\ Busy(call[c])
  BY AtStep
<1>2. Req(c).op \in {"create", "rename", "stage", "addVersion", "dropVersion", "list", "delete"}
  BY <1>1, ObjectsAssumption DEF Busy, Regular, Request, Req
<1> QED BY <1>1, <1>2 DEF OpSteps, DropStep

LEMMA StagedTableKin ==
  ASSUME TInv, TInv', RowsInv, KinInv, NEW c \in Client, Outside, StagedTable(c)
  PROVE  KinInv'
<1>1. call[c].todo # << >> /\ Doing(c, "staged") /\ ~Doing(c, "look") /\ ~Doing(c, "dropRow") /\ On(c) \in Id
  BY AtStep DEF StagedTable, Doing, Single
<1>2. Req(c).op = "create"
  BY <1>1, OpOf
<1>3. UNCHANGED <<begun, met>>
  BY DEF Outside
<1>4. CASE Fails(c)
  BY <1>1, <1>3, <1>4, FailsKin
<1>5. PICK s : s = <<"mark", On(c)>>
  OBVIOUS
<1>6. s \in Step /\ s[1] = "mark"
  BY <1>1, <1>5 DEF Step, Single
<1>7. PICK more : more = <<s>>
  OBVIOUS
<1>8. more \in Seq(Step) /\ DOMAIN more = {1} /\ more[1] = s
  BY <1>6, <1>7, OneStep
<1>9. CASE Proceed(c, <<s>>) /\ Unwritten
  <2>1. RowsKin(c)
    BY <1>3, <1>9, UnwrittenStill, StillRows
  <2>2. Proceed(c, more) /\ \A j \in DOMAIN more : more[j][1] \notin {"root", "look"}
    BY <1>6, <1>7, <1>8, <1>9
  <2> QED BY <1>1, <1>2, <1>3, <1>8, <2>1, <2>2, StillKin
<1> QED BY <1>4, <1>5, <1>9 DEF StagedTable

LEMMA GrantOwnerKin ==
  ASSUME TInv, TInv', RowsInv, KinInv, NEW c \in Client, Outside, GrantOwner(c)
  PROVE  KinInv'
<1>1. call[c].todo # << >> /\ Doing(c, "grant") /\ ~Doing(c, "look") /\ ~Doing(c, "dropRow") /\ On(c) \in Id
  BY AtStep DEF GrantOwner, Doing, Single
<1>2. Req(c).op # "delete"
  BY <1>1, OpOf
<1>3. UNCHANGED <<begun, met>> /\ db \in Database /\ note \in [Id -> Notes] /\ note[On(c)] \in Notes
  BY <1>1 DEF Outside, TInv, TypeOK
<1>4. Still
  <2>1. CASE Write(c, [db EXCEPT !.owners = @ \cup {On(c)}], {On(c)}) /\ UNCHANGED note
    <3>1. db'.objs = db.objs /\ \A i \in Id : touched[i] \subseteq touched'[i]
      BY <1>3, <2>1, WriteTouches DEF Write, Database
    <3> QED BY <2>1, <3>1, LiveIs DEF Still
  <2>2. CASE /\ note' = [note EXCEPT ![On(c)]["wants"] = note[On(c)].wants \ {"owner"}]
             /\ UNCHANGED <<db, touched>>
    <3>1. note' = [note EXCEPT ![On(c)] = [note[On(c)] EXCEPT !.wants = note[On(c)].wants \ {"owner"}]]
      BY <1>1, <1>3, <2>2
    <3>2. \A i \in Id : note'[i] = note[i] \/ (i = On(c) /\ note'[i] = [note[i] EXCEPT !.wants = note[i].wants \ {"owner"}])
      BY <1>3, <3>1
    <3>3. ASSUME NEW i \in Id PROVE note'[i].kind = note[i].kind /\ note'[i].made = note[i].made
      <4>1. note'[i] = note[i] \/ \E W : note'[i] = [note[i] EXCEPT !.wants = W]
        BY <3>2
      <4>2. note[i] \in Notes
        BY <1>3
      <4> QED BY <4>1, <4>2, OnlyWants
    <3> QED BY <2>2, <3>3 DEF Still
  <2> QED BY <2>1, <2>2 DEF GrantOwner, Note
<1>5. RowsKin(c)
  BY <1>3, <1>4, StillRows
<1>6. CASE call' = [call EXCEPT ![c] = Idle]
  <2>1. Becomes(c, Idle) /\ call'[c] = Idle
    BY <1>6 DEF Becomes, TInv, TypeOK
  <2>2. OwnKin(c)
    BY <2>1, IdleKin DEF OwnKin
  <2> QED BY <1>1, <1>3, <1>5, <2>1, <2>2, KinKept
<1>7. CASE Proceed(c, << >>)
  <2>1. PICK more : more = << >>
    OBVIOUS
  <2>2. more \in Seq(Step) /\ DOMAIN more = {} /\ Proceed(c, more)
    BY <1>7, <2>1
  <2> QED BY <1>1, <1>2, <1>3, <1>5, <2>2, StillKin
<1> QED BY <1>6, <1>7 DEF GrantOwner

LEMMA RenameKin ==
  ASSUME TInv, TInv', RowsInv, KinInv, NEW c \in Client, Outside, Rename(c)
  PROVE  KinInv'
<1>1. call[c].todo # << >> /\ Doing(c, "rename") /\ ~Doing(c, "look") /\ ~Doing(c, "dropRow") /\ On(c) \in Id
  BY AtStep DEF Rename, Doing, Single
<1>2. Req(c).op = "rename"
  BY <1>1, OpOf
<1>3. UNCHANGED <<begun, met>> /\ db \in Database /\ note \in [Id -> Notes]
  BY DEF Outside, TInv, TypeOK
<1>4. PICK i : i = Hit(c)
  OBVIOUS
<1>5. CASE Fails(c)
  BY <1>1, <1>3, <1>5, FailsKin
<1>6. ASSUME ~Fails(c)
      PROVE  /\ Proceed(c, When("props" \in Req(c).opts, <<"props", i>>))
             /\ \/ Unwritten
                \/ i \in Live(db) /\ Write(c, PutRow(db, i, Renamed(db, i, Req(c).to)), {i}) /\ Mark(c, i, "no")
  BY <1>4, <1>6 DEF Rename
<1>7. ASSUME i \in Live(db), Write(c, PutRow(db, i, Renamed(db, i, Req(c).to)), {i}), Mark(c, i, "no")
      PROVE  Still
  <2>1. i \in Id /\ db.objs[i] \in Object
    BY <1>3, <1>7, LiveIs DEF Database
  <2>2. PICK row : row = [db.objs[i] EXCEPT !.name = Req(c).to]
    OBVIOUS
  <2>3. row.kind = db.objs[i].kind /\ row.parent = db.objs[i].parent /\ row.from = db.objs[i].from /\ row.kind \in Kinds
    BY <2>1, <2>2 DEF Object
  <2>4. db'.objs = [db.objs EXCEPT ![i] = row]
    BY <1>3, <1>7, <2>2 DEF Write, PutRow, Renamed, Database
  <2>5. db'.objs[i] = row /\ \A x \in Id : x # i => db'.objs[x] = db.objs[x]
    BY <1>3, <2>1, <2>4 DEF Database
  <2>6. row # NoObject
    <3>1. NoObject.kind \notin Kinds
      BY DEF NoObject, Kinds, Leaves
    <3> QED BY <2>3, <3>1
  <2>7. \A x : x \in Live(db') <=> x \in Live(db)
    BY <1>7, <2>5, <2>6, LiveIs
  <2>8. Live(db') = Live(db)
    BY <2>7
  <2>9. \A x \in Id : note'[x].kind = note[x].kind /\ note'[x].made = note[x].made
    BY <1>7, <2>1, MarkIs
  <2>10. \A x \in Id : touched[x] \subseteq touched'[x]
    BY <1>7, WriteTouches
  <2>11. \A x \in Live(db) : /\ db'.objs[x].kind = db.objs[x].kind /\ db'.objs[x].parent = db.objs[x].parent
                             /\ db'.objs[x].from = db.objs[x].from
    BY <2>3, <2>5, LiveIs
  <2> QED BY <2>8, <2>9, <2>10, <2>11 DEF Still
<1>8. ASSUME ~Fails(c) PROVE KinInv'
  <2>1. Still
    BY <1>6, <1>7, <1>8, UnwrittenStill
  <2>2. RowsKin(c)
    BY <1>3, <2>1, StillRows
  <2>3. PICK more : more = When("props" \in Req(c).opts, <<"props", i>>)
    OBVIOUS
  <2>4. Proceed(c, more)
    BY <1>6, <1>8, <2>3
  <2> QED BY <1>1, <1>2, <1>3, <2>2, <2>4, StillKin
<1> QED BY <1>5, <1>8

LEMMA CreateRowKin ==
  ASSUME TInv, TInv', RowsInv, KinInv, NEW c \in Client, Outside, CreateRow(c)
  PROVE  KinInv'
<1>0. Doing(c, "row") /\ call[c].todo # << >> /\ ~Doing(c, "look") /\ ~Doing(c, "dropRow")
  BY DEF CreateRow, Doing
<1>1. PICK k : k = call[c]
  OBVIOUS
<1>2. /\ k.n \in Ordinal /\ k.todo # << >> /\ On(c) \in Id /\ k.todo[1] = <<"row", On(c)>>
      /\ PlaceOK(k, 1) /\ (k.req.staged # None => k.req.kind = "table") /\ k.req.op = "create"
  BY <1>0, <1>1, CreationIs, OpOf DEF Req
<1>3. PICK i \in Id : i = On(c)
  BY <1>2
<1>4. PICK row : row = [kind |-> k.req.kind, name |-> Last(k.req.path), parent |-> k.parent, max |-> 0,
                        root |-> "root" \in k.req.opts, from |-> k.from]
  OBVIOUS
<1>5. PICK new : new = [NoNote EXCEPT !.kind = k.req.kind, !.made = k.n, !.wants = Wanted(k.req)]
  OBVIOUS
<1>6. UNCHANGED <<begun, met>>
  BY DEF Outside
<1>7. CASE Fails(c)
  BY <1>0, <1>6, <1>7, FailsKin
<1>8. ASSUME ~Fails(c)
      PROVE  /\ Write(c, PutRow(db, i, row), {i, k.parent}) /\ note' = [note EXCEPT ![i] = new]
             /\ Proceed(c, << >>)
  BY <1>1, <1>3, <1>4, <1>5, <1>8 DEF CreateRow, Req
<1>9. ASSUME ~Fails(c) PROVE KinInv'
  <2>1. new.kind = k.req.kind /\ new.made = k.n
    BY <1>5 DEF NoNote
  <2>2. db \in Database /\ note \in [Id -> Notes]
    BY DEF TInv, TypeOK
  <2>3. note'[i] = new /\ \A x \in Id : x # i => note'[x] = note[x]
    BY <1>8, <1>9, <2>2
  <2>4. db'.objs = [db.objs EXCEPT ![i] = row]
    BY <1>8, <1>9, <2>2 DEF Write, PutRow, Database
  <2>5. db'.objs[i] = row /\ \A x \in Id : x # i => db'.objs[x] = db.objs[x]
    BY <2>2, <2>4 DEF Database
  <2>6. \A x \in Id : touched[x] \subseteq touched'[x] /\ (x = k.parent => k.n \in touched'[x])
    BY <1>1, <1>8, <1>9, WriteTouches
  <2>7. note[i].kind \in {"none", "table"} /\ (note[i].kind = "table" => k.req.kind = "table")
    <3>1. k.todo[1][1] = "row" /\ k.todo[1][2] = i
      BY <1>2, <1>3
    <3>2. MakerOK(k, 1)
      BY <1>2, <3>1 DEF PlaceOK, Making
    <3>3. RowOK(i)
      BY DEF RowsInv
    <3> QED BY <1>2, <3>1, <3>2, <3>3 DEF MakerOK, RowOK, Fresh
  <2>8. KinGrows
    BY <1>6, <2>1, <2>3, <2>6, <2>7 DEF KinGrows
  <2>9. MadeKin(c, i)
    <3>1. At(c, <<"row", i>>)
      BY <1>1, <1>2, <1>3 DEF At
    <3>2. row.kind = k.req.kind /\ row.parent = k.parent /\ row.from = k.from
      BY <1>4
    <3> QED BY <1>1, <1>2, <2>1, <2>3, <2>5, <2>6, <2>7, <3>1, <3>2 DEF MadeKin, Req
  <2>10. ASSUME NEW x \in Id, x # i, x \in Live(db') PROVE SameKin(x)
    <3>1. note'[x] = note[x] /\ db'.objs[x] = db.objs[x] /\ x \in Live(db)
      BY <2>3, <2>5, <2>10, LiveIs
    <3> QED BY <3>1 DEF SameKin
  <2>11. row # NoObject
    <3>1. row.kind \in Kinds
      <4>1. k.req \in Request
        BY <1>0, <1>1, CreationIs
      <4> QED BY <1>4, <4>1 DEF Request
    <3>2. NoObject.kind \notin Kinds
      BY DEF NoObject, Kinds, Leaves
    <3> QED BY <3>1, <3>2
  <2>12. \A x \in Live(db) : x \in Live(db')
    BY <2>5, <2>11, LiveIs
  <2>13. RowsKin(c)
    BY <2>8, <2>9, <2>10, <2>12, LiveIs DEF RowsKin
  <2>14. PICK more : more = << >>
    OBVIOUS
  <2>15. more \in Seq(Step) /\ DOMAIN more = {} /\ Proceed(c, more)
    BY <1>8, <1>9, <2>14
  <2>16. Req(c).op # "delete"
    BY <1>1, <1>2 DEF Req
  <2> QED BY <1>0, <1>6, <2>13, <2>15, <2>16, StillKin
<1> QED BY <1>7, <1>9

-----------------------------------------------------------------------------
(* Parents and roots: reads                                                *)

LEMMA RootOfIs ==
  ASSUME NEW path, NEW p, p = FindPath(db, "schema", path), p # None, NEW f, f = RootOf(db, path)
  PROVE  f \in {None, p} \/ (p \in Live(db) /\ f = db.objs[p].parent)
<1>1. PICK cat : cat = FindPath(db, "catalog", path)
  OBVIOUS
<1>2. "schema" \in Kinds /\ ParentKind("schema") = "catalog"
  BY DEF Kinds, ParentKind
<1>3. p \in Live(db) /\ db.objs[p].parent = cat
  BY <1>1, <1>2, FindPathIs
<1> QED BY <1>1, <1>3 DEF RootOf

LEMMA FindRootKin ==
  ASSUME TInv, TInv', RowsInv, KinInv, NEW c \in Client, Outside, FindRoot(c)
  PROVE  KinInv'
<1>0. /\ call[c].todo # << >> /\ Doing(c, "root") /\ ~Doing(c, "look") /\ ~Doing(c, "dropRow") /\ On(c) \in Id
      /\ call[c].todo[1][1] = "root" /\ Req(c).op = "create"
  BY AtStep, OpOf DEF FindRoot, Doing, Single
<1>1. UNCHANGED <<begun, met>>
  BY DEF Outside
<1>2. PICK k, l : k = call[c] /\ l = call'[c]
  OBVIOUS
<1>3. PICK from : from = RootOf(db, k.req.path)
  OBVIOUS
<1>4. CASE Fails(c)
  BY <1>0, <1>1, <1>4, FailsKin
<1>5. ASSUME ~Fails(c) PROVE KinInv'
  <2>1. Unwritten /\ call' = [call EXCEPT ![c].from = from, ![c].todo = Tail(@)]
    BY <1>2, <1>3, <1>5 DEF FindRoot, Req
  <2>2. k \in Call /\ k.todo \in Seq(Step) /\ k.todo # << >> /\ k.n \in Ordinal /\ k.todo[1][1] = "root" /\ k.req.op = "create"
    BY <1>0, <1>2, Working DEF Busy, Call, Req
  <2>3. PICK t : t = Tail(k.todo)
    OBVIOUS
  <2>4. l = [k EXCEPT !.from = from, !.todo = t]
    BY <1>2, <2>1, <2>3 DEF TInv, TypeOK
  <2>5. l.from = from /\ l.todo = t /\ l.n = k.n /\ l.req = k.req /\ l.parent = k.parent
    BY <2>2, <2>4 DEF Call
  <2>6. Becomes(c, l)
    BY <1>2, <2>1, <2>3, <2>4 DEF Becomes, TInv, TypeOK
  <2>7. t \in Seq(Step) /\ \A j \in DOMAIN t : j + 1 \in DOMAIN k.todo /\ j + 1 # 1 /\ t[j] = k.todo[j + 1]
    <3> HIDE DEF Step
    <3> QED BY <2>2, <2>3
  <2>8. l = Idle \/ (Regular(l) /\ l \in Call)
    BY <1>2 DEF TInv, TypeOK
  <2>9. CoverOK(l)'
    BY <2>2, <2>5, <2>8, IdleKin, OtherCover DEF Busy
  <2>10. CallKin(k)
    BY <1>2 DEF KinInv
  <2>11. /\ k.req.kind = "catalog" <=> k.parent = None
         /\ k.parent # None => /\ note[k.parent].kind = ParentKind(k.req.kind)
                               /\ k.parent \in Live(db) \/ Overlaps(k.n, k.parent)
         /\ \A j \in DOMAIN k.todo : k.todo[j][1] = "root" => j = 1 /\ k.req.kind \in Managed
         /\ Met(k.n) \/ FindPath(db, "schema", k.req.path) = k.parent
         /\ k.req.kind \in Managed
    <3>1. 1 \in DOMAIN k.todo
      BY <2>2
    <3> QED BY <2>2, <2>10, <3>1 DEF CallKin
  <2>12. \A j \in DOMAIN t : t[j][1] # "root"
    BY <2>7, <2>11
  <2>13. t # << >> => t[1][1] \notin {"look", "root"}
    <3>1. t # << >> => 1 \in DOMAIN t
      BY <2>7
    <3>2. ASSUME 1 \in DOMAIN t, t[1][1] = "look" PROVE FALSE
      <4>1. 2 \in DOMAIN k.todo /\ k.todo[2][1] = "look"
        BY <2>7, <3>2
      <4>2. Len(k.todo) = 1
        BY <1>0, <1>2, <4>1, Working DEF Busy, Regular, Alone
      <4>3. Len(k.todo) \in Nat /\ DOMAIN k.todo = 1..Len(k.todo)
        BY <2>2
      <4> QED BY ONLY <4>1, <4>2, <4>3
    <3> QED BY <2>12, <3>1, <3>2
  <2>14. Met(k.n) \/ UnderOwn(from, k.parent)
    <3>1. k.req.kind # "catalog"
      BY <2>11 DEF Managed
    <3>2. k.parent # None
      BY <2>11, <3>1
    <3>3. ASSUME FindPath(db, "schema", k.req.path) = k.parent PROVE UnderOwn(from, k.parent)
      <4>1. PICK p, path : p = k.parent /\ path = k.req.path
        OBVIOUS
      <4> QED BY <1>3, <3>2, <3>3, <4>1, RootOfIs DEF UnderOwn
    <3> QED BY <2>11, <3>3
  <2>15. CallKin(l)
    BY <2>5, <2>11, <2>12, <2>13, <2>14 DEF CallKin
  <2>16. CallKin(l)'
    BY <1>1, <2>1, <2>15 DEF Unwritten, CallKin, Met, UnderOwn, Overlaps
  <2>17. RowsKin(c)
    BY <1>1, <2>1, UnwrittenStill, StillRows
  <2>18. OwnKin(c)
    BY <1>2, <2>5, <2>9, <2>16 DEF OwnKin
  <2> QED BY <1>0, <1>1, <2>6, <2>17, <2>18, KinKept
<1> QED BY <1>4, <1>5

LEMMA ReadPageKin ==
  ASSUME TInv, TInv', RowsInv, KinInv, NEW c \in Client, Outside, ReadPage(c)
  PROVE  KinInv'
<1>0. call[c].todo # << >> /\ Doing(c, "page") /\ Req(c).op = "list"
  BY OpOf DEF ReadPage, Doing
<1>1. UNCHANGED <<begun, met>> /\ Unwritten
  BY DEF Outside, ReadPage
<1>2. PICK k, l : k = call[c] /\ l = call'[c]
  OBVIOUS
<1>3. PICK S, T, a, t : l = [k EXCEPT !.seen = S, !.twice = T, !.after = a, !.todo = t] /\ Becomes(c, l)
  BY <1>2, ZenonT(60) DEF ReadPage, TInv, TypeOK, Becomes
<1>4. k \in Call
  BY <1>0, <1>2, Working DEF Busy
<1>5. l.n = k.n /\ l.req = k.req
  BY <1>3, <1>4 DEF Call
<1>6. l = Idle \/ (Regular(l) /\ l \in Call)
  BY <1>2 DEF TInv, TypeOK
<1>7. CallKin(l)' /\ CoverOK(l)'
  <2>1. l.req.op = "list"
    BY <1>0, <1>2, <1>5 DEF Req
  <2> QED BY <1>6, <2>1, IdleKin, OtherCover DEF CallKin, Busy
<1>8. RowsKin(c) /\ OwnKin(c)
  BY <1>1, <1>2, <1>5, <1>7, UnwrittenStill, StillRows DEF OwnKin
<1> QED BY <1>0, <1>1, <1>3, <1>8, KinKept

LEMMA AnswerKin ==
  ASSUME TInv, TInv', RowsInv, KinInv, NEW c \in Client, Outside, Answer(c)
  PROVE  KinInv'
<1>0. call[c].todo # << >> /\ Doing(c, "answer") /\ Req(c).op = "list" /\ ~Doing(c, "look") /\ ~Doing(c, "dropRow")
  BY OpOf DEF Answer, Doing
<1>1. UNCHANGED <<begun, met>>
  BY DEF Outside
<1>2. RowsKin(c) /\ Proceed(c, << >>)
  BY <1>1, UnwrittenStill, StillRows DEF Answer
<1> QED BY <1>0, <1>1, <1>2, StillKin

-----------------------------------------------------------------------------
(* Parents and roots: drops with force                                     *)

\* The steps put in front of a list see to the children of what they drop, and
\* to those that the step just taken stood for.
FrontOK(k, more) ==
  /\ \A j \in DOMAIN more : \A p \in Id : more[j] = <<"dropRow", p>> /\ note[p].kind \in {"schema", "catalog"} =>
       \A i \in Live(db) : db.objs[i].parent = p => \E x \in 1..(j - 1) : Covers(more[x], i, p)
  /\ \A i \in Live(db') : \A p \in Id :
       i \in Live(db) /\ db.objs[i].parent = p /\ Covers(k.todo[1], i, p) => \E x \in DOMAIN more : Covers(more[x], i, p)

LEMMA CoverStep ==
  ASSUME TInv, TInv', RowsInv, KinInv, NEW c \in Client, NEW k, k = call[c], call[c].todo # << >>,
         RowsKin(c), ~Doing(c, "row"), \A i \in Id : note'[i].kind = note[i].kind,
         NEW more \in Seq(Step), FrontOK(k, more), NEW l, Moved(k, l, more)
  PROVE  CoverOK(l)'
<1> SUFFICES ASSUME NEW j \in DOMAIN l.todo, NEW p, p = l.todo[j][2], l.todo[j][1] = "dropRow",
                    note'[p].kind \in {"schema", "catalog"}, NEW i \in Live(db'), db'.objs[i].parent = p
             PROVE  {note'[i].made, l.n} \in met' \/ \E x \in 1..(j - 1) : Covers(l.todo[x], i, p)'
  BY DEF CoverOK
<1>1. Busy(l) /\ l.todo = more \o Tail(k.todo) /\ l.n = k.n
  <2>1. l # Idle
    <3>1. DOMAIN Idle.todo = {}
      BY DEF Idle
    <3> QED BY <3>1
  <2> QED BY <2>1 DEF Moved
<1>2. PICK s, t : s = k.todo /\ t = l.todo
  OBVIOUS
<1>3. s \in Seq(Step) /\ s # << >> /\ t = more \o Tail(s) /\ t \in Seq(Step)
  BY <1>1, <1>2, Working DEF Busy, Call
<1>4. /\ \A x \in DOMAIN more : x \in DOMAIN t /\ t[x] = more[x]
      /\ \A x \in DOMAIN s \ {1} : x + Len(more) - 1 \in DOMAIN t /\ t[x + Len(more) - 1] = s[x]
      /\ j \in DOMAIN more \/ (j - Len(more) + 1 \in DOMAIN s \ {1} /\ t[j] = s[j - Len(more) + 1])
  <2>1. j \in DOMAIN t
    BY <1>2
  <2>2. /\ \A x \in DOMAIN more : x \in DOMAIN t /\ t[x] = more[x]
        /\ \A x \in DOMAIN s \ {1} : x + Len(more) - 1 \in DOMAIN t /\ t[x + Len(more) - 1] = s[x]
        /\ \A x \in DOMAIN t : x \in DOMAIN more \/ (x - Len(more) + 1 \in DOMAIN s \ {1} /\ t[x] = s[x - Len(more) + 1])
    BY ONLY <1>3, more \in Seq(Step), Shifted, SMTT(30)
  <2> QED BY ONLY <2>1, <2>2
<1>5. DOMAIN more = 1..Len(more) /\ DOMAIN s = 1..Len(s) /\ Len(more) \in Nat /\ Len(s) \in Nat /\ j \in Nat
  <2>1. DOMAIN t = 1..Len(t) /\ Len(t) \in Nat
    BY <1>3
  <2> QED BY <1>2, <1>3, <2>1
<1>6. p \in Id /\ note[p].kind \in {"schema", "catalog"} /\ t[j] = <<"dropRow", p>>
  <2>1. PICK u : u = t[j]
    OBVIOUS
  <2>2. u \in Step /\ u[1] = "dropRow" /\ u[2] = p
    <3>1. t \in Seq(Step) /\ j \in DOMAIN t
      BY <1>2, <1>3
    <3>2. u \in Step
      <4> HIDE DEF Step
      <4> QED BY ONLY <2>1, <3>1
    <3> QED BY <1>2, <2>1, <3>2
  <2>3. p \in Id /\ u = <<"dropRow", p>>
    BY <2>2 DEF Step, Single, Below, Leaves
  <2> QED BY <2>1, <2>3
<1>7. SameKin(i) /\ i \in Live(db) /\ db.objs[i].parent = p /\ note'[i].made = note[i].made /\ met \subseteq met'
  <2>1. SameKin(i)
    BY DEF RowsKin, MadeKin, At, Doing
  <2> QED BY <2>1 DEF SameKin, RowsKin, KinGrows
<1>8. \A u : Covers(u, i, p) => Covers(u, i, p)'
  BY <1>7 DEF Covers, SameKin
<1>9. CASE j \in DOMAIN more
  <2>1. more[j] = <<"dropRow", p>>
    BY <1>4, <1>6, <1>9
  <2>2. PICK x \in 1..(j - 1) : Covers(more[x], i, p)
    BY <1>6, <1>7, <1>9, <2>1 DEF FrontOK
  <2>3. x \in DOMAIN more
    BY <1>5, <1>9
  <2>4. t[x] = more[x]
    BY <1>4, <2>3
  <2> QED BY <1>2, <1>8, <2>2, <2>4
<1>10. CASE j - Len(more) + 1 \in DOMAIN s \ {1} /\ t[j] = s[j - Len(more) + 1]
  <2>1. PICK m \in DOMAIN s : m = j - Len(more) + 1 /\ m # 1 /\ s[m] = <<"dropRow", p>> /\ m \in Nat
    BY <1>5, <1>6, <1>10
  <2>2. s[m][1] = "dropRow" /\ s[m][2] = p
    BY <2>1
  <2>3. CoverOK(k)
    BY DEF KinInv
  <2>4. {note[i].made, k.n} \in met \/ \E x \in 1..(m - 1) : Covers(s[x], i, p)
    BY <1>2, <1>6, <1>7, <2>1, <2>2, <2>3 DEF CoverOK
  <2>5. CASE {note[i].made, k.n} \in met
    BY <1>1, <1>7, <2>5
  <2>6. ASSUME NEW x \in 1..(m - 1), Covers(s[x], i, p)
        PROVE  \E y \in 1..(j - 1) : Covers(l.todo[y], i, p)'
    <3>1. CASE x = 1
      <4>1. PICK y \in DOMAIN more : Covers(more[y], i, p)
        BY <1>2, <1>6, <1>7, <2>6, <3>1 DEF FrontOK
      <4>2. y \in 1..(j - 1)
        BY <1>5, <2>1
      <4>3. t[y] = more[y]
        BY <1>4
      <4> QED BY <1>2, <1>8, <4>1, <4>2, <4>3
    <3>2. CASE x # 1
      <4>1. x \in DOMAIN s \ {1} /\ x + Len(more) - 1 \in 1..(j - 1)
        BY <1>5, <2>1, <3>2
      <4>2. t[x + Len(more) - 1] = s[x]
        BY <1>4, <4>1
      <4>3. PICK y \in 1..(j - 1) : y = x + Len(more) - 1
        BY <4>1
      <4>4. Covers(t[y], i, p)
        BY <2>6, <4>2, <4>3
      <4> QED BY <1>2, <1>8, <4>4
    <3> QED BY <3>1, <3>2
  <2> QED BY <2>4, <2>5, <2>6
<1> QED BY <1>4, <1>9, <1>10

\* A step of a delete that is not broken off.
LEMMA DeleteKin ==
  ASSUME TInv, TInv', RowsInv, KinInv, NEW c \in Client, call[c].todo # << >>, Req(c).op = "delete",
         RowsKin(c), ~Doing(c, "row"), \A i \in Id : note'[i].kind = note[i].kind, UNCHANGED <<begun, met>>,
         NEW more \in Seq(Step), Proceed(c, more), NEW k, k = call[c], FrontOK(k, more)
  PROVE  KinInv'
<1>1. PICK l : l = call'[c]
  OBVIOUS
<1>2. Becomes(c, l) /\ Moved(k, l, more)
  BY <1>1, NextOwn
<1>3. CoverOK(l)'
  BY <1>2, CoverStep
<1>4. l = Idle \/ (l.req.op = "delete" /\ l.n = k.n)
  BY <1>2 DEF Moved, Req
<1>5. CallKin(l)'
  BY <1>4, IdleKin DEF CallKin
<1>6. OwnKin(c)
  BY <1>1, <1>3, <1>4, <1>5, IdleKin DEF OwnKin
<1> QED BY <1>2, <1>6, KinKept

LEMMA DropHangingKin ==
  ASSUME TInv, TInv', RowsInv, KinInv, NEW c \in Client, Outside, DropParts(c) \/ DropProps(c)
  PROVE  KinInv'
<1>1. /\ call[c].todo # << >> /\ ~Doing(c, "row") /\ Req(c).op = "delete" /\ Proceed(c, << >>)
      /\ call[c].todo[1][1] \in {"dropParts", "dropProps"}
  <2>1. PICK what \in {"dropParts", "dropProps"} : Doing(c, what)
    BY DEF DropParts, DropProps
  <2>2. call[c].todo # << >> /\ call[c].todo[1][1] = what /\ Req(c).op = "delete"
    BY <2>1, OpOf, AtStep DEF DropStep
  <2>3. ~Doing(c, "row")
    BY <2>1 DEF Doing
  <2> QED BY <2>1, <2>2, <2>3 DEF DropParts, DropProps
<1>2. Still /\ UNCHANGED <<begun, met>>
  BY HangingStill DEF Outside
<1>3. RowsKin(c) /\ \A i \in Id : note'[i].kind = note[i].kind
  BY <1>2, StillRows DEF Still
<1>4. PICK more : more = << >>
  OBVIOUS
<1>5. more \in Seq(Step) /\ DOMAIN more = {} /\ Proceed(c, more)
  BY <1>1, <1>4
<1>6. PICK k : k = call[c]
  OBVIOUS
<1>7. FrontOK(k, more)
  <2>1. \A i, p : ~Covers(k.todo[1], i, p)
    <3>1. PICK u : u = k.todo[1]
      OBVIOUS
    <3>2. u[1] \in {"dropParts", "dropProps"}
      BY <1>1, <1>6, <3>1
    <3> QED BY <3>1, <3>2 DEF Covers
  <2> QED BY <1>5, <2>1 DEF FrontOK
<1> QED BY <1>1, <1>2, <1>3, <1>5, <1>6, <1>7, DeleteKin

LEMMA DropOneKin ==
  ASSUME TInv, TInv', RowsInv, KinInv, NEW c \in Client, Outside, DropOne(c)
  PROVE  KinInv'
<1>0. /\ call[c].todo # << >> /\ On(c) \in Id /\ call[c].todo[1][1] = "dropRow" /\ Doing(c, "dropRow")
      /\ call[c].todo[1][2] = On(c) /\ Req(c).op = "delete" /\ ~Doing(c, "row") /\ 1 \in DOMAIN call[c].todo
      /\ call[c].n \in Ordinal
  <2>1. Doing(c, "dropRow") /\ ~Doing(c, "row")
    BY DEF DropOne, Doing
  <2> QED BY <2>1, AtStep, OpOf, Working DEF Single, DropStep
<1>1. UNCHANGED <<begun, met>> /\ db \in Database
  BY DEF Outside, TInv, TypeOK
<1>2. PICK i : i = Hit(c)
  OBVIOUS
<1>3. CASE Fails(c)
  BY <1>0, <1>1, <1>3, FailsKin
<1>4. CASE /\ ~(i \notin Live(db) /\ note[On(c)].kind # "model")
           /\ Write(c, DropRow(db, i), {i})
           /\ Mark(c, i, IF note[i].kind = Req(c).kind THEN "dropped" ELSE "cascaded")
           /\ Proceed(c, << >>)
  <2>1. i \in Id /\ (i \notin Live(db) => i = On(c)) /\ (i # On(c) => note[On(c)].kind = "catalog")
    BY <1>0, <1>2, <1>4, HitIs, LiveIs
  <2>2. db'.objs = [db.objs EXCEPT ![i] = NoObject]
    BY <1>1, <1>4 DEF Write, DropRow, Database
  <2>3. \A x \in Id : db'.objs[x] = IF x = i THEN NoObject ELSE db.objs[x]
    BY <1>1, <2>2 DEF Database
  <2>4. \A x \in Id : note'[x].kind = note[x].kind /\ note'[x].made = note[x].made
    BY <1>4, <2>1, MarkIs
  <2>5. (\A x \in Id : touched[x] \subseteq touched'[x]) /\ call[c].n \in touched'[i]
    BY <1>4, <2>1, WriteTouches
  <2>6. \A x \in Live(db') : SameKin(x) /\ x # i
    BY <2>3, <2>4, LiveIs DEF SameKin
  <2>7. \A x \in Live(db) : x \in Live(db') \/ x = i
    BY <2>3, LiveIs
  <2>8. \A x \in Live(db) : RowKin(x) /\ x \in Id /\ note[x].kind = db.objs[x].kind
    BY LiveIs DEF KinInv, RowsInv, RowOK
  <2>9. i \in Live(db) => LostKin(c, i)
    <3>1. CASE i # On(c)
      <4>1. i \in Live(db) => Overlaps(call[c].n, i)
        BY <1>0, <1>2, <3>1, HitKnown
      <4>2. i \in Live(db) => db.objs[i].kind = "catalog"
        <5>1. i = Find(db, "catalog", None, Req(c).path[1])
          BY <1>2, <3>1 DEF Hit
        <5>2. i # None
          BY <2>1, NoneNot
        <5> QED BY <5>1, <5>2, FindIs
      <4> QED BY <1>0, <2>5, <2>8, <4>1, <4>2 DEF LostKin
    <3>2. CASE i = On(c)
      <4>1. PICK k : k = call[c]
        OBVIOUS
      <4>2. CoverOK(k)
        BY <4>1 DEF KinInv
      <4>3. ASSUME NEW x \in Live(db), db.objs[x].parent = i PROVE {note[x].made, k.n} \in met
        <5>1. note[i].kind \in {"schema", "catalog"}
          BY <2>1, <2>8, <4>3, NoneNot DEF RowKin, ParentKind
        <5>2. {note[x].made, k.n} \in met \/ \E y \in 1..(1 - 1) : Covers(k.todo[y], x, i)
          BY <1>0, <3>2, <4>1, <4>2, <4>3, <5>1 DEF CoverOK
        <5>3. 1..(1 - 1) = {}
          OBVIOUS
        <5> QED BY <5>2, <5>3
      <4> QED BY <1>0, <2>5, <4>1, <4>3 DEF LostKin
    <3> QED BY <3>1, <3>2
  <2>10. RowsKin(c)
    BY <1>1, <2>4, <2>5, <2>6, <2>7, <2>9 DEF RowsKin, KinGrows
  <2>11. PICK more : more = << >>
    OBVIOUS
  <2>12. more \in Seq(Step) /\ DOMAIN more = {} /\ Proceed(c, more)
    BY <1>4, <2>11
  <2>13. PICK k : k = call[c]
    OBVIOUS
  <2>14. ASSUME NEW x \in Live(db'), NEW p \in Id, x \in Live(db), db.objs[x].parent = p, Covers(k.todo[1], x, p)
         PROVE  FALSE
    <3>1. x = On(c)
      <4>1. PICK u : u = k.todo[1]
        OBVIOUS
      <4>2. u[1] = "dropRow" /\ u[2] = On(c)
        BY <1>0, <2>13, <4>1
      <4>3. u = <<"dropRow", x>>
        BY <2>14, <4>1, <4>2 DEF Covers
      <4> QED BY <4>2, <4>3
    <3>2. x # i
      BY <2>6
    <3>3. db.objs[x].kind = "catalog"
      BY <2>1, <2>8, <2>14, <3>1, <3>2
    <3> QED BY <2>8, <2>14, <3>3, NoneNot DEF RowKin
  <2>15. FrontOK(k, more)
    BY <2>12, <2>14 DEF FrontOK
  <2> QED BY <1>0, <1>1, <2>4, <2>10, <2>12, <2>13, <2>15, DeleteKin
<1> QED BY <1>2, <1>3, <1>4 DEF DropOne

\* What lies below a schema or a catalog.
LEMMA BelowIs ==
  ASSUME TInv, RowsInv, KinInv, NEW i \in Live(db), NEW p \in Id, db.objs[i].parent = p
  PROVE  /\ note[i].kind = db.objs[i].kind
         /\ note[p].kind \in {"schema", "catalog"}
         /\ note[p].kind = "schema" => note[i].kind \in {"table", "volume", "function", "model"}
         /\ note[p].kind = "catalog" => note[i].kind = "schema"
<1>1. i \in Id /\ note[i].kind = db.objs[i].kind /\ RowKin(i) /\ p # None
  BY LiveIs, NoneNot DEF KinInv, RowsInv, RowOK
<1>2. db.objs[i].kind \in Kinds
  <2>1. db.objs \in [Id -> Object \cup {NoObject}]
    BY DEF TInv, TypeOK, Database
  <2> QED BY <1>1, <2>1, LiveIs DEF Object
<1>3. note[p].kind = ParentKind(db.objs[i].kind) /\ db.objs[i].kind # "catalog"
  BY <1>1 DEF RowKin
<1> QED BY <1>1, <1>2, <1>3 DEF ParentKind, Kinds, Leaves

LEMMA CheckEmptyKin ==
  ASSUME TInv, TInv', RowsInv, KinInv, NEW c \in Client, Outside, CheckEmpty(c)
  PROVE  KinInv'
<1>0. /\ call[c].todo # << >> /\ call[c].todo[1][1] = "empty" /\ On(c) \in Id /\ ~Doing(c, "row")
      /\ PlainOK(call[c], call[c].todo[1]) /\ call[c].todo[1][2] = On(c) /\ Req(c).op = "delete"
  <2>1. Doing(c, "empty") /\ ~Doing(c, "row")
    BY DEF CheckEmpty, Doing
  <2> QED BY <2>1, AtStep, HeadOK, OpOf DEF Single
<1>1. UNCHANGED <<begun, met>>
  BY DEF Outside
<1>2. CASE Fails(c)
  BY <1>0, <1>1, <1>2, FailsKin
<1>3. ASSUME ~Fails(c) PROVE KinInv'
  <2>1. PICK full \in BOOLEAN : /\ full <=> \E x \in Live(db) : db.objs[x].parent = On(c)
                                /\ Proceed(c, Emptying(full, Req(c).kind, On(c))) /\ Unwritten
    BY <1>3 DEF CheckEmpty, Emptying
  <2>2. PICK more, i, kind : more = Emptying(full, kind, i) /\ i = On(c) /\ kind = Req(c).kind
    OBVIOUS
  <2>3. /\ more \in Seq(Step)
        /\ ~full => Len(more) = 2 /\ more[1] = <<"dropProps", i>> /\ more[2] = <<"dropRow", i>>
        /\ full /\ kind # "schema" =>
             Len(more) = 3 /\ more[1] = <<"list", i, "schema">> /\ more[2] = <<"dropProps", i>> /\ more[3] = <<"dropRow", i>>
        /\ full /\ kind = "schema" =>
             /\ Len(more) = 6
             /\ more[1] = <<"list", i, "table">> /\ more[2] = <<"list", i, "volume">>
             /\ more[3] = <<"list", i, "function">> /\ more[4] = <<"list", i, "model">>
             /\ more[5] = <<"dropProps", i>> /\ more[6] = <<"dropRow", i>>
    BY <1>0, <2>2, EmptyingIs
  <2>4. note[i].kind = kind
    BY <1>0, <2>2 DEF PlainOK, Req
  <2>5. DOMAIN more = 1..Len(more)
    <3> HIDE DEF Step
    <3> QED BY <2>3
  <2>6. PICK k : k = call[c]
    OBVIOUS
  <2>7. ASSUME NEW j \in DOMAIN more, NEW p \in Id, more[j] = <<"dropRow", p>>,
               NEW x \in Live(db), db.objs[x].parent = p
        PROVE  \E y \in 1..(j - 1) : Covers(more[y], x, p)
    <3>1. more[j][1] = "dropRow" /\ more[j][2] = p
      BY <2>7
    <3>2. p = i
      BY <2>3, <2>5, <3>1
    <3>3. full
      BY <2>1, <2>2, <2>7, <3>2
    <3>4. CASE kind = "schema"
      <4>1. j = 6
        BY <2>3, <2>5, <3>1, <3>3, <3>4
      <4>2. note[x].kind \in {"table", "volume", "function", "model"}
        BY <2>4, <2>7, <3>2, <3>4, BelowIs
      <4>3. \E y \in 1..4 : more[y] = <<"list", p, note[x].kind>>
        BY <2>3, <3>2, <3>3, <3>4, <4>2
      <4> QED BY <4>1, <4>3 DEF Covers
    <3>5. CASE kind # "schema"
      <4>1. j = 3
        BY <2>3, <2>5, <3>1, <3>3, <3>5
      <4>2. note[x].kind = "schema"
        BY <2>4, <2>7, <3>2, <3>5, BelowIs
      <4>3. Covers(more[1], x, p)
        BY <2>3, <3>2, <3>3, <3>5, <4>2 DEF Covers
      <4> QED BY <4>1, <4>3
    <3> QED BY <3>4, <3>5
  <2>8. \A x, p : ~Covers(k.todo[1], x, p)
    <3>1. PICK u : u = k.todo[1]
      OBVIOUS
    <3>2. u[1] = "empty"
      BY <1>0, <2>6, <3>1
    <3> QED BY <3>1, <3>2 DEF Covers
  <2>9. FrontOK(k, more)
    BY <2>7, <2>8 DEF FrontOK
  <2>10. RowsKin(c) /\ \A x \in Id : note'[x].kind = note[x].kind
    BY <1>1, <2>1, UnwrittenStill, StillRows DEF Still
  <2>11. Proceed(c, more) /\ more \in Seq(Step)
    BY <2>1, <2>2, <2>3
  <2> QED BY <1>0, <1>1, <2>6, <2>9, <2>10, <2>11, DeleteKin
<1> QED BY <1>2, <1>3

LEMMA ListChildrenKin ==
  ASSUME TInv, TInv', RowsInv, KinInv, NEW c \in Client, Outside, ListChildren(c)
  PROVE  KinInv'
<1>0. /\ call[c].todo # << >> /\ On(c) \in Id /\ Head(call[c].todo) = call[c].todo[1] /\ call[c].todo[1][3] \in Below
      /\ call[c].todo[1][1] = "list" /\ call[c].todo[1][2] = On(c) /\ Req(c).op = "delete" /\ ~Doing(c, "row")
  <2>1. Doing(c, "list") /\ ~Doing(c, "row")
    BY DEF ListChildren, Doing
  <2> QED BY <2>1, AtStep, Working, OpOf
<1>1. UNCHANGED <<begun, met>> /\ Unwritten
  BY DEF Outside, ListChildren
<1>2. PICK k, kind, S : k = call[c] /\ kind = k.todo[1][3] /\ S = Under(db, On(c), kind)
  OBVIOUS
<1>3. S \in SUBSET Id
  BY <1>2, LiveIs DEF Under
<1>4. PICK more : more = Each(S, kind)
  OBVIOUS
<1>5. /\ more \in Seq(Step)
      /\ S = {} => DOMAIN more = {}
      /\ S # {} => DOMAIN more = {1} /\ more[1] = <<"each", S, kind>>
  <2>1. /\ more \in Seq(Step)
        /\ S = {} => Len(more) = 0
        /\ S # {} => Len(more) = 1 /\ more[1] = <<"each", S, kind>>
    BY <1>0, <1>2, <1>3, <1>4, EachIs, ZenonT(60)
  <2>2. DOMAIN more = 1..Len(more)
    <3> HIDE DEF Step
    <3> QED BY <2>1
  <2> QED BY <2>1, <2>2
<1>6. Proceed(c, more)
  BY <1>0, <1>2, <1>4 DEF ListChildren
<1>7. \A j \in DOMAIN more : more[j][1] = "each"
  BY <1>5
<1>8. ASSUME NEW x \in Live(db), NEW p \in Id, db.objs[x].parent = p, Covers(k.todo[1], x, p)
      PROVE  \E y \in DOMAIN more : Covers(more[y], x, p)
  <2>1. PICK u : u = k.todo[1]
    OBVIOUS
  <2>2. u[1] = "list" /\ u[2] = On(c) /\ u[3] = kind
    BY <1>0, <1>2, <2>1
  <2>3. u = <<"list", p, note[x].kind>>
    BY <1>8, <2>1, <2>2 DEF Covers
  <2>4. p = On(c) /\ note[x].kind = kind
    BY <2>2, <2>3
  <2>5. x \in S
    BY <1>2, <1>8, <2>4, BelowIs DEF Under
  <2>6. 1 \in DOMAIN more /\ more[1][1] = "each" /\ more[1][2] = S
    BY <1>5, <2>5
  <2> QED BY <2>5, <2>6 DEF Covers
<1>9. FrontOK(k, more)
  <2>1. \A j \in DOMAIN more : \A p : more[j] # <<"dropRow", p>>
    BY <1>7
  <2> QED BY <1>8, <2>1 DEF FrontOK
<1>10. RowsKin(c) /\ \A x \in Id : note'[x].kind = note[x].kind
  BY <1>1, UnwrittenStill, StillRows DEF Still
<1> QED BY <1>0, <1>1, <1>2, <1>5, <1>6, <1>9, <1>10, DeleteKin

LEMMA NextChildKin ==
  ASSUME TInv, TInv', RowsInv, KinInv, NEW c \in Client, Outside, NextChild(c)
  PROVE  KinInv'
<1>0. /\ call[c].todo # << >> /\ On(c) \in SUBSET Id /\ Head(call[c].todo) = call[c].todo[1] /\ call[c].todo[1][3] \in Below
      /\ call[c].todo[1][1] = "each" /\ call[c].todo[1][2] = On(c) /\ Req(c).op = "delete" /\ ~Doing(c, "row")
      /\ \A i \in On(c) : note[i].kind = call[c].todo[1][3]
  <2>1. Doing(c, "each") /\ ~Doing(c, "row")
    BY DEF NextChild, Doing
  <2>2. PlainOK(call[c], call[c].todo[1]) /\ call[c].todo[1][1] = "each" /\ call[c].todo[1][2] = On(c)
    BY <2>1, HeadOK
  <2> QED BY <2>1, <2>2, AtStep, Working, OpOf DEF PlainOK
<1>1. UNCHANGED <<begun, met>> /\ Unwritten
  BY DEF Outside, NextChild
<1>2. PICK k, kind : k = call[c] /\ kind = k.todo[1][3]
  OBVIOUS
<1>3. PICK i \in On(c) : Proceed(c, CascadeSteps(kind, i) \o Each(On(c) \ {i}, kind))
  BY <1>0, <1>2 DEF NextChild
<1>4. PICK R, a, t, more : R = On(c) \ {i} /\ a = CascadeSteps(kind, i) /\ t = Each(R, kind) /\ more = a \o t
  OBVIOUS
<1>5. i \in Id /\ R \in SUBSET Id /\ kind \in Below /\ Proceed(c, more) /\ note[i].kind = kind
  BY <1>0, <1>2, <1>3, <1>4
<1>6. /\ kind = "schema" =>
           /\ a \in Seq(Step) /\ Len(a) = 6
           /\ a[1] = <<"list", i, "table">> /\ a[2] = <<"list", i, "volume">>
           /\ a[3] = <<"list", i, "function">> /\ a[4] = <<"list", i, "model">>
           /\ a[5] = <<"dropProps", i>> /\ a[6] = <<"dropRow", i>>
      /\ kind = "table" =>
           /\ a \in Seq(Step) /\ Len(a) = 3
           /\ a[1] = <<"dropParts", i>> /\ a[2] = <<"dropProps", i>> /\ a[3] = <<"dropRow", i>>
      /\ kind \in {"volume", "function", "model"} => a \in Seq(Step) /\ Len(a) = 1 /\ a[1] = <<"dropRow", i>>
  BY <1>4, <1>5, CascadeStepsAre
<1>7. kind = "schema" =>
         /\ Len(a) = 6
         /\ a[1] = <<"list", i, "table">> /\ a[2] = <<"list", i, "volume">>
         /\ a[3] = <<"list", i, "function">> /\ a[4] = <<"list", i, "model">>
         /\ a[5][1] = "dropProps" /\ a[6][1] = "dropRow"
         /\ a[1][1] = "list" /\ a[2][1] = "list" /\ a[3][1] = "list" /\ a[4][1] = "list"
  BY <1>6
<1>8. kind \in {"schema", "table", "volume", "function", "model"}
  BY <1>5 DEF Below, Leaves
<1>9. /\ t \in Seq(Step)
      /\ R = {} => Len(t) = 0
      /\ R # {} => Len(t) = 1 /\ t[1] = <<"each", R, kind>>
  BY <1>4, <1>5, EachIs
<1>10. (R = {} => Len(t) = 0) /\ (R # {} => Len(t) = 1 /\ t[1] = <<"each", R, kind>>)
  BY <1>9
<1>11. a \in Seq(Step) /\ DOMAIN t = 1..Len(t) /\ Len(a) \in Nat /\ Len(t) \in Nat
  <2>1. a \in Seq(Step)
    BY <1>6, <1>8
  <2> HIDE DEF Step
  <2> QED BY <1>9, <2>1
<1>12. /\ more \in Seq(Step) /\ Len(more) = Len(a) + Len(t)
       /\ \A j \in 1..Len(a) : more[j] = a[j]
       /\ \A j \in 1..Len(t) : more[j + Len(a)] = t[j]
  BY ONLY <1>4, <1>9, <1>11, Joined
<1>13. DOMAIN more = 1..(Len(a) + Len(t))
  <2> HIDE DEF Step
  <2> QED BY <1>12
<1>14. ASSUME NEW j \in DOMAIN more, NEW p \in Id, more[j] = <<"dropRow", p>>, note[p].kind \in {"schema", "catalog"},
              NEW x \in Live(db), db.objs[x].parent = p
       PROVE  \E y \in 1..(j - 1) : Covers(more[y], x, p)
  <2>1. more[j][1] = "dropRow" /\ more[j][2] = p
    BY <1>14
  <2>2. j \in 1..Len(a)
    <3>1. ASSUME j \notin 1..Len(a) PROVE FALSE
      <4>1. j - Len(a) \in 1..Len(t) /\ (j - Len(a)) + Len(a) = j
        BY <1>11, <1>13, <3>1
      <4>2. more[j] = t[j - Len(a)]
        BY <1>12, <4>1
      <4>3. j - Len(a) = 1 /\ R # {}
        <5>1. j \in Nat
          BY <1>11, <1>13
        <5>2. CASE R = {}
          BY <1>10, <1>11, <4>1, <5>1, <5>2
        <5>3. CASE R # {}
          <6>1. j - Len(a) \in 1..1
            BY <1>10, <4>1, <5>3
          <6> QED BY <5>1, <5>3, <6>1, <1>11
        <5> QED BY <5>2, <5>3
      <4>4. more[j][1] = "each"
        BY <1>10, <4>2, <4>3
      <4> QED BY <2>1, <4>4
    <3> QED BY <3>1
  <2>3. a[j][1] = "dropRow" /\ a[j][2] = p
    BY <1>12, <2>1, <2>2
  <2>4. p = i
    BY <1>6, <1>8, <2>2, <2>3
  <2>5. kind = "schema"
    BY <1>5, <1>8, <1>14, <2>4
  <2>6. j = 6
    <3>1. Len(a) = 6
      BY <1>7, <2>5
    <3>2. j \in 1..6
      BY <2>2, <3>1
    <3> QED BY ONLY <1>7, <2>3, <2>5, <3>2
  <2>7. note[x].kind \in {"table", "volume", "function", "model"}
    BY <1>5, <1>14, <2>4, <2>5, BelowIs
  <2>8. \E y \in 1..4 : a[y] = <<"list", p, note[x].kind>>
    BY <1>6, <2>4, <2>5, <2>7
  <2>9. PICK y \in 1..4 : a[y] = <<"list", p, note[x].kind>>
    BY <2>8
  <2>10. more[y] = a[y]
    <3>1. Len(a) = 6
      BY <1>7, <2>5
    <3>2. y \in 1..6
      BY <2>9
    <3> QED BY <1>12, <3>1, <3>2
  <2> QED BY <2>6, <2>9, <2>10 DEF Covers
<1>15. ASSUME NEW x \in Live(db), NEW p \in Id, Covers(k.todo[1], x, p)
       PROVE  \E y \in DOMAIN more : Covers(more[y], x, p)
  <2>1. PICK u : u = k.todo[1]
    OBVIOUS
  <2>2. u[1] = "each" /\ u[2] = On(c)
    BY <1>0, <1>2, <2>1
  <2>3. x \in On(c)
    BY <1>15, <2>1, <2>2 DEF Covers
  <2>4. CASE x = i
    <3>1. \E y \in 1..Len(a) : a[y] = <<"dropRow", i>>
      BY <1>6, <1>8
    <3>2. PICK y \in 1..Len(a) : a[y] = <<"dropRow", i>>
      BY <3>1
    <3>3. more[y] = <<"dropRow", x>> /\ y \in DOMAIN more
      BY <1>11, <1>12, <1>13, <2>4, <3>2
    <3> QED BY <3>3 DEF Covers
  <2>5. CASE x # i
    <3>1. x \in R
      BY <1>4, <2>3, <2>5
    <3>2. Len(t) = 1 /\ t[1] = <<"each", R, kind>>
      BY <1>9, <3>1
    <3>3. 1 + Len(a) \in DOMAIN more /\ more[1 + Len(a)] = t[1]
      BY <1>11, <1>12, <1>13, <3>2
    <3>4. PICK v : v = more[1 + Len(a)]
      OBVIOUS
    <3>5. v[1] = "each" /\ v[2] = R
      BY <3>2, <3>3, <3>4
    <3>6. Covers(v, x, p)
      BY <3>1, <3>5 DEF Covers
    <3> QED BY <3>3, <3>4, <3>6
  <2> QED BY <2>4, <2>5
<1>16. FrontOK(k, more)
  BY <1>14, <1>15 DEF FrontOK
<1>17. RowsKin(c) /\ \A x \in Id : note'[x].kind = note[x].kind
  BY <1>1, UnwrittenStill, StillRows DEF Still
<1> QED BY <1>0, <1>1, <1>2, <1>5, <1>12, <1>16, <1>17, DeleteKin

-----------------------------------------------------------------------------
(* Parents and roots: looks                                                *)

\* A look that finds what the rest of the call is about.
LEMMA LookedKin ==
  ASSUME TInv, TInv', RowsInv, KinInv, NEW c \in Client, Doing(c, "look"), Outside, Unwritten,
         NEW l, Becomes(c, l), l.n = call[c].n, l.req = Req(c),
         l.req.op = "create" => CallKin(l), l.req.op = "delete" => CoverOK(l)'
  PROVE  KinInv'
<1>1. call[c].todo # << >> /\ call[c].n \in Ordinal
  BY Working DEF Doing
<1>2. UNCHANGED <<begun, met>> /\ UNCHANGED <<db, touched, note>>
  BY DEF Outside, Unwritten
<1>3. RowsKin(c)
  BY <1>2, UnwrittenStill, StillRows
<1>4. call'[c] = l
  BY DEF Becomes, TInv, TypeOK
<1>5. Busy(l)
  <2>1. l \in Call /\ (l = Idle \/ Regular(l))
    BY <1>4 DEF TInv, TypeOK
  <2>2. l # Idle
    <3>1. \A n \in Ordinal : n # None
      BY DEF Ordinal, None
    <3> QED BY <1>1, <3>1, IdleCall
  <2> QED BY <2>1, <2>2 DEF Busy
<1>6. CoverOK(l)'
  BY <1>5, OtherCover
<1>7. CallKin(l)'
  <2>1. CASE l.req.op = "create"
    BY <1>2, <2>1 DEF CallKin, Met, UnderOwn, Overlaps
  <2>2. CASE l.req.op # "create"
    BY <2>2 DEF CallKin
  <2> QED BY <2>1, <2>2
<1>8. OwnKin(c)
  BY <1>4, <1>6, <1>7 DEF OwnKin
<1> QED BY <1>1, <1>2, <1>3, <1>8, KinKept

LEMMA LookFailsKin ==
  ASSUME TInv, RowsInv, KinInv, NEW c \in Client, Doing(c, "look"), Outside, Fails(c)
  PROVE  KinInv'
BY FailsKin DEF Doing, Outside

\* Looks of calls that neither create nor delete.
LEMMA LookOtherKin ==
  ASSUME TInv, TInv', RowsInv, KinInv, NEW c \in Client, LookAddVersion(c) \/ LookList(c)
  PROVE  KinInv'
<1>0. Doing(c, "look") /\ Req(c).op \in {"addVersion", "list"} /\ Outside
  BY DEF LookAddVersion, LookList, Looks
<1>1. PICK k : k = call[c]
  OBVIOUS
<1>2. k \in Call /\ k.req = Req(c)
  BY <1>0, <1>1, LookingIs
<1>3. CASE Fails(c)
  BY <1>0, <1>3, LookFailsKin
<1>4. ASSUME NEW l, Becomes(c, l), Unwritten, l.n = k.n, l.req = k.req PROVE KinInv'
  BY <1>0, <1>1, <1>2, <1>4, LookedKin
<1>5. CASE LookAddVersion(c) /\ ~Fails(c)
  <2>1. PICK s, n : call' = [call EXCEPT ![c].todo = s, ![c].number = n] /\ Unwritten
    BY <1>5 DEF LookAddVersion
  <2>2. PICK l : l = [k EXCEPT !.todo = s, !.number = n]
    OBVIOUS
  <2>3. Becomes(c, l) /\ l.n = k.n /\ l.req = k.req
    BY <1>1, <1>2, <2>1, <2>2 DEF Becomes, TInv, TypeOK, Call
  <2> QED BY <1>4, <2>1, <2>3
<1>6. CASE LookList(c) /\ ~Fails(c)
  <2>1. PICK s, p : call' = [call EXCEPT ![c].parent = p, ![c].todo = s] /\ Unwritten
    BY <1>6 DEF LookList
  <2>2. PICK l : l = [k EXCEPT !.parent = p, !.todo = s]
    OBVIOUS
  <2>3. Becomes(c, l) /\ l.n = k.n /\ l.req = k.req
    BY <1>1, <1>2, <2>1, <2>2 DEF Becomes, TInv, TypeOK, Call
  <2> QED BY <1>4, <2>1, <2>3
<1> QED BY <1>3, <1>5, <1>6

\* What is looked up to be dropped at once is a leaf.
LEMMA LookUpKin ==
  ASSUME TInv, TInv', RowsInv, KinInv, NEW c \in Client, NEW op \in {"delete", "rename", "dropVersion"}, LookUp(c, op)
  PROVE  KinInv'
<1>0. Doing(c, "look") /\ Req(c).op = op /\ Outside
  BY DEF LookUp, Looks
<1>1. PICK k : k = call[c]
  OBVIOUS
<1>2. k \in Call /\ k.req = Req(c) /\ k.req \in Request /\ WellFormed(k.req) /\ k.req.kind \in Kinds
  BY <1>0, <1>1, LookingIs DEF Request
<1>3. PICK i : i = FindPath(db, Req(c).kind, Req(c).path)
  OBVIOUS
<1>4. CASE Fails(c)
  BY <1>0, <1>4, LookFailsKin
<1>5. CASE i # None /\ Proceed(c, StepsOn(Req(c), i)) /\ Unwritten /\ UNCHANGED cut
  <2>1. i \in Id /\ note[i].kind = k.req.kind
    <3>1. i \in Live(db) /\ db.objs[i].kind = k.req.kind
      BY <1>2, <1>3, <1>5, FindPathIs
    <3> QED BY <3>1, LiveIs DEF RowsInv, RowOK
  <2>2. PICK s : s = StepsOn(Req(c), i)
    OBVIOUS
  <2>3. /\ s \in Seq(Step) /\ s # << >>
        /\ \/ k.req.op # "delete" /\ Len(s) = 1 /\ s[1] = <<k.req.op, i>>
           \/ k.req.op = "delete" /\ k.req.kind \in {"catalog", "schema"} /\ Len(s) = 1 /\ s[1] = <<"empty", i>>
           \/ /\ k.req.op = "delete" /\ k.req.kind \in Leaves /\ k.req.kind # "table"
              /\ Len(s) = 2 /\ s[1] = <<"dropProps", i>> /\ s[2] = <<"dropRow", i>>
           \/ /\ k.req.op = "delete" /\ k.req.kind = "table"
              /\ Len(s) = 3 /\ s[1] = <<"dropParts", i>> /\ s[2] = <<"dropProps", i>> /\ s[3] = <<"dropRow", i>>
    BY <1>0, <1>2, <2>1, <2>2, StepsOnTyped
  <2>4. PICK l : l = [k EXCEPT !.todo = s]
    OBVIOUS
  <2>5. l.n = k.n /\ l.req = k.req /\ l.todo = s
    BY <1>2, <2>4 DEF Call
  <2>6. Becomes(c, l)
    BY <1>0, <1>1, <1>5, <2>2, <2>3, <2>4, ProceedFromLook
  <2>7. DOMAIN s = 1..Len(s)
    <3> HIDE DEF Step
    <3> QED BY <2>3
  <2>8. ASSUME NEW j \in DOMAIN s, s[j][1] = "dropRow", k.req.op = "delete"
        PROVE  s[j][2] = i /\ k.req.kind \in Leaves
    <3>1. CASE k.req.kind \in {"catalog", "schema"}
      <4>1. j = 1 /\ s[1] = <<"empty", i>>
        BY <2>3, <2>7, <2>8, <3>1 DEF Leaves
      <4> QED BY <2>8, <4>1
    <3>2. CASE k.req.kind \in Leaves
      <4>1. \A m \in DOMAIN s : s[m][2] = i
        BY <2>3, <2>7, <2>8, <3>2 DEF Leaves
      <4> QED BY <3>2, <4>1
    <3> QED BY <1>2, <3>1, <3>2 DEF Kinds
  <2>9. k.req.op = "delete" => CoverOK(l)'
    <3> SUFFICES ASSUME k.req.op = "delete", NEW j \in DOMAIN s, s[j][1] = "dropRow", note'[s[j][2]].kind \in {"schema", "catalog"}
                 PROVE  FALSE
      BY <2>5 DEF CoverOK
    <3>1. s[j][2] = i /\ k.req.kind \in Leaves
      BY <2>8
    <3>2. note'[i].kind = k.req.kind
      BY <1>5, <2>1 DEF Unwritten
    <3> QED BY <3>1, <3>2 DEF Leaves
  <2> QED BY <1>0, <1>1, <1>2, <1>5, <2>5, <2>6, <2>9, LookedKin DEF CallKin
<1> QED BY <1>3, <1>4, <1>5 DEF LookUp

\* The look for a root, if any, comes first.
LEMMA RootsFirst ==
  ASSUME NEW req, WellFormed(req), NEW x \in Id, NEW s, s = CreateSteps(req, x), NEW j \in DOMAIN s, s[j][1] = "root"
  PROVE  j = 1 /\ req.kind \in Managed
<1>1. /\ Chain(s, 1, 7, x)
      /\ \A y : Has(s, y) => /\ y[1] \in {"staged", "root", "row", "parts", "props", "grant", "link"}
                             /\ y[1] = "root" => "managed" \in req.opts /\ req.staged = None
                             /\ y[1] = "staged" => req.staged # None
  <2>1. Chain(s, 1, 7, x)
    BY CreateStepsAre
  <2>2. ASSUME NEW y, Has(s, y)
        PROVE  \/ y[1] = "staged" /\ req.staged # None
               \/ y[1] = "root" /\ "managed" \in req.opts /\ req.staged = None
               \/ y[1] \in {"row", "parts", "props", "grant", "link"}
    <3>1. \/ y = <<"staged", x>> /\ req.staged # None
          \/ y = <<"root", x>> /\ "managed" \in req.opts /\ req.staged = None
          \/ \E what \in {"row", "parts", "props", "grant", "link"} : y = <<what, x>>
      BY <2>2, CreateStepsAre
    <3> QED BY <3>1
  <2> QED BY <2>1, <2>2
<1>2. "managed" \in req.opts /\ req.staged = None
  BY <1>1 DEF Has
<1>3. DOMAIN s = 1..Len(s) /\ Len(s) \in Nat
  BY <1>1 DEF Chain
<1>4. j # 1 => 1 \in DOMAIN s /\ 1 < j
  BY <1>3
<1>5. ASSUME j # 1 PROVE FALSE
  <2>1. PICK w : w = s[1][1]
    OBVIOUS
  <2>2. w \in {"root", "row", "parts", "props", "grant", "link"}
    BY <1>1, <1>2, <1>4, <1>5, <2>1 DEF Has
  <2>3. Rank(w) < Rank("root")
    BY <1>1, <1>4, <1>5, <2>1 DEF Chain
  <2>4. Rank("root") = 2 /\ Rank("row") = 3 /\ Rank("parts") = 4 /\ Rank("props") = 5 /\ Rank("grant") = 6 /\ Rank("link") = 7
    BY DEF Rank
  <2> QED BY <2>2, <2>3, <2>4
<1> QED BY <1>2, <1>5 DEF WellFormed, Managed

LEMMA LookCreateKin ==
  ASSUME TInv, TInv', RowsInv, KinInv, NEW c \in Client, LookCreate(c)
  PROVE  KinInv'
<1> DEFINE parent == IF Req(c).kind = "catalog" THEN None ELSE FindParent(db, Req(c).kind, Req(c).path)
           i == IF Req(c).staged # None THEN Req(c).staged ELSE nextId
<1>0. Doing(c, "look") /\ Req(c).op \in {"create", "stage"} /\ Outside
  BY DEF LookCreate, Looks
<1>1. PICK k : k = call[c]
  OBVIOUS
<1>2. k.req = Req(c) /\ k \in Call /\ k.req \in Request /\ WellFormed(k.req)
  BY <1>0, <1>1, LookingIs
<1>3. CASE Fails(c)
  BY <1>0, <1>3, LookFailsKin
<1>4. CASE /\ parent # None \/ Req(c).kind = "catalog"
           /\ i <= MaxId
           /\ call' = [call EXCEPT ![c].parent = parent,
                                   ![c].todo = IF Req(c).op = "create" THEN CreateSteps(Req(c), i)
                                               ELSE <<<<"stageRow", i>>, <<"grant", i>>>>]
           /\ Unwritten
  <2>1. PICK x : x = i
    OBVIOUS
  <2>2. x \in Id
    <3>1. k.req.staged \in Id \cup {None}
      BY <1>2 DEF Request
    <3>2. CASE Req(c).staged # None
      BY <1>2, <2>1, <3>1, <3>2
    <3>3. CASE Req(c).staged = None
      <4>1. x = nextId /\ x <= MaxId /\ MaxId \in Nat
        BY <1>4, <2>1, <3>3, ObjectsAssumption
      <4>2. nextId \in 1..(MaxId + 1)
        BY DEF TInv, TypeOK
      <4> QED BY <4>1, <4>2 DEF Id
    <3> QED BY <3>2, <3>3
  <2>3. PICK p : p = parent
    OBVIOUS
  <2>4. PICK s : s = IF Req(c).op = "create" THEN CreateSteps(Req(c), x) ELSE << <<"stageRow", x>>, <<"grant", x>> >>
    OBVIOUS
  <2>5. PICK l : l = [k EXCEPT !.parent = p, !.todo = s]
    OBVIOUS
  <2>6. l.n = k.n /\ l.req = k.req /\ l.todo = s /\ l.parent = p /\ l.from = k.from
    BY <1>2, <2>5 DEF Call
  <2>7. Becomes(c, l)
    BY <1>1, <1>4, <2>1, <2>3, <2>4, <2>5 DEF Becomes, TInv, TypeOK
  <2>8. ASSUME k.req.op = "create" PROVE CallKin(l)
    <3>1. s = CreateSteps(k.req, x)
      BY <1>2, <2>4, <2>8
    <3>2. /\ s \in Seq(Step) /\ s # << >>
          /\ \A j \in DOMAIN s : s[j][1] \in {"staged", "root", "row", "parts", "props", "grant", "link"}
      BY <2>2, <3>1, CreateStepsTyped
    <3>3. s[1][1] # "look"
      BY <3>2
    <3>4. k.from = None
      <4>1. CallKin(k) /\ k.todo[1][1] = "look" /\ k.todo # << >>
        BY <1>0, <1>1, AtStep DEF KinInv
      <4> QED BY <2>8, <4>1 DEF CallKin
    <3>5. k.req.kind = "catalog" <=> p = None
      BY <1>2, <1>4, <2>3
    <3>6. p # None => note[p].kind = ParentKind(k.req.kind) /\ p \in Live(db)
      <4> SUFFICES ASSUME p # None PROVE note[p].kind = ParentKind(k.req.kind) /\ p \in Live(db)
        OBVIOUS
      <4>1. p = FindPath(db, ParentKind(k.req.kind), k.req.path)
        BY <1>2, <2>3, <3>5 DEF FindParent
      <4>2. ParentKind(k.req.kind) \in Kinds
        BY DEF ParentKind, Kinds
      <4>3. p \in Live(db) /\ db.objs[p].kind = ParentKind(k.req.kind)
        BY <4>1, <4>2, FindPathIs
      <4> QED BY <4>3, LiveIs DEF RowsInv, RowOK
    <3>7. \A j \in DOMAIN s : s[j][1] = "root" => j = 1 /\ k.req.kind \in Managed
      BY <1>2, <2>2, <3>1, RootsFirst
    <3>8. s[1][1] = "root" => FindPath(db, "schema", k.req.path) = p
      <4> SUFFICES ASSUME s[1][1] = "root" PROVE FindPath(db, "schema", k.req.path) = p
        OBVIOUS
      <4>1. k.req.kind \in Managed
        <5>1. 1 \in DOMAIN s
          BY <3>2
        <5> QED BY <3>7, <5>1
      <4>2. ParentKind(k.req.kind) = "schema" /\ k.req.kind # "catalog"
        BY <4>1 DEF Managed, ParentKind
      <4> QED BY <1>2, <2>3, <4>2 DEF FindParent
    <3> QED BY <2>6, <3>3, <3>4, <3>5, <3>6, <3>7, <3>8 DEF CallKin, UnderOwn
  <2> QED BY <1>0, <1>1, <1>2, <1>4, <2>6, <2>7, <2>8, LookedKin
<1> QED BY <1>3, <1>4 DEF LookCreate

LEMMA LookKin == ASSUME TInv, TInv', RowsInv, KinInv, NEW c \in Client, Look(c) PROVE KinInv'
BY LookCreateKin, LookUpKin, LookOtherKin DEF Look, LookDelete, LookRename, LookDropVersion

-----------------------------------------------------------------------------
(* Parents and roots: all steps                                            *)

\* What is said of rows and calls stays so when calls only come to overlap.
LEMMA BeginKin == ASSUME TInv, TInv', RowsInv, KinInv, NEW c \in Client, Begin(c) PROVE KinInv'
<1>1. begun + 1 \in Ordinal /\ begun \in Nat /\ begun' = begun + 1
  BY ObjectsAssumption DEF TInv, TypeOK, Begin, Ordinal
<1>2. PICK req \in Requests :
        call' = [call EXCEPT ![c] = [Idle EXCEPT !.n = begun + 1, !.req = req, !.todo = << <<"look", None>> >>]]
  BY DEF Begin
<1>3. PICK l : l = Newcomer(begun + 1, req)
  OBVIOUS
<1>4. l.n = begun + 1 /\ l.from = None /\ l.todo[1] = <<"look", None>> /\ DOMAIN l.todo = {1}
  BY <1>1, <1>3, NewcomerTyped
<1>5. call'[c] = l /\ \A d \in Client : d # c => call'[d] = call[d]
  BY <1>2, <1>3 DEF Newcomer, TInv, TypeOK
<1>6. UNCHANGED <<db, touched, note>> /\ met \subseteq met'
  BY DEF Begin, Unwritten
<1>7. \A i \in Id : RowKin(i)'
  <2> TAKE i \in Id
  <2>1. RowKin(i)
    BY DEF KinInv
  <2> QED BY <1>6, <2>1 DEF RowKin, UnderOwn, Met, Clash
<1>8. ASSUME NEW d \in Client, d # c, NEW k, k = call[d] PROVE CallKin(k)' /\ CoverOK(k)'
  <2>1. CallKin(k)
    BY <1>8 DEF KinInv
  <2>2. CoverOK(k)
    BY <1>8 DEF KinInv
  <2>3. CallKin(k)'
    BY <1>6, <2>1 DEF CallKin, UnderOwn, Met, Overlaps
  <2>4. CoverOK(k)'
    BY <1>6, <2>2 DEF CoverOK, Covers
  <2> QED BY <2>3, <2>4
<1>9. CallKin(l)' /\ CoverOK(l)'
  BY <1>4 DEF CallKin, CoverOK
<1>10. NumbersOK'
  <2>1. \A d \in Client : call[d].n <= begun /\ call[d].n \in Nat
    BY DEF KinInv, NumbersOK, TInv, TypeOK, Call, Ordinal, None
  <2>2. \A d \in Client : call'[d].n <= begun'
    BY <1>1, <1>4, <1>5, <2>1
  <2>3. \A n \in Ordinal : {n} \notin met'
    <3> SUFFICES ASSUME NEW n \in Ordinal, {n} \in met' PROVE FALSE
      OBVIOUS
    <3>1. {n} \notin met
      BY DEF KinInv, NumbersOK
    <3>2. PICK d \in Client : {n} = {call[d].n, begun + 1}
      BY <3>1 DEF Begin
    <3>3. call[d].n = begun + 1
      BY <3>2
    <3> QED BY <1>1, <2>1, <3>3
  <2> QED BY <2>2, <2>3 DEF NumbersOK
<1>11. \A d \in Client : \A k \in {call'[d]} : CallKin(k)' /\ CoverOK(k)'
  BY <1>5, <1>8, <1>9
<1> QED BY <1>7, <1>10, <1>11 DEF KinInv

LEMMA WorkKin == ASSUME TInv, TInv', RowsInv, KinInv, NEW c \in Client, Work(c) PROVE KinInv'
<1>1. Outside
  BY DEF Work
<1>2. CASE \/ StagedTable(c) \/ FindRoot(c) \/ CreateRow(c) \/ GrantOwner(c) \/ DropOne(c) \/ CheckEmpty(c)
           \/ ListChildren(c) \/ NextChild(c) \/ Rename(c) \/ ReadPage(c) \/ Answer(c) \/ DropParts(c) \/ DropProps(c)
  BY <1>1, <1>2, StagedTableKin, FindRootKin, CreateRowKin, GrantOwnerKin, DropOneKin, CheckEmptyKin,
     ListChildrenKin, NextChildKin, RenameKin, ReadPageKin, AnswerKin, DropHangingKin
<1>3. CASE \/ AddParts(c) \/ SetProps(c) \/ LinkChild(c)
           \/ PutVersion(c) \/ SetMax(c) \/ DropVersion(c) \/ MarkCommitted(c) \/ StageRow(c)
  <2>1. Req(c).op # "delete"
    <3>1. PICK what \in {"parts", "props", "link", "version", "max", "dropVersion", "mark", "stageRow"} : Doing(c, what)
      BY <1>3 DEF AddParts, SetProps, LinkChild, PutVersion, SetMax, DropVersion, MarkCommitted, StageRow
    <3> QED BY <3>1, OpOf
  <2> QED BY <1>1, <1>3, <2>1, HangingKin
<1> QED BY <1>2, <1>3 DEF Work

LEMMA InterruptKin == ASSUME TInv, RowsInv, KinInv, NEW c \in Client, Interrupt(c) PROVE KinInv'
BY FailsKin DEF Interrupt

LEMMA NextKin == TInv /\ TInv' /\ RowsInv /\ KinInv /\ [Next]_vars => KinInv'
<1> SUFFICES ASSUME TInv, TInv', RowsInv, KinInv, [Next]_vars PROVE KinInv'
  OBVIOUS
<1>1. CASE UNCHANGED vars \/ DeleteUser
  <2>1. UNCHANGED <<db, call, begun, met, touched, note>>
    BY <1>1 DEF vars, DeleteUser, Unwritten
  <2>2. \A i \in Id : RowKin(i)'
    <3> TAKE i \in Id
    <3>1. RowKin(i)
      BY DEF KinInv
    <3> QED BY <2>1, <3>1 DEF RowKin, UnderOwn, Met, Clash
  <2>3. ASSUME NEW d \in Client, NEW k, k = call[d] PROVE CallKin(k)' /\ CoverOK(k)'
    <3>1. CallKin(k)
      BY <2>3 DEF KinInv
    <3>2. CoverOK(k)
      BY <2>3 DEF KinInv
    <3>3. CallKin(k)'
      BY <2>1, <3>1 DEF CallKin, UnderOwn, Met, Overlaps
    <3>4. CoverOK(k)'
      BY <2>1, <3>2 DEF CoverOK, Covers
    <3> QED BY <3>3, <3>4
  <2>4. NumbersOK'
    BY <2>1 DEF KinInv, NumbersOK
  <2> QED BY <2>1, <2>2, <2>3, <2>4 DEF KinInv
<1>2. ASSUME NEW c \in Client, Begin(c) \/ Look(c) \/ Work(c) \/ Interrupt(c) PROVE KinInv'
  BY <1>2, BeginKin, LookKin, WorkKin, InterruptKin
<1> QED BY <1>1, <1>2 DEF Next

LEMMA InitKin == Init => KinInv
<1> SUFFICES ASSUME Init PROVE KinInv
  OBVIOUS
<1>1. /\ db = Seed /\ call = [c \in Client |-> Idle] /\ met = {} /\ begun = 0
      /\ \A i \in Id : note[i].kind = Seed.objs[i].kind /\ note[i].made = None
  BY DEF Init, NoNote
<1>2. \A c \in Client : call[c] = Idle
  BY <1>1
<1>3. CallKin(Idle) /\ CoverOK(Idle) /\ Idle.n = None
  BY DEF Idle, CallKin, CoverOK, NoRequest
<1>4. NumbersOK
  BY <1>1, <1>2, <1>3 DEF NumbersOK, None
<1>5. ASSUME NEW i \in Id PROVE RowKin(i)
  <2> SUFFICES ASSUME i \in Live(db) PROVE RowKin(i)
    BY DEF RowKin
  <2>1. PICK p : p = Seed.objs[i].parent
    OBVIOUS
  <2>2. SeedRow(i) /\ i \in Seeded
    BY <1>1, ObjectsAssumption DEF Live, Seeded
  <2>3. /\ IF Seed.objs[i].kind = "catalog" THEN p = None ELSE p \in Seeded /\ Seed.objs[p].kind = ParentKind(Seed.objs[i].kind)
        /\ Seed.objs[i].from \in {None, p} \/ (p \in Seeded /\ Seed.objs[i].from = Seed.objs[p].parent)
    BY <2>1, <2>2 DEF SeedRow
  <2>4. p \in Seeded => p \in Live(db) /\ p \in Id /\ p # None
    BY <1>1, NoneNot DEF Live, Seeded
  <2> QED BY <1>1, <2>1, <2>3, <2>4 DEF RowKin, UnderOwn
<1> QED BY <1>2, <1>3, <1>4, <1>5 DEF KinInv

FamilyInv == ObjectsInv /\ KinInv

LEMMA FamilyStep == FamilyInv /\ [Next]_vars => FamilyInv'
BY InvStep, NextKin DEF FamilyInv, ObjectsInv

LEMMA FamilyInit == Init => FamilyInv
BY InvInit, InitKin DEF FamilyInv

LEMMA ParentsAreThere == FamilyInv => NoOrphans
<1> SUFFICES ASSUME FamilyInv, NEW i \in Live(db), NEW p, p = db.objs[i].parent, p # None, p \notin Live(db)
             PROVE  Disturbed(p)
  BY DEF NoOrphans
<1>1. RowKin(i)
  BY LiveIs DEF FamilyInv, KinInv
<1>2. Clash(p)
  BY <1>1 DEF RowKin
<1> QED BY <1>2 DEF Clash, Disturbed

\* No object loses its parent, although foreign keys are not enforced and
\* deletes go through the children by hand (delete_schema_children, the checks
\* without force), unless two calls that ran at once have written about the
\* parent.  A call that is interrupted or still at it leaves no orphan behind.
THEOREM ParentsStay == Spec => []NoOrphans
BY FamilyInit, FamilyStep, ParentsAreThere, PTL DEF Spec

LEMMA RootsAreOwn == FamilyInv => RootOfOwnChain
<1> SUFFICES ASSUME FamilyInv, NEW i \in Live(db)
             PROVE  \/ UnderOwn(db.objs[i].from, db.objs[i].parent)
                    \/ \E x \in Ordinal : {x, note[i].made} \in met
  BY DEF RootOfOwnChain, UnderOwn
<1>1. RowKin(i)
  BY LiveIs DEF FamilyInv, KinInv
<1> QED BY <1>1 DEF RowKin, Met

\* resolve_storage_root looks up again the names that the creation looked up
\* before: what it finds is the schema and catalog of the object itself, unless
\* another call ran in between.
THEOREM RootsStayOwn == Spec => []RootOfOwnChain
BY FamilyInit, FamilyStep, RootsAreOwn, PTL DEF Spec

=============================================================================
