---------------------------- MODULE Access_proofs -----------------------------
(***************************************************************************)
(* Users, grants and enforcers for any number of replicas, clients, users, *)
(* names, privileges and catalogs.                                         *)
(***************************************************************************)
EXTENDS Access, TLAPS, FiniteSetTheorems

-----------------------------------------------------------------------------
(* Lookups                                                                 *)

\* Ids are well ordered: among the sets of the ids up to one in S, finite all,
\* one has no other below it.
LEMMA LeastIs ==
  ASSUME NEW n \in Nat, NEW S \in SUBSET (1..n), S # {}
  PROVE  Least(S) \in S /\ \A j \in S : Least(S) <= j
<1> DEFINE upTo(i) == {j \in S : j <= i}
           T == {upTo(i) : i \in S}
<1>0. \A i \in S : i \in Int
  OBVIOUS
<1>1. T \subseteq FiniteSubsetsOf(S) /\ T # {}
  <2>1. IsFiniteSet(1..n)
    BY FS_Interval
  <2>2. \A U \in SUBSET S : IsFiniteSet(U)
    BY <2>1, FS_Subset
  <2> QED BY <2>2 DEF FiniteSubsetsOf
<1>2. PICK x \in T : \A y \in T : ~(<<y, x>> \in StrictSubsetOrdering(S))
  <2> HIDE DEF T
  <2> QED BY <1>1, FS_StrictSubsetOrderingWellFounded, WFMin
<1>3. PICK i \in S : x = upTo(i)
  BY <1>2
<1>4. ASSUME NEW j \in S, ~(i <= j)
      PROVE  FALSE
  <2>1. i \in Int /\ j \in Int /\ j < i
    BY <1>0, <1>4
  <2>2. upTo(j) \subseteq upTo(i)
    <3> SUFFICES ASSUME NEW k \in S, k <= j
                 PROVE  k <= i
      OBVIOUS
    <3>1. k \in Int
      BY <1>0
    <3> QED BY <2>1, <3>1
  <2>3. i \notin upTo(j) /\ i \in upTo(i)
    BY <2>1
  <2>4. upTo(j) # upTo(i) /\ upTo(j) \in T /\ upTo(j) \in SUBSET S /\ upTo(i) \in SUBSET S
    BY <2>3
  <2> HIDE DEF upTo, T
  <2> QED BY <1>2, <1>3, <2>2, <2>4 DEF StrictSubsetOrdering
<1> QED BY <1>4 DEF Least

LEMMA FirstIs ==
  ASSUME NEW S \in SUBSET UserId
  PROVE  /\ S = {} => First(S) = NoId
         /\ S # {} => First(S) \in S /\ \A j \in S : First(S) <= j
         /\ First(S) \in UserId \cup {NoId}
         /\ First(S) = NoId => S = {}
<1>1. MaxUsers \in Nat
  BY AccessAssumption
<1>2. S # {} => First(S) \in S /\ \A j \in S : First(S) <= j
  BY <1>1, LeastIs DEF First, UserId
<1>3. NoId \notin UserId
  BY <1>1 DEF NoId, UserId
<1> QED BY <1>2, <1>3 DEF First

LEMMA LookupsTyped ==
  ASSUME NEW d, NEW n
  PROVE  /\ ByEmail(d, n) \in UserId \cup {NoId}
         /\ ByExternalId(d, n) \in UserId \cup {NoId}
         /\ GetUser(d, n) \in UserId \cup {NoId}
BY FirstIs DEF ByEmail, ByExternalId, GetUser, Live

-----------------------------------------------------------------------------
(* Types                                                                   *)

LEMMA PutUserTyped ==
  ASSUME NEW d \in Database, NEW i \in UserId, NEW row \in Profile
  PROVE  /\ PutUser(d, i, row) \in Database
         /\ PutUser(d, i, row).users = [d.users EXCEPT ![i] = row]
         /\ PutUser(d, i, row).byName = [Unnamed(d, i) EXCEPT ![row.name] = i]
         /\ PutUser(d, i, row).rules = d.rules
         /\ Unnamed(d, i) \in [Name -> UserId \cup {NoId}]
<1>1. Unnamed(d, i) \in [Name -> UserId \cup {NoId}]
  BY DEF Database, Unnamed
<1>2. row.name \in Name
  BY DEF Profile
<1> QED BY <1>1, <1>2 DEF PutUser, Database

LEMMA DropUserTyped ==
  ASSUME NEW d \in Database, NEW i \in UserId
  PROVE  /\ DropUser(d, i) \in Database
         /\ DropUser(d, i).users = [d.users EXCEPT ![i] = NoUser]
         /\ DropUser(d, i).byName = Unnamed(d, i)
         /\ DropUser(d, i).rules = d.rules
<1>1. Unnamed(d, i) \in [Name -> UserId \cup {NoId}]
  BY DEF Database, Unnamed
<1> QED BY <1>1 DEF DropUser, Database

LEMMA RuleTyped ==
  /\ Edges \subseteq Rule
  /\ \A u \in UserId, o \in Securable, q \in Privilege : Grant(u, o, q) \in Rule
  /\ \A o \in Catalog : Link(o, Metastore) \in Rule
BY DEF Rule, Edges

LEMMA WithRuleTyped ==
  ASSUME NEW d \in Database, NEW rule \in Rule
  PROVE  /\ WithRule(d, rule) \in Database /\ WithoutRule(d, rule) \in Database
         /\ WithRule(d, rule).rules = d.rules \cup {rule}
         /\ WithoutRule(d, rule).rules = d.rules \ {rule}
         /\ WithRule(d, rule).users = d.users /\ WithoutRule(d, rule).users = d.users
         /\ WithRule(d, rule).byName = d.byName /\ WithoutRule(d, rule).byName = d.byName
BY DEF WithRule, WithoutRule, Database

LEMMA EmptyTyped == EmptyDatabase \in Database /\ EmptyDatabase.rules = {}
BY DEF EmptyDatabase, Database

LEMMA CommitTyped ==
  ASSUME TypeOK, NEW r \in Replica, NEW d \in Database, Commit(r, d)
  PROVE  db' \in Database /\ view' \in [Replica -> Database]
BY DEF TypeOK, Commit

LEMMA FaultTyped == ASSUME TypeOK, Fault PROVE faults' \in 0..MaxFaults
<1>1. MaxFaults \in Nat /\ faults \in Nat
  BY AccessAssumption DEF TypeOK
<1> QED BY <1>1 DEF Fault

\* The rows of users and the ids, as TypeOK has them.
UsersTyped ==
  /\ db \in Database /\ view \in [Replica -> Database]
  /\ maker \in [UserId -> {"none", "start", "token", "scim"}]
  /\ born \in [UserId -> Profile \cup {NoUser}]
  /\ dup \in BOOLEAN

\* The rules, in the rows and in memory.
RulesTyped ==
  /\ db \in Database /\ view \in [Replica -> Database]
  /\ mem \in [Replica -> SUBSET Rule] /\ foreign \in [Replica -> SUBSET Rule]
  /\ ever \subseteq Rule /\ revoked \subseteq Rule
  /\ faults \in 0..MaxFaults

LEMMA NewUserTyped ==
  ASSUME TypeOK, NEW r \in Replica, NEW i \in UserId, NEW row \in Profile,
         NEW by \in {"start", "token", "scim"}, NewUser(r, i, row, by), dup' \in BOOLEAN
  PROVE  UsersTyped' /\ db' = PutUser(db, i, row)
<1>1. db' \in Database /\ view' \in [Replica -> Database] /\ db' = PutUser(db, i, row)
  BY PutUserTyped, CommitTyped DEF NewUser, Commit, TypeOK
<1>2. /\ maker' \in [UserId -> {"none", "start", "token", "scim"}]
      /\ born' \in [UserId -> Profile \cup {NoUser}]
  BY DEF NewUser, TypeOK
<1> QED BY <1>1, <1>2 DEF UsersTyped

LEMMA ProvisionedTyped == \A n \in Name : Provisioned(n) \in Profile
BY DEF Provisioned, Profile

LEMMA AdminTyped == AdminProfile \in Profile
BY AccessAssumption DEF AdminProfile, Profile

LEMMA FindOrCreateTyped ==
  ASSUME TypeOK, NEW r \in Replica, NEW n \in Name, NEW i \in UserId, FindOrCreate(r, n, i)
  PROVE  UsersTyped'
<1>1. CASE UNCHANGED <<db, view, users>>
  BY <1>1 DEF TypeOK, UsersTyped, users
<1>2. CASE NewUser(r, i, Provisioned(n), "token") /\ dup' = (dup \/ NameTaken(db, n))
  <2>1. dup' \in BOOLEAN
    BY <1>2 DEF TypeOK
  <2> QED BY <1>2, <2>1, NewUserTyped, ProvisionedTyped
<1> QED BY <1>1, <1>2 DEF FindOrCreate

LEMMA NoChangeTyped == ASSUME TypeOK, NoChange PROVE RulesTyped'
BY DEF TypeOK, NoChange, RulesTyped, rules

LEMMA AddRuleTyped ==
  ASSUME TypeOK, NEW r \in Replica, NEW rule \in Rule, AddRule(r, rule)
  PROVE  RulesTyped'
<1>1. CASE rule \notin view[r].rules /\ Commit(r, WithRule(db, rule))
  <2>1. db' \in Database /\ view' \in [Replica -> Database]
    BY <1>1, WithRuleTyped, CommitTyped DEF TypeOK
  <2>2. ever' \subseteq Rule /\ revoked' \subseteq Rule
    BY <1>1 DEF AddRule, NoChange, TypeOK, rules
  <2>3. mem' = [mem EXCEPT ![r] = @ \cup {rule}] \/ mem' = mem
    BY <1>1 DEF AddRule
  <2>4. foreign' = Others(r, rule) \/ foreign' = Everyone(rule)
    BY <1>1 DEF AddRule
  <2>5. mem' \in [Replica -> SUBSET Rule]
    BY <2>3 DEF TypeOK
  <2>6. foreign' \in [Replica -> SUBSET Rule]
    BY <2>4 DEF TypeOK, Others, Everyone
  <2>7. faults' \in 0..MaxFaults
    BY <1>1, FaultTyped DEF AddRule, NoChange, TypeOK
  <2> QED BY <2>1, <2>2, <2>5, <2>6, <2>7 DEF RulesTyped
<1> QED BY <1>1, NoChangeTyped DEF AddRule

LEMMA RemoveRuleTyped ==
  ASSUME TypeOK, NEW r \in Replica, NEW rule \in Rule, RemoveRule(r, rule)
  PROVE  RulesTyped'
<1>1. CASE rule \in view[r].rules /\ Commit(r, WithoutRule(db, rule))
  <2>1. db' \in Database /\ view' \in [Replica -> Database]
    BY <1>1, WithRuleTyped, CommitTyped DEF TypeOK
  <2>2. ever' \subseteq Rule /\ revoked' \subseteq Rule
    BY <1>1 DEF RemoveRule, NoChange, TypeOK, rules
  <2>3. foreign' \in [Replica -> SUBSET Rule] /\ mem' \in [Replica -> SUBSET Rule]
    BY <1>1 DEF RemoveRule, NoChange, TypeOK, Others, Everyone, rules
  <2>4. faults' \in 0..MaxFaults
    BY <1>1, FaultTyped DEF RemoveRule, NoChange, TypeOK
  <2> QED BY <2>1, <2>2, <2>3, <2>4 DEF RulesTyped
<1> QED BY <1>1, NoChangeTyped DEF RemoveRule

-----------------------------------------------------------------------------
(* Types are kept.  TypeOK needs a little more to be inductive: what is     *)
(* left to do in a phase of a start, and what a request knows at a stage.   *)

Booting ==
  {b \in [phase : Phase, todo : SUBSET (Edges \cup Operators), user : UserId \cup {NoId}] :
     /\ b.phase = "seed" => b.todo \subseteq Edges
     /\ b.phase \in {"operator", "operatorOwn"} => b.todo \subseteq Operators
     /\ b.phase \in {"own", "operatorOwn"} => b.user \in UserId}

Calling ==
  {k \in Call :
     /\ k.stage \in {"apply", "link", "answer"} => k.target \in UserId
     /\ k.stage \in {"row", "link"} => k.req.op = "create"
     /\ k.stage # "check" => k.caller \in UserId
     /\ k.req.op = "create" => k.req.on \in Catalog}

TInv ==
  /\ UsersTyped /\ RulesTyped
  /\ boot \in [Replica -> Booting]
  /\ call \in [Client -> Calling \cup {Idle}]
  /\ calls \in 0..MaxCalls
  /\ cut \in BOOLEAN

LEMMA TInvTyped == TInv => TypeOK
BY DEF TInv, TypeOK, UsersTyped, RulesTyped, Booting, Calling

\* What a step leaves alone stays typed.
LEMMA SameTyped ==
  ASSUME TInv
  PROVE  /\ UNCHANGED <<db, view, users>> => UsersTyped'
         /\ UNCHANGED <<db, view, rules, faults>> => RulesTyped'
         /\ UNCHANGED users /\ RulesTyped' => UsersTyped'
         /\ UNCHANGED <<rules, faults>> /\ UsersTyped' => RulesTyped'
         /\ UNCHANGED boot => boot' \in [Replica -> Booting]
         /\ UNCHANGED call => call' \in [Client -> Calling \cup {Idle}]
         /\ UNCHANGED calls => calls' \in 0..MaxCalls
         /\ UNCHANGED cut => cut' \in BOOLEAN
BY DEF TInv, UsersTyped, RulesTyped, users, rules

LEMMA BootTyped ==
  ASSUME TInv, NEW r \in Replica, NEW b \in Booting, boot' = [boot EXCEPT ![r] = b]
  PROVE  boot' \in [Replica -> Booting]
BY DEF TInv

LEMMA InitTyped == Init => TInv
<1> SUFFICES ASSUME Init
             PROVE  TInv
  OBVIOUS
<1>0. MaxUsers \in Nat /\ MaxCalls \in Nat /\ MaxFaults \in Nat
  BY AccessAssumption
<1>1. UsersTyped
  <2>1. 1 \in 1..(MaxUsers + 1)
    BY <1>0
  <2> QED BY <2>1, EmptyTyped DEF Init, UsersTyped
<1>2. RulesTyped
  <2>1. 0 \in 0..MaxFaults
    BY <1>0
  <2> QED BY <2>1, EmptyTyped DEF Init, RulesTyped
<1>4. calls \in 0..MaxCalls
  BY <1>0 DEF Init
<1>3. Down \in Booting
  BY DEF Down, Booting, Phase
<1> QED BY <1>1, <1>2, <1>3, <1>4 DEF Init, TInv

LEMMA StartTyped ==
  ASSUME TInv, NEW r \in Replica, Start(r)
  PROVE  TInv'
<1>1. db' \in Database /\ view' \in [Replica -> Database]
  BY DEF Start, TInv, UsersTyped
<1>2. UsersTyped'
  BY <1>1 DEF Start, TInv, UsersTyped, users
<1>3. mem' \in [Replica -> SUBSET Rule] /\ foreign' \in [Replica -> SUBSET Rule]
  BY DEF Start, TInv, RulesTyped, Database
<1>4. RulesTyped'
  BY <1>1, <1>3 DEF Start, TInv, RulesTyped, bounds
<1>5. boot' \in [Replica -> Booting]
  BY BootTyped DEF Start, Booting, Phase
<1> QED BY <1>2, <1>4, <1>5, SameTyped DEF Start, bounds, TInv

LEMMA SeedTyped ==
  ASSUME TInv, NEW r \in Replica, Seed(r)
  PROVE  TInv'
<1>1. PICK edge \in boot[r].todo :
        /\ AddRule(r, edge)
        /\ boot' = [boot EXCEPT ![r].todo = @ \ {edge},
                                ![r].phase = IF boot[r].todo = {edge} THEN "find" ELSE "seed"]
  BY DEF Seed
<1> DEFINE b == [boot[r] EXCEPT !.todo = @ \ {edge},
                                !.phase = IF boot[r].todo = {edge} THEN "find" ELSE "seed"]
<1>2. boot[r] \in Booting /\ boot[r].phase = "seed"
  BY DEF TInv, Seed, At
<1>3. edge \in Edges
  BY <1>2 DEF Booting
<1>4. b \in Booting
  BY <1>2 DEF Booting, Phase
<1>5. boot' \in [Replica -> Booting]
  <2>1. boot' = [boot EXCEPT ![r] = b]
    BY <1>1
  <2> HIDE DEF b
  <2> QED BY <1>4, <2>1, BootTyped
<1>6. RulesTyped'
  BY <1>1, <1>3, RuleTyped, AddRuleTyped, TInvTyped
<1> QED BY <1>5, <1>6, SameTyped DEF Seed, TInv

LEMMA FindAdminTyped ==
  ASSUME TInv, NEW r \in Replica, FindAdmin(r)
  PROVE  TInv'
<1> DEFINE b == IF ByEmail(view[r], Admin) = NoId
                THEN [phase |-> "admin", todo |-> {}, user |-> NoId]
                ELSE [phase |-> "operator", todo |-> Operators, user |-> NoId]
<1>1. b \in Booting
  BY DEF Booting, Phase
<1>2. boot' \in [Replica -> Booting]
  BY <1>1, BootTyped DEF FindAdmin
<1> QED BY <1>2, SameTyped DEF FindAdmin, bounds, TInv

LEMMA HaltTyped ==
  ASSUME TInv, NEW r \in Replica, Halt(r)
  PROVE  /\ boot' \in [Replica -> Booting]
         /\ call' \in [Client -> Calling \cup {Idle}]
         /\ mem' \in [Replica -> SUBSET Rule] /\ foreign' \in [Replica -> SUBSET Rule]
<1>1. Down \in Booting
  BY DEF Down, Booting, Phase
<1> QED BY <1>1, BootTyped DEF Halt, TInv, RulesTyped

LEMMA CreateAdminTyped ==
  ASSUME TInv, NEW r \in Replica, CreateAdmin(r)
  PROVE  TInv'
<1>0. /\ TypeOK
      /\ dup' \in BOOLEAN /\ calls' \in 0..MaxCalls /\ ever' \subseteq Rule /\ revoked' \subseteq Rule
  BY TInvTyped DEF CreateAdmin, TInv, UsersTyped, RulesTyped
<1>1. ASSUME NEW i \in UserId, NewUser(r, i, AdminProfile, "start"),
             boot' = [boot EXCEPT ![r].phase = "own", ![r].user = i],
             UNCHANGED <<mem, foreign, call, faults, cut>>
      PROVE  TInv'
  <2>1. UsersTyped'
    BY <1>0, <1>1, NewUserTyped, AdminTyped
  <2> DEFINE b == [boot[r] EXCEPT !.phase = "own", !.user = i]
  <2>2. b \in Booting
    BY DEF TInv, Booting, Phase
  <2>3. boot' \in [Replica -> Booting]
    <3>1. boot' = [boot EXCEPT ![r] = b]
      BY <1>1
    <3> HIDE DEF b
    <3> QED BY <2>2, <3>1, BootTyped
  <2>4. RulesTyped'
    BY <1>0, <1>1, <2>1 DEF TInv, UsersTyped, RulesTyped
  <2> QED BY <1>0, <1>1, <2>1, <2>3, <2>4, SameTyped DEF TInv
<1>2. ASSUME NEW i \in UserId, NewUser(r, i, AdminProfile, "start"), Fault, cut' = TRUE, Halt(r)
      PROVE  TInv'
  <2>1. UsersTyped'
    BY <1>0, <1>2, NewUserTyped, AdminTyped
  <2>2. RulesTyped'
    BY <1>0, <1>2, <2>1, HaltTyped, FaultTyped DEF UsersTyped, RulesTyped
  <2> QED BY <1>0, <1>2, <2>1, <2>2, HaltTyped DEF TInv
<1>3. CASE Halt(r) /\ UNCHANGED <<db, view, maker, born, faults, cut>>
  <2>1. UsersTyped'
    BY <1>0, <1>3 DEF TInv, UsersTyped
  <2>2. RulesTyped'
    BY <1>0, <1>3, HaltTyped DEF TInv, RulesTyped
  <2> QED BY <1>0, <1>3, <2>1, <2>2, HaltTyped, SameTyped DEF TInv
<1> QED BY <1>1, <1>2, <1>3 DEF CreateAdmin

LEMMA GrantAdminTyped ==
  ASSUME TInv, NEW r \in Replica, GrantAdmin(r)
  PROVE  TInv'
<1>1. boot[r].user \in UserId
  BY DEF TInv, GrantAdmin, At, Booting
<1>2. RulesTyped'
  BY <1>1, RuleTyped, AddRuleTyped, TInvTyped DEF GrantAdmin, Securable, Privilege
<1>3. boot' \in [Replica -> Booting]
  BY BootTyped DEF GrantAdmin, Booting, Phase
<1> QED BY <1>2, <1>3, SameTyped DEF GrantAdmin, TInv

LEMMA FindOperatorTyped ==
  ASSUME TInv, NEW r \in Replica, FindOperator(r)
  PROVE  TInv'
<1>1. PICK n \in boot[r].todo, i \in UserId :
        /\ FindOrCreate(r, n, i)
        /\ boot' = [boot EXCEPT ![r] = [phase |-> "operatorOwn", todo |-> @.todo \ {n}, user |-> i]]
  BY DEF FindOperator
<1>2. boot[r].todo \subseteq Operators
  BY DEF TInv, FindOperator, At, Booting
<1>3. [phase |-> "operatorOwn", todo |-> boot[r].todo \ {n}, user |-> i] \in Booting
  BY <1>2 DEF Booting, Phase
<1>4. boot' \in [Replica -> Booting]
  BY <1>1, <1>3, BootTyped
<1>5. UsersTyped'
  BY <1>1, <1>2, FindOrCreateTyped, AccessAssumption, TInvTyped
<1> QED BY <1>4, <1>5, SameTyped DEF FindOperator, bounds, TInv

LEMMA GrantOperatorTyped ==
  ASSUME TInv, NEW r \in Replica, GrantOperator(r)
  PROVE  TInv'
<1>1. boot[r] \in Booting /\ boot[r].phase = "operatorOwn" /\ boot[r].user \in UserId
  BY DEF TInv, GrantOperator, At, Booting
<1> DEFINE b == [boot[r] EXCEPT !.phase = "operator", !.user = NoId]
<1>2. b \in Booting
  BY <1>1 DEF Booting, Phase
<1>3. boot' \in [Replica -> Booting]
  <2>1. boot' = [boot EXCEPT ![r] = b]
    BY DEF GrantOperator
  <2> HIDE DEF b
  <2> QED BY <1>2, <2>1, BootTyped
<1>4. RulesTyped'
  BY <1>1, RuleTyped, AddRuleTyped, NoChangeTyped, TInvTyped DEF GrantOperator, Securable, Privilege
<1> QED BY <1>3, <1>4, SameTyped DEF GrantOperator, TInv

LEMMA ServeTyped ==
  ASSUME TInv, NEW r \in Replica, Serve(r)
  PROVE  TInv'
<1>1. [boot[r] EXCEPT !.phase = "up"] \in Booting
  BY DEF TInv, Booting, Phase
<1>2. boot' \in [Replica -> Booting]
  BY <1>1, BootTyped DEF Serve, Step
<1> QED BY <1>2, SameTyped DEF Serve, bounds, TInv

LEMMA CallTyped ==
  ASSUME TInv, NEW c \in Client, NEW k \in Calling \cup {Idle}, call' = [call EXCEPT ![c] = k]
  PROVE  call' \in [Client -> Calling \cup {Idle}]
BY DEF TInv

\* A request in flight is not Idle.
LEMMA CallIs ==
  ASSUME TInv, NEW c \in Client, call[c].stage # "idle"
  PROVE  call[c] \in Calling
BY DEF TInv, Idle

LEMMA AuthenticateTyped ==
  ASSUME TInv, NEW c \in Client, NEW r \in Replica, Authenticate(c, r)
  PROVE  TInv'
<1>1. PICK req \in Requests, i \in UserId :
        /\ req.op = "create" => req.on \in Catalog /\ Unclaimed(req.on)
        /\ FindOrCreate(r, req.sub, i)
        /\ IF req.op = "login"
           THEN UNCHANGED call
           ELSE call' = [call EXCEPT ![c] = [Idle EXCEPT !.stage = "check", !.req = req, !.at = r,
                                               !.user = i, !.sub = Subject(view'[r].users[i])]]
  BY DEF Authenticate
<1>2. req.sub \in Name
  BY AccessAssumption
<1>3. UsersTyped'
  BY <1>1, <1>2, FindOrCreateTyped, TInvTyped
<1>4. Subject(view'[r].users[i]) \in Name \cup {NoName}
  <2>1. view'[r].users[i] \in Profile \cup {NoUser}
    BY <1>3 DEF UsersTyped, Database
  <2> QED BY <2>1 DEF Subject, Profile, NoUser
<1>5. [Idle EXCEPT !.stage = "check", !.req = req, !.at = r, !.user = i,
                   !.sub = Subject(view'[r].users[i])] \in Calling
  BY <1>1, <1>4 DEF Idle, Calling, Call
<1>6. call' \in [Client -> Calling \cup {Idle}]
  BY <1>1, <1>5, CallTyped, SameTyped
<1>7. calls' \in 0..MaxCalls
  BY AccessAssumption DEF Authenticate, TInv
<1> QED BY <1>3, <1>6, <1>7, SameTyped DEF Authenticate, TInv

LEMMA CheckTyped ==
  ASSUME TInv, NEW c \in Client, Check(c)
  PROVE  TInv'
<1> DEFINE caller == GetUser(view[call[c].at], call[c].sub)
           next == IF call[c].req.op = "create" THEN "row" ELSE "resolve"
           k == [call[c] EXCEPT !.caller = caller, !.stage = next]
<1>1. call[c] \in Calling /\ call[c].stage = "check"
  BY CallIs DEF Check
<1>2. CASE Passes(c, caller) /\ call' = [call EXCEPT ![c].caller = caller, ![c].stage = next]
  <2>1. caller \in UserId
    BY <1>2, LookupsTyped DEF Passes
  <2>2. k \in Calling
    <3> HIDE DEF caller
    <3> QED BY <1>1, <2>1 DEF Calling, Call
  <2>3. call' = [call EXCEPT ![c] = k]
    BY <1>2
  <2> HIDE DEF k
  <2>4. call' \in [Client -> Calling \cup {Idle}]
    BY <2>2, <2>3, CallTyped
  <2> QED BY <2>4, SameTyped DEF Check, bounds, TInv
<1>3. CASE Finish(c)
  <2>1. call' \in [Client -> Calling \cup {Idle}]
    BY <1>3, CallTyped DEF Finish
  <2> QED BY <2>1, SameTyped DEF Check, bounds, TInv
<1> QED BY <1>2, <1>3 DEF Check

LEMMA CreateRowTyped ==
  ASSUME TInv, NEW c \in Client, CreateRow(c)
  PROVE  TInv'
<1>1. call[c] \in Calling /\ call[c].stage = "row"
  BY CallIs DEF CreateRow
<1>2. call[c].req.on \in Catalog /\ call[c].at \in Replica
  BY <1>1 DEF Calling, Call
<1>3. [db EXCEPT !.catalogs = @ \cup {call[c].req.on}] \in Database
  BY <1>2 DEF TInv, UsersTyped, Database
<1>4. db' \in Database /\ view' \in [Replica -> Database]
  BY <1>2, <1>3, TInvTyped, CommitTyped DEF CreateRow
<1>5. UsersTyped'
  BY <1>4 DEF CreateRow, TInv, UsersTyped, users
<1>6. [call[c] EXCEPT !.stage = "resolve"] \in Calling
  BY <1>1 DEF Calling, Call
<1>7. call' \in [Client -> Calling \cup {Idle}]
  BY <1>6, CallTyped DEF CreateRow, Stage
<1>8. RulesTyped'
  BY <1>4 DEF CreateRow, TInv, RulesTyped, rules, bounds
<1> QED BY <1>5, <1>7, <1>8, SameTyped DEF CreateRow, bounds, TInv

LEMMA ResolveTyped ==
  ASSUME TInv, NEW c \in Client, Resolve(c)
  PROVE  TInv'
<1> DEFINE r == call[c].at
           req == call[c].req
           n == IF req.op = "create" THEN call[c].sub ELSE req.who
           found == GetUser(view[r], n)
           For(i) == call' = [call EXCEPT ![c].stage = "apply", ![c].target = i]
<1>1. call[c] \in Calling /\ call[c].stage = "resolve"
  BY CallIs DEF Resolve
<1>2. r \in Replica /\ req \in Requests /\ req.who \in Name
  BY <1>1, AccessAssumption DEF Calling, Call
<1>3. ASSUME NEW i \in UserId, For(i)
      PROVE  call' \in [Client -> Calling \cup {Idle}]
  <2> DEFINE k == [call[c] EXCEPT !.stage = "apply", !.target = i]
  <2>1. k \in Calling
    BY <1>1 DEF Calling, Call
  <2>2. call' = [call EXCEPT ![c] = k]
    BY <1>3
  <2> HIDE DEF k
  <2> QED BY <2>1, <2>2, CallTyped
<1>4. CASE found # NoId /\ For(found) /\ UNCHANGED <<db, view, users>>
  <2>1. found \in UserId
    BY <1>4, LookupsTyped
  <2>2. call' \in [Client -> Calling \cup {Idle}]
    BY <1>3, <1>4, <2>1
  <2> QED BY <1>4, <2>2, SameTyped DEF Resolve, bounds, TInv
<1>5. CASE Finish(c) /\ UNCHANGED <<db, view, users>>
  <2>1. call' \in [Client -> Calling \cup {Idle}]
    BY <1>5, CallTyped DEF Finish
  <2> QED BY <1>5, <2>1, SameTyped DEF Resolve, bounds, TInv
<1>6. CASE req.op # "create" /\ \E i \in UserId : FindOrCreate(r, n, i) /\ For(i)
  <2>1. PICK i \in UserId : FindOrCreate(r, n, i) /\ For(i)
    BY <1>6
  <2>2. call' \in [Client -> Calling \cup {Idle}]
    BY <1>3, <2>1
  <2>3. n \in Name
    BY <1>2, <1>6
  <2>4. UsersTyped'
    BY <1>2, <2>1, <2>3, FindOrCreateTyped, TInvTyped
  <2> QED BY <2>2, <2>4, SameTyped DEF Resolve, bounds, TInv
<1> QED BY <1>4, <1>5, <1>6 DEF Resolve

LEMMA TargetTyped ==
  ASSUME TInv, NEW c \in Client, call[c].stage \in {"apply", "link", "answer"}
  PROVE  Target(c) \in Rule /\ call[c] \in Calling /\ call[c].at \in Replica
<1>1. call[c] \in Calling
  BY CallIs
<1>2. call[c].target \in UserId /\ call[c].req \in Requests /\ call[c].at \in Replica
  BY <1>1 DEF Calling, Call
<1>3. call[c].req.on \in Securable /\ call[c].req.priv \in Privilege /\ Owner \in Privilege
  BY <1>2, AccessAssumption DEF Privilege
<1> QED BY <1>1, <1>2, <1>3, RuleTyped DEF Target

LEMMA ApplyTyped ==
  ASSUME TInv, NEW c \in Client, Apply(c)
  PROVE  TInv'
<1>1. call[c] \in Calling /\ call[c].stage = "apply" /\ call[c].at \in Replica /\ Target(c) \in Rule
  BY TargetTyped DEF Apply
<1>2. RulesTyped'
  BY <1>1, AddRuleTyped, RemoveRuleTyped, TInvTyped DEF Apply
<1> DEFINE next == IF call[c].req.op = "create" THEN "link" ELSE "answer"
<1>3. ASSUME NEW d \in Client
      PROVE  call'[d] \in Calling \cup {Idle}
  <2>1. CASE d = c
    <3>1. call'[d] = [call[c] EXCEPT !.stage = next]
      BY <2>1 DEF Apply, Crosses
    <3> QED BY <1>1, <3>1 DEF Calling, Call
  <2>2. CASE Crosses(c, d)
    <3>1. d # c /\ call[d] \in Calling
      BY <2>2, CallIs DEF Crosses
    <3>2. call'[d] = [call[d] EXCEPT !.crossed = TRUE]
      BY <2>2, <3>1 DEF Apply
    <3> QED BY <3>1, <3>2 DEF Calling, Call
  <2>3. CASE d # c /\ ~Crosses(c, d)
    BY <2>3 DEF Apply, TInv
  <2> QED BY <2>1, <2>2, <2>3
<1>4. call' \in [Client -> Calling \cup {Idle}]
  BY <1>3 DEF Apply
<1> QED BY <1>2, <1>4, SameTyped DEF Apply, TInv

LEMMA LinkChildTyped ==
  ASSUME TInv, NEW c \in Client, LinkChild(c)
  PROVE  TInv'
<1>1. call[c] \in Calling /\ call[c].at \in Replica
  BY TargetTyped DEF LinkChild
<1>2. call[c].req.on \in Catalog
  BY <1>1 DEF Calling, LinkChild
<1>3. RulesTyped'
  BY <1>1, <1>2, RuleTyped, AddRuleTyped, TInvTyped DEF LinkChild
<1>4. call' \in [Client -> Calling \cup {Idle}]
  BY CallTyped DEF LinkChild, Finish
<1> QED BY <1>3, <1>4, SameTyped DEF LinkChild, TInv

LEMMA AnswerTyped ==
  ASSUME TInv, NEW c \in Client, Answer(c)
  PROVE  TInv'
<1>1. call' \in [Client -> Calling \cup {Idle}]
  BY CallTyped DEF Answer, Finish
<1> QED BY <1>1, SameTyped DEF Answer, bounds, TInv

\* A SCIM commit of a row or of a removal.
LEMMA ScimTyped ==
  ASSUME TInv, NEW r \in Replica, Scim(r), ScimUnchanged, UsersTyped'
  PROVE  TInv'
<1>1. calls' \in 0..MaxCalls
  BY AccessAssumption DEF Scim, TInv
<1> QED BY <1>1, SameTyped DEF ScimUnchanged, TInv

LEMMA ScimCreateTyped ==
  ASSUME TInv, NEW r \in Replica, ScimCreate(r)
  PROVE  TInv'
<1>1. PICK p \in Profiles, i \in UserId : NewUser(r, i, p, "scim")
  BY DEF ScimCreate
<1>2. UsersTyped'
  BY <1>1, NewUserTyped, TInvTyped, AccessAssumption DEF ScimCreate, ScimUnchanged, TInv, UsersTyped
<1> QED BY <1>2, ScimTyped DEF ScimCreate

LEMMA RenamedTyped ==
  ASSUME TInv, NEW i \in UserId, NEW n \in Name, db.users[i] # NoUser
  PROVE  [db.users[i] EXCEPT !.name = n] \in Profile
<1>1. db.users[i] \in Profile
  BY DEF TInv, UsersTyped, Database
<1> QED BY <1>1 DEF Profile

LEMMA ScimUpdateTyped ==
  ASSUME TInv, NEW r \in Replica, ScimUpdate(r)
  PROVE  TInv'
<1>1. PICK i \in Live(view[r]), n \in Name :
        Commit(r, PutUser(db, i, [db.users[i] EXCEPT !.name = n]))
  BY DEF ScimUpdate
<1>2. i \in UserId /\ db.users[i] # NoUser
  BY <1>1 DEF Live, Commit
<1>3. PutUser(db, i, [db.users[i] EXCEPT !.name = n]) \in Database
  BY <1>2, RenamedTyped, PutUserTyped DEF TInv, UsersTyped
<1>4. db' \in Database /\ view' \in [Replica -> Database]
  BY <1>1, <1>3, CommitTyped, TInvTyped
<1>5. UsersTyped'
  BY <1>4 DEF ScimUpdate, ScimUnchanged, TInv, UsersTyped
<1> QED BY <1>5, ScimTyped DEF ScimUpdate

LEMMA ScimDeleteTyped ==
  ASSUME TInv, NEW r \in Replica, ScimDelete(r)
  PROVE  TInv'
<1>1. PICK i \in Live(view[r]) : Commit(r, DropUser(db, i))
  BY DEF ScimDelete
<1>2. db' \in Database /\ view' \in [Replica -> Database]
  BY <1>1, DropUserTyped, CommitTyped, TInvTyped DEF Live, TInv, UsersTyped
<1>3. UsersTyped'
  BY <1>2 DEF ScimDelete, ScimUnchanged, TInv, UsersTyped
<1> QED BY <1>3, ScimTyped DEF ScimDelete

LEMMA CatchUpTyped ==
  ASSUME TInv, NEW r \in Replica, CatchUp(r)
  PROVE  TInv'
<1>1. UsersTyped'
  BY DEF CatchUp, TInv, UsersTyped, users
<1>2. RulesTyped'
  BY DEF CatchUp, TInv, RulesTyped, UsersTyped, rules, bounds
<1> QED BY <1>1, <1>2, SameTyped DEF CatchUp, bounds, TInv

LEMMA StopTyped ==
  ASSUME TInv, NEW r \in Replica, Stop(r)
  PROVE  TInv'
<1>1. UsersTyped'
  BY EmptyTyped DEF Stop, TInv, UsersTyped, users
<1>2. RulesTyped'
  BY EmptyTyped, HaltTyped, FaultTyped, TInvTyped DEF Stop, TInv, RulesTyped
<1>3. cut' \in BOOLEAN
  BY DEF Stop, TInv
<1> QED BY <1>1, <1>2, <1>3, HaltTyped, SameTyped DEF Stop, TInv

LEMMA StutterTyped == ASSUME TInv, UNCHANGED vars PROVE TInv'
BY DEF TInv, UsersTyped, RulesTyped, vars

LEMMA NextTyped == TInv /\ [Next]_vars => TInv'
<1> SUFFICES ASSUME TInv, [Next]_vars
             PROVE  TInv'
  OBVIOUS
<1>1. ASSUME NEW r \in Replica, Boot(r)
      PROVE  TInv'
  BY <1>1, StartTyped, SeedTyped, FindAdminTyped, CreateAdminTyped, GrantAdminTyped,
     FindOperatorTyped, GrantOperatorTyped, ServeTyped DEF Boot
<1>2. ASSUME NEW c \in Client, Handle(c)
      PROVE  TInv'
  BY <1>2, AuthenticateTyped, CheckTyped, CreateRowTyped, ResolveTyped, ApplyTyped,
     LinkChildTyped, AnswerTyped DEF Handle
<1>3. ASSUME NEW r \in Replica,
             ScimCreate(r) \/ ScimUpdate(r) \/ ScimDelete(r) \/ CatchUp(r) \/ Stop(r)
      PROVE  TInv'
  BY <1>3, ScimCreateTyped, ScimUpdateTyped, ScimDeleteTyped, CatchUpTyped, StopTyped
<1> QED BY <1>1, <1>2, <1>3, StutterTyped DEF Next

LEMMA AlwaysTyped == Spec => []TInv
BY InitTyped, NextTyped, PTL DEF Spec

\* The types of the rows, the replicas and the requests (TypeOK) hold: ids are
\* found where a handler goes on, and no step makes up a rule.
THEOREM Typed == Spec => []TypeOK
BY AlwaysTyped, TInvTyped, PTL

-----------------------------------------------------------------------------
(* Rules.  Memory follows the registry up to what changed behind its back;  *)
(* the implications between privileges are never removed, so that one the   *)
(* adapter finds present, in a snapshot however old, is in the registry.    *)

Agree(r) ==
  /\ mem[r] \subseteq db.rules \cup foreign[r]
  /\ db.rules \subseteq mem[r] \cup foreign[r]

RepInv(r) ==
  /\ boot[r].phase # "down" => Agree(r)
  /\ boot[r].phase \notin {"down", "seed"} => Edges \subseteq mem[r] \cup foreign[r]
  /\ boot[r].phase = "seed" => Edges \subseteq boot[r].todo \cup mem[r] \cup foreign[r]
  /\ mem[r] \subseteq ever
  /\ view[r].rules \cap Edges \subseteq db.rules

RulesInv ==
  /\ db.rules \subseteq ever
  /\ \A r \in Replica : RepInv(r)

\* What a step that ends or begins no process does to the rules.
Kept(s) ==
  /\ boot[s].phase # "down" => Agree(s)'
  /\ Edges \cap (mem[s] \cup foreign[s]) \subseteq mem'[s] \cup foreign'[s]
  /\ mem'[s] \subseteq ever'
  /\ view'[s].rules \cap Edges \subseteq db'.rules

RulesKept ==
  /\ db'.rules \subseteq ever' /\ ever \subseteq ever'
  /\ \A s \in Replica : Kept(s)

\* A snapshot stays, catches up or is gone.
Snapshots == \A s \in Replica : view'[s] \in {view[s], db', EmptyDatabase}

LEMMA SameSnapshots ==
  ASSUME UNCHANGED <<db, view>>
  PROVE  db'.rules = db.rules /\ Snapshots
BY DEF Snapshots

LEMMA CommitSnapshots ==
  ASSUME TInv, NEW r \in Replica, NEW d, Commit(r, d)
  PROVE  Snapshots /\ view[r] = db /\ db' = d
BY DEF Commit, Snapshots, TInv, UsersTyped

\* Grants and links are no implications.
LEMMA NoEdge ==
  /\ \A u, o, q : Grant(u, o, q) \notin Edges
  /\ \A x, y : Link(x, y) \notin Edges
BY DEF Grant, Link, Edges, Implies

LEMMA QuietKept ==
  ASSUME TInv, RulesInv, db'.rules = db.rules, UNCHANGED rules, Snapshots
  PROVE  RulesKept
<1>1. ASSUME NEW s \in Replica
      PROVE  Kept(s)
  <2>1. view'[s].rules \cap Edges \subseteq db'.rules
    <3>1. view[s].rules \cap Edges \subseteq db.rules
      BY DEF RulesInv, RepInv
    <3> QED BY <3>1, EmptyTyped DEF Snapshots
  <2> QED BY <2>1 DEF Kept, RulesInv, RepInv, Agree, rules
<1> QED BY <1>1 DEF RulesKept, RulesInv, rules

LEMMA NoChangeKept == ASSUME TInv, RulesInv, NoChange PROVE RulesKept
BY QuietKept DEF NoChange, Snapshots

LEMMA AddKept ==
  ASSUME TInv, RulesInv, NEW r \in Replica, NEW rule \in Rule, AddRule(r, rule)
  PROVE  /\ RulesKept
         /\ rule \in Edges /\ boot[r].phase # "down" => rule \in mem'[r] \cup foreign'[r]
<1>1. CASE rule \in view[r].rules /\ NoChange
  <2>1. RulesKept
    BY <1>1, NoChangeKept
  <2>2. rule \in Edges => rule \in db.rules
    BY <1>1 DEF RulesInv, RepInv
  <2>3. boot[r].phase # "down" => db.rules \subseteq mem[r] \cup foreign[r]
    BY DEF RulesInv, RepInv, Agree
  <2> QED BY <1>1, <2>1, <2>2, <2>3 DEF NoChange, rules
<1>2. CASE /\ Commit(r, WithRule(db, rule))
           /\ ever' = ever \cup {rule}
           /\ \/ mem' = [mem EXCEPT ![r] = @ \cup {rule}] /\ foreign' = Others(r, rule)
              \/ foreign' = Everyone(rule) /\ UNCHANGED mem
  <2>1. db'.rules = db.rules \cup {rule} /\ Snapshots
    BY <1>2, CommitSnapshots, WithRuleTyped DEF TInv, UsersTyped
  <2>2. db'.rules \subseteq ever' /\ ever \subseteq ever'
    BY <1>2, <2>1 DEF RulesInv
  <2>3. ASSUME NEW s \in Replica
        PROVE  Kept(s)
    <3>1. view'[s].rules \cap Edges \subseteq db'.rules
      <4>1. view[s].rules \cap Edges \subseteq db.rules
        BY DEF RulesInv, RepInv
      <4> QED BY <2>1, <4>1, EmptyTyped DEF Snapshots
    <3>2. \/ /\ mem'[s] = mem[s] \cup {rule} /\ foreign'[s] = foreign[s] \ {rule}
          \/ /\ mem'[s] = mem[s] /\ foreign'[s] = foreign[s] \cup {rule}
      BY <1>2 DEF Others, Everyone, TInv, RulesTyped
    <3>3. mem'[s] \subseteq ever'
      BY <1>2, <3>2 DEF RulesInv, RepInv
    <3>4. Edges \cap (mem[s] \cup foreign[s]) \subseteq mem'[s] \cup foreign'[s]
      BY <3>2
    <3>5. boot[s].phase # "down" => Agree(s)'
      BY <2>1, <3>2 DEF RulesInv, RepInv, Agree
    <3> QED BY <3>1, <3>3, <3>4, <3>5 DEF Kept
  <2>4. rule \in mem'[r] \cup foreign'[r]
    BY <1>2 DEF Others, Everyone, TInv, RulesTyped
  <2> QED BY <2>2, <2>3, <2>4 DEF RulesKept
<1> QED BY <1>1, <1>2 DEF AddRule

LEMMA RemoveKept ==
  ASSUME TInv, RulesInv, NEW r \in Replica, NEW rule \in Rule, rule \notin Edges, RemoveRule(r, rule)
  PROVE  RulesKept
<1>1. CASE NoChange
  BY <1>1, NoChangeKept
<1>2. CASE /\ Commit(r, WithoutRule(db, rule))
           /\ \/ mem' = [mem EXCEPT ![r] = @ \ {rule}] /\ foreign' = Others(r, rule)
              \/ foreign' = Everyone(rule) /\ UNCHANGED mem
           /\ UNCHANGED ever
  <2>1. db'.rules = db.rules \ {rule} /\ Snapshots
    BY <1>2, CommitSnapshots, WithRuleTyped DEF TInv, UsersTyped
  <2>2. db'.rules \subseteq ever' /\ ever \subseteq ever'
    BY <1>2, <2>1 DEF RulesInv
  <2>3. ASSUME NEW s \in Replica
        PROVE  Kept(s)
    <3>1. view'[s].rules \cap Edges \subseteq db'.rules
      <4>1. view[s].rules \cap Edges \subseteq db.rules
        BY DEF RulesInv, RepInv
      <4> QED BY <2>1, <4>1, EmptyTyped DEF Snapshots
    <3>2. \/ /\ mem'[s] = mem[s] \ {rule} /\ foreign'[s] = foreign[s] \ {rule}
          \/ /\ mem'[s] = mem[s] /\ foreign'[s] = foreign[s] \cup {rule}
      BY <1>2 DEF Others, Everyone, TInv, RulesTyped
    <3>3. mem'[s] \subseteq ever'
      BY <1>2, <3>2 DEF RulesInv, RepInv
    <3>4. Edges \cap (mem[s] \cup foreign[s]) \subseteq mem'[s] \cup foreign'[s]
      BY <3>2
    <3>5. boot[s].phase # "down" => Agree(s)'
      BY <2>1, <3>2 DEF RulesInv, RepInv, Agree
    <3> QED BY <3>1, <3>3, <3>4, <3>5 DEF Kept
  <2> QED BY <2>2, <2>3 DEF RulesKept
<1> QED BY <1>1, <1>2 DEF RemoveRule

\* Where no process begins seeding or is done with it.
LEMMA KeptInv ==
  ASSUME RulesInv, RulesKept,
         \A s \in Replica : \/ boot'[s] = boot[s]
                            \/ {boot[s].phase, boot'[s].phase} \cap {"down", "seed"} = {}
  PROVE  RulesInv'
<1>1. ASSUME NEW s \in Replica
      PROVE  RepInv(s)'
  <2>1. Kept(s) /\ RepInv(s)
    BY DEF RulesKept, RulesInv
  <2>2. CASE boot'[s] = boot[s]
    BY <2>1, <2>2 DEF Kept, RepInv
  <2>3. CASE {boot[s].phase, boot'[s].phase} \cap {"down", "seed"} = {}
    <3>1. boot[s].phase \notin {"down", "seed"} /\ boot'[s].phase \notin {"down", "seed"}
      BY <2>3
    <3> QED BY <2>1, <3>1 DEF Kept, RepInv
  <2> QED BY <2>2, <2>3
<1> QED BY <1>1 DEF RulesInv, RulesKept

LEMMA StartRules ==
  ASSUME TInv, RulesInv, NEW r \in Replica, Start(r)
  PROVE  RulesInv'
<1>1. db' = db /\ ever' = ever
  BY DEF Start
<1>2. ASSUME NEW s \in Replica
      PROVE  RepInv(s)'
  <2>1. CASE s = r
    BY <1>1, <2>1 DEF Start, RepInv, Agree, RulesInv, TInv, UsersTyped, RulesTyped
  <2>2. CASE s # r
    <3>1. /\ mem'[s] = mem[s] /\ foreign'[s] = foreign[s]
          /\ boot'[s] = boot[s] /\ view'[s] = view[s]
      BY <2>2 DEF Start, TInv, UsersTyped, RulesTyped
    <3> QED BY <1>1, <3>1 DEF RepInv, Agree, RulesInv
  <2> QED BY <2>1, <2>2
<1> QED BY <1>1, <1>2 DEF RulesInv

LEMMA SeedRules ==
  ASSUME TInv, RulesInv, NEW r \in Replica, Seed(r)
  PROVE  RulesInv'
<1>1. PICK edge \in boot[r].todo :
        /\ AddRule(r, edge)
        /\ boot' = [boot EXCEPT ![r].todo = @ \ {edge},
                                ![r].phase = IF boot[r].todo = {edge} THEN "find" ELSE "seed"]
  BY DEF Seed
<1>2. boot[r] \in Booting /\ boot[r].phase = "seed" /\ edge \in Edges
  BY DEF TInv, Seed, At, Booting
<1>3. RulesKept /\ edge \in mem'[r] \cup foreign'[r]
  BY <1>1, <1>2, AddKept, RuleTyped
<1>4. ASSUME NEW s \in Replica
      PROVE  RepInv(s)'
  <2>1. Kept(s) /\ RepInv(s)
    BY <1>3 DEF RulesKept, RulesInv
  <2>2. CASE s # r
    <3>1. boot'[s] = boot[s]
      BY <1>1, <2>2 DEF TInv
    <3> QED BY <2>1, <3>1 DEF Kept, RepInv
  <2>3. CASE s = r
    <3>1. /\ boot'[r].todo = boot[r].todo \ {edge}
          /\ boot'[r].phase = IF boot[r].todo = {edge} THEN "find" ELSE "seed"
      BY <1>1, <1>2 DEF TInv, Booting
    <3>2. Edges \subseteq boot'[r].todo \cup mem'[r] \cup foreign'[r]
      BY <1>2, <1>3, <2>1, <2>3, <3>1 DEF Kept, RepInv
    <3> QED BY <1>2, <2>1, <2>3, <3>1, <3>2 DEF Kept, RepInv
  <2> QED BY <2>2, <2>3
<1> QED BY <1>3, <1>4 DEF RulesInv, RulesKept

LEMMA HaltRules ==
  ASSUME TInv, RulesInv, NEW r \in Replica, Halt(r),
         db'.rules = db.rules, UNCHANGED ever, Snapshots
  PROVE  RulesInv'
<1>1. ASSUME NEW s \in Replica
      PROVE  RepInv(s)'
  <2>1. view'[s].rules \cap Edges \subseteq db'.rules
    <3>1. view[s].rules \cap Edges \subseteq db.rules
      BY DEF RulesInv, RepInv
    <3> QED BY <3>1, EmptyTyped DEF Snapshots
  <2>2. CASE s = r
    BY <2>1, <2>2 DEF Halt, Down, RepInv, TInv, RulesTyped
  <2>3. CASE s # r
    <3>1. mem'[s] = mem[s] /\ foreign'[s] = foreign[s] /\ boot'[s] = boot[s]
      BY <2>3 DEF Halt, TInv, RulesTyped
    <3> QED BY <2>1, <3>1 DEF RepInv, Agree, RulesInv
  <2> QED BY <2>2, <2>3
<1> QED BY <1>1 DEF RulesInv

LEMMA UserRowsOnly ==
  ASSUME NEW d \in Database, NEW i, NEW row
  PROVE  PutUser(d, i, row).rules = d.rules /\ DropUser(d, i).rules = d.rules
BY DEF PutUser, DropUser, Database

LEMMA NewUserRows ==
  ASSUME TInv, NEW r \in Replica, NEW i, NEW row \in Profile, NEW by, NewUser(r, i, row, by)
  PROVE  db'.rules = db.rules /\ Snapshots
<1>1. Commit(r, PutUser(db, i, row))
  BY DEF NewUser
<1>2. PutUser(db, i, row).rules = db.rules
  BY UserRowsOnly DEF TInv, UsersTyped
<1> QED BY <1>1, <1>2, CommitSnapshots

LEMMA FindOrCreateRows ==
  ASSUME TInv, NEW r \in Replica, NEW n \in Name, NEW i, FindOrCreate(r, n, i)
  PROVE  db'.rules = db.rules /\ Snapshots
<1>1. CASE UNCHANGED <<db, view, users>>
  <2>1. UNCHANGED <<db, view>>
    BY <1>1
  <2> QED BY <2>1, SameSnapshots
<1>2. CASE NewUser(r, i, Provisioned(n), "token")
  BY <1>2, NewUserRows, ProvisionedTyped
<1> QED BY <1>1, <1>2 DEF FindOrCreate

LEMMA BootRules ==
  ASSUME TInv, RulesInv, NEW r \in Replica, Boot(r)
  PROVE  RulesInv'
<1> DEFINE Elsewhere == \A s \in Replica : s # r => boot'[s] = boot[s]
<1>1. CASE FindAdmin(r)
  <2>1. RulesKept
    BY <1>1, QuietKept DEF FindAdmin, Snapshots
  <2>2. Elsewhere /\ boot[r].phase = "find" /\ boot'[r].phase \in {"admin", "operator"}
    BY <1>1 DEF FindAdmin, At, TInv
  <2> QED BY <2>1, <2>2, KeptInv
<1>2. CASE CreateAdmin(r)
  <2>1. ASSUME NEW i \in UserId, NewUser(r, i, AdminProfile, "start"),
               UNCHANGED <<mem, foreign, ever, revoked>>,
               boot' = [boot EXCEPT ![r].phase = "own", ![r].user = i]
        PROVE  RulesInv'
    <3>1. RulesKept
      BY <2>1, NewUserRows, AdminTyped, QuietKept DEF rules
    <3>2. Elsewhere /\ boot'[r].phase = "own" /\ boot[r].phase = "admin"
      BY <1>2, <2>1 DEF CreateAdmin, At, TInv, Booting
    <3> QED BY <3>1, <3>2, KeptInv
  <2>2. ASSUME NEW i \in UserId, NewUser(r, i, AdminProfile, "start"), Halt(r), UNCHANGED ever
        PROVE  RulesInv'
    BY <2>2, NewUserRows, AdminTyped, HaltRules
  <2>3. CASE Halt(r) /\ UNCHANGED <<db, view, ever>>
    BY <2>3, HaltRules DEF Snapshots
  <2> QED BY <1>2, <2>1, <2>2, <2>3 DEF CreateAdmin
<1>3. CASE GrantAdmin(r)
  <2>1. boot[r].user \in UserId /\ boot[r].phase = "own"
    BY <1>3 DEF GrantAdmin, At, TInv, Booting
  <2>2. RulesKept
    BY <1>3, <2>1, RuleTyped, AddKept DEF GrantAdmin, Securable, Privilege
  <2>3. Elsewhere /\ boot'[r].phase = "operator"
    BY <1>3 DEF GrantAdmin, TInv
  <2> QED BY <2>1, <2>2, <2>3, KeptInv
<1>4. CASE FindOperator(r)
  <2>1. PICK n \in boot[r].todo, i \in UserId :
          /\ FindOrCreate(r, n, i)
          /\ boot' = [boot EXCEPT ![r] = [phase |-> "operatorOwn", todo |-> @.todo \ {n}, user |-> i]]
    BY <1>4 DEF FindOperator
  <2>2. n \in Name /\ boot[r].phase = "operator"
    BY <1>4, AccessAssumption DEF FindOperator, At, TInv, Booting
  <2>3. RulesKept
    BY <1>4, <2>1, <2>2, FindOrCreateRows, QuietKept DEF FindOperator
  <2>4. Elsewhere /\ boot'[r].phase = "operatorOwn"
    BY <2>1 DEF TInv
  <2> QED BY <2>2, <2>3, <2>4, KeptInv
<1>5. CASE GrantOperator(r)
  <2>1. boot[r].user \in UserId /\ boot[r].phase = "operatorOwn"
    BY <1>5 DEF GrantOperator, At, TInv, Booting
  <2>2. RulesKept
    BY <1>5, <2>1, RuleTyped, AddKept, NoChangeKept DEF GrantOperator, Securable, Privilege
  <2>3. Elsewhere /\ boot'[r].phase = "operator"
    BY <1>5 DEF GrantOperator, TInv, Booting
  <2> QED BY <2>1, <2>2, <2>3, KeptInv
<1>6. CASE Serve(r)
  <2>1. RulesKept
    BY <1>6, QuietKept DEF Serve, Snapshots
  <2>2. Elsewhere /\ boot[r].phase = "operator" /\ boot'[r].phase = "up"
    BY <1>6 DEF Serve, At, Step, TInv, Booting
  <2> QED BY <2>1, <2>2, KeptInv
<1> QED BY <1>1, <1>2, <1>3, <1>4, <1>5, <1>6, StartRules, SeedRules DEF Boot

\* Requests and SCIM calls leave the processes alone.
LEMMA ServedRules ==
  ASSUME RulesInv, RulesKept, UNCHANGED boot
  PROVE  RulesInv'
BY KeptInv

LEMMA HandleRules ==
  ASSUME TInv, RulesInv, NEW c \in Client, Handle(c)
  PROVE  RulesInv' /\ RulesKept
<1>0. UNCHANGED boot
  BY DEF Handle, Authenticate, Check, CreateRow, Resolve, Apply, LinkChild, Answer
<1> SUFFICES RulesKept
  BY <1>0, ServedRules
<1>1. CASE \E r \in Replica : Authenticate(c, r)
  <2>1. PICK r \in Replica, req \in Requests, i \in UserId :
          FindOrCreate(r, req.sub, i) /\ UNCHANGED rules
    BY <1>1 DEF Authenticate
  <2>2. req.sub \in Name
    BY AccessAssumption
  <2> QED BY <2>1, <2>2, FindOrCreateRows, QuietKept
<1>2. CASE Check(c) \/ Answer(c)
  BY <1>2, SameSnapshots, QuietKept DEF Check, Answer
<1>3. CASE CreateRow(c)
  <2>1. call[c].at \in Replica
    BY <1>3, CallIs DEF CreateRow, Calling, Call
  <2> DEFINE d == [db EXCEPT !.catalogs = @ \cup {call[c].req.on}]
  <2>2. d.rules = db.rules
    BY DEF TInv, UsersTyped, Database
  <2>3. Commit(call[c].at, d)
    BY <1>3 DEF CreateRow
  <2> HIDE DEF d
  <2>4. Snapshots /\ db'.rules = db.rules
    BY <2>1, <2>2, <2>3, CommitSnapshots
  <2> QED BY <1>3, <2>4, QuietKept DEF CreateRow
<1>4. CASE Resolve(c)
  <2>1. call[c].at \in Replica /\ call[c].req.who \in Name
    BY <1>4, CallIs, AccessAssumption DEF Resolve, Calling, Call
  <2>2. Snapshots /\ db'.rules = db.rules
    <3>1. CASE UNCHANGED <<db, view, users>>
      BY <3>1, SameSnapshots
    <3>2. CASE \E i \in UserId : FindOrCreate(call[c].at, call[c].req.who, i)
      BY <2>1, <3>2, FindOrCreateRows
    <3> QED BY <1>4, <3>1, <3>2 DEF Resolve
  <2> QED BY <1>4, <2>2, QuietKept DEF Resolve
<1>5. CASE Apply(c)
  <2>1. Target(c) \in Rule /\ Target(c) \notin Edges /\ call[c].at \in Replica
    BY <1>5, TargetTyped, NoEdge DEF Apply, Target
  <2> QED BY <1>5, <2>1, AddKept, RemoveKept DEF Apply
<1>6. CASE LinkChild(c)
  <2>1. call[c].at \in Replica /\ call[c].req.on \in Catalog
    BY <1>6, TargetTyped DEF LinkChild, Calling
  <2> QED BY <1>6, <2>1, RuleTyped, AddKept DEF LinkChild
<1> QED BY <1>1, <1>2, <1>3, <1>4, <1>5, <1>6 DEF Handle

LEMMA ScimRules ==
  ASSUME TInv, RulesInv, NEW r \in Replica,
         ScimCreate(r) \/ ScimUpdate(r) \/ ScimDelete(r) \/ CatchUp(r)
  PROVE  RulesInv' /\ RulesKept
<1>1. CASE ScimCreate(r)
  BY <1>1, NewUserRows, AccessAssumption, QuietKept, ServedRules DEF ScimCreate, ScimUnchanged
<1>2. CASE ScimUpdate(r)
  <2>1. PICK i \in Live(view[r]), n \in Name :
          Commit(r, PutUser(db, i, [db.users[i] EXCEPT !.name = n]))
    BY <1>2 DEF ScimUpdate
  <2>2. i \in UserId /\ db.users[i] # NoUser
    BY <2>1 DEF Live, Commit
  <2>3. db'.rules = db.rules /\ Snapshots
    <3> DEFINE row == [db.users[i] EXCEPT !.name = n]
    <3>1. row \in Profile
      BY <2>2, RenamedTyped
    <3>2. Commit(r, PutUser(db, i, row))
      BY <2>1
    <3> HIDE DEF row
    <3>3. PutUser(db, i, row).rules = db.rules
      BY UserRowsOnly DEF TInv, UsersTyped
    <3> QED BY <3>2, <3>3, CommitSnapshots
  <2> QED BY <1>2, <2>3, QuietKept, ServedRules DEF ScimUpdate, ScimUnchanged
<1>3. CASE ScimDelete(r)
  <2>0. PICK i \in UserId : Commit(r, DropUser(db, i))
    BY <1>3 DEF ScimDelete, Live
  <2>1. db'.rules = db.rules /\ Snapshots
    BY <2>0, UserRowsOnly, CommitSnapshots DEF TInv, UsersTyped
  <2> QED BY <1>3, <2>1, QuietKept, ServedRules DEF ScimDelete, ScimUnchanged
<1>4. CASE CatchUp(r)
  <2>1. Snapshots
    BY <1>4 DEF CatchUp, Snapshots, TInv, UsersTyped
  <2> QED BY <1>4, <2>1, QuietKept, ServedRules DEF CatchUp
<1> QED BY <1>1, <1>2, <1>3, <1>4

LEMMA StopRules ==
  ASSUME TInv, RulesInv, NEW r \in Replica, Stop(r)
  PROVE  RulesInv'
BY HaltRules DEF Stop, Snapshots, TInv, UsersTyped

LEMMA InitRules == Init => RulesInv
BY EmptyTyped DEF Init, RulesInv, RepInv, Down

LEMMA StutterRules == ASSUME RulesInv, UNCHANGED vars PROVE RulesInv'
BY DEF RulesInv, RepInv, Agree, vars

LEMMA NextRules == TInv /\ RulesInv /\ [Next]_vars => RulesInv'
BY BootRules, HandleRules, ScimRules, StopRules, StutterRules DEF Next

LEMMA AlwaysRules == Spec => []RulesInv
BY InitRules, NextRules, AlwaysTyped, PTL DEF Spec

\* Where an enforcer's memory and the registry differ, the last change of that
\* rule was made behind the enforcer's back (db_adapter.rs, authorizer.rs).
THEOREM MemoryFollows == Spec => []MemoryAgrees
<1>1. RulesInv => MemoryAgrees
  BY DEF RulesInv, RepInv, Agree, MemoryAgrees, At
<1> QED BY <1>1, AlwaysRules, PTL

\* A replica past seed_privilege_hierarchy knows the hierarchy of privileges,
\* whoever seeded it.
THEOREM HierarchyKnown == Spec => []UpKnowsHierarchy
<1>1. RulesInv => UpKnowsHierarchy
  BY DEF RulesInv, RepInv, UpKnowsHierarchy
<1> QED BY <1>1, AlwaysRules, PTL

-----------------------------------------------------------------------------
(* Decisions.  A rule that lets somebody in stays among those there have    *)
(* been, and what a request was checked for does not change.               *)

LEMMA EnforceGrows ==
  ASSUME NEW m, NEW n, m \subseteq n, NEW u, NEW o, NEW q, Enforce(m, u, o, q)
  PROVE  Enforce(n, u, o, q)
<1>1. Above(m, o) \subseteq Above(n, o)
  BY DEF Above
<1>2. \A held : Implied(m, held) \subseteq Implied(n, held)
  BY DEF Implied
<1> QED BY <1>1, <1>2 DEF Enforce

LEMMA AllowedGrows ==
  ASSUME NEW m, NEW n, m \subseteq n, NEW u, NEW req, Allowed(m, u, req)
  PROVE  Allowed(n, u, req)
BY EnforceGrows DEF Allowed

Inside == {"row", "resolve", "apply", "link"}

CallInv(c) == call[c].stage \in Inside => Allowed(ever, call[c].caller, call[c].req)

\* A request that goes on keeps its caller and what it asks for.
SameCall(c) ==
  call'[c].stage \in Inside =>
    call[c].stage \in Inside /\ call'[c].caller = call[c].caller /\ call'[c].req = call[c].req

LEMMA SameCallInv ==
  ASSUME ever \subseteq ever', NEW c \in Client, CallInv(c), SameCall(c)
  PROVE  CallInv(c)'
BY AllowedGrows DEF CallInv, SameCall

LEMMA IdleCall == \A c \in Client : call'[c] = Idle => SameCall(c)
BY DEF SameCall, Idle, Inside

LEMMA CheckCalls ==
  ASSUME TInv, RulesInv, \A c \in Client : CallInv(c), NEW c \in Client, Check(c)
  PROVE  \A d \in Client : CallInv(d)'
<1> DEFINE caller == GetUser(view[call[c].at], call[c].sub)
           next == IF call[c].req.op = "create" THEN "row" ELSE "resolve"
<1>1. call[c] \in Calling
  BY CallIs DEF Check
<1>2. UNCHANGED ever /\ \A d \in Client : d # c => call'[d] = call[d]
  BY DEF Check, Finish, rules, TInv
<1>3. CASE Finish(c)
  <2>1. call'[c] = Idle
    BY <1>3 DEF Finish, TInv
  <2>2. CallInv(c)'
    BY <1>2, <2>1, IdleCall, SameCallInv
  <2> QED BY <1>2, <2>2 DEF CallInv
<1>4. CASE Passes(c, caller) /\ call' = [call EXCEPT ![c].caller = caller, ![c].stage = next]
  <2>1. Allowed(mem[call[c].at], caller, call[c].req)
    BY <1>4 DEF Passes
  <2>2. mem[call[c].at] \subseteq ever
    BY <1>1 DEF RulesInv, RepInv, Calling, Call
  <2>3. Allowed(ever, caller, call[c].req)
    BY <2>1, <2>2, AllowedGrows
  <2>4. call'[c].caller = caller /\ call'[c].req = call[c].req
    <3> HIDE DEF caller, next
    <3> QED BY <1>1, <1>4 DEF TInv, Calling, Call
  <2> HIDE DEF caller
  <2> QED BY <1>2, <2>3, <2>4 DEF CallInv
<1> QED BY <1>3, <1>4 DEF Check

\* Everything else either ends requests or takes them on.
LEMMA OtherCalls ==
  ASSUME TInv, RulesInv, [Next]_vars, ~\E c \in Client : Check(c)
  PROVE  ever \subseteq ever' /\ \A c \in Client : SameCall(c)
<1>1. ASSUME UNCHANGED call
      PROVE  \A c \in Client : SameCall(c)
  BY <1>1 DEF SameCall
<1>2. ASSUME NEW c \in Client, NEW k, call' = [call EXCEPT ![c] = k],
             k.stage \in Inside => call[c].stage \in Inside /\ k.caller = call[c].caller /\ k.req = call[c].req
      PROVE  \A d \in Client : SameCall(d)
  BY <1>2 DEF SameCall, TInv
<1>3. Idle.stage \notin Inside
  BY DEF Idle, Inside
<1>4. ASSUME NEW c \in Client, Finish(c)
      PROVE  \A d \in Client : SameCall(d)
  BY <1>2, <1>3, <1>4 DEF Finish
<1>5. ASSUME NEW r \in Replica, Halt(r)
      PROVE  \A d \in Client : SameCall(d)
  BY <1>5, <1>3 DEF Halt, SameCall
<1>6. ASSUME NEW r \in Replica, Boot(r)
      PROVE  ever \subseteq ever' /\ \A d \in Client : SameCall(d)
  <2>1. ever \subseteq ever'
    BY <1>6 DEF Boot, Start, Seed, FindAdmin, CreateAdmin, GrantAdmin, FindOperator, GrantOperator,
       Serve, AddRule, NoChange, rules
  <2>2. UNCHANGED call \/ Halt(r)
    BY <1>6 DEF Boot, Start, Seed, FindAdmin, CreateAdmin, GrantAdmin, FindOperator, GrantOperator, Serve
  <2> QED BY <1>1, <1>5, <2>1, <2>2
<1>7. ASSUME NEW r \in Replica, ScimCreate(r) \/ ScimUpdate(r) \/ ScimDelete(r) \/ CatchUp(r) \/ Stop(r)
      PROVE  ever \subseteq ever' /\ \A d \in Client : SameCall(d)
  <2>1. ever' = ever /\ (UNCHANGED call \/ Halt(r))
    BY <1>7 DEF ScimCreate, ScimUpdate, ScimDelete, CatchUp, Stop, ScimUnchanged, rules
  <2> QED BY <1>1, <1>5, <2>1
<1>8. ASSUME NEW c \in Client, Handle(c)
      PROVE  ever \subseteq ever' /\ \A d \in Client : SameCall(d)
  <2>1. ever \subseteq ever'
    BY <1>8, HandleRules DEF RulesKept
  <2>2. CASE \E r \in Replica : Authenticate(c, r)
    <3>1. PICK req \in Requests, r \in Replica, i \in UserId :
            \/ UNCHANGED call
            \/ call' = [call EXCEPT ![c] = [Idle EXCEPT !.stage = "check", !.req = req, !.at = r,
                                               !.user = i, !.sub = Subject(view'[r].users[i])]]
      BY <2>2 DEF Authenticate
    <3>2. [Idle EXCEPT !.stage = "check", !.req = req, !.at = r, !.user = i,
                       !.sub = Subject(view'[r].users[i])].stage \notin Inside
      BY DEF Idle, Inside
    <3> QED BY <1>1, <1>2, <2>1, <3>1, <3>2
  <2>3. CASE CreateRow(c)
    <3>1. call[c] \in Calling /\ call[c].stage = "row"
      BY <2>3, CallIs DEF CreateRow
    <3>2. call' = [call EXCEPT ![c] = [call[c] EXCEPT !.stage = "resolve"]]
      BY <2>3 DEF CreateRow, Stage
    <3> QED BY <1>2, <2>1, <3>1, <3>2 DEF Calling, Call, Inside
  <2>4. CASE Resolve(c)
    <3>1. call[c] \in Calling /\ call[c].stage = "resolve"
      BY <2>4, CallIs DEF Resolve
    <3>2. PICK i : Finish(c) \/ call' = [call EXCEPT ![c] = [call[c] EXCEPT !.stage = "apply", !.target = i]]
      BY <2>4 DEF Resolve
    <3> QED BY <1>2, <1>4, <2>1, <3>1, <3>2 DEF Calling, Call, Inside
  <2>5. CASE Apply(c)
    <3> SUFFICES ASSUME NEW d \in Client
                 PROVE  SameCall(d)
      BY <2>1
    <3>1. CASE d = c
      <4>1. call[c] \in Calling /\ call[c].stage = "apply"
        BY <2>5, CallIs DEF Apply
      <4>2. call'[c] = [call[c] EXCEPT !.stage = IF call[c].req.op = "create" THEN "link" ELSE "answer"]
        BY <2>5 DEF Apply, Crosses
      <4> QED BY <3>1, <4>1, <4>2 DEF Calling, Call, SameCall, Inside
    <3>2. CASE Crosses(c, d)
      <4>1. d # c /\ call[d] \in Calling /\ call[d].stage = "answer"
        BY <3>2, CallIs DEF Crosses
      <4>2. call'[d] = [call[d] EXCEPT !.crossed = TRUE]
        BY <2>5, <3>2, <4>1 DEF Apply
      <4> QED BY <4>1, <4>2 DEF Calling, Call, SameCall, Inside
    <3>3. CASE d # c /\ ~Crosses(c, d)
      BY <2>5, <3>3 DEF Apply, SameCall
    <3> QED BY <3>1, <3>2, <3>3
  <2>6. CASE LinkChild(c) \/ Answer(c)
    BY <1>4, <2>1, <2>6 DEF LinkChild, Answer
  <2>7. ~Check(c)
    OBVIOUS
  <2> QED BY <1>8, <2>2, <2>3, <2>4, <2>5, <2>6, <2>7 DEF Handle
<1>9. CASE UNCHANGED vars
  BY <1>1, <1>9 DEF vars
<1> QED BY <1>6, <1>7, <1>8, <1>9 DEF Next

\* Nobody gets past a check who could not have been let in by rules there have
\* been, however stale the memory the check was made on (helpers::require).
THEOREM CheckedRightly == Spec => []AllowedWereGranted
<1> DEFINE Calls == \A c \in Client : CallInv(c)
<1>1. Init => Calls
  BY DEF Init, CallInv, Idle, Inside
<1>2. TInv /\ RulesInv /\ Calls /\ [Next]_vars => Calls'
  BY CheckCalls, OtherCalls, SameCallInv
<1>3. Calls => AllowedWereGranted
  BY DEF CallInv, AllowedWereGranted, Inside
<1> HIDE DEF Calls
<1> QED BY <1>1, <1>2, <1>3, AlwaysTyped, AlwaysRules, PTL DEF Spec

-----------------------------------------------------------------------------
(* Users.  A step adds a user under an unused id, renames one, removes one, *)
(* or leaves the rows as they are.                                         *)

RowsSame ==
  db'.users = db.users /\ db'.byName = db.byName /\ UNCHANGED users

Created(i, row, by) ==
  /\ maker[i] = "none"
  /\ db'.users = [db.users EXCEPT ![i] = row]
  /\ db'.byName = [Unnamed(db, i) EXCEPT ![row.name] = i]
  /\ maker' = [maker EXCEPT ![i] = by]
  /\ born' = [born EXCEPT ![i] = row]
  /\ by = "token" => ByExternalId(db, row.ext) = NoId /\ row.email = NoName
  /\ by = "start" => row.ext = NoName
  /\ ~dup' => ~dup /\ ~NameTaken(db, row.name)

Renamed(i, n) ==
  /\ db.users[i] # NoUser /\ ~NameTaken(db, n)
  /\ db'.users = [db.users EXCEPT ![i] = [db.users[i] EXCEPT !.name = n]]
  /\ db'.byName = [Unnamed(db, i) EXCEPT ![n] = i]
  /\ UNCHANGED users

Dropped(i) ==
  /\ db.users[i] # NoUser
  /\ db'.users = [db.users EXCEPT ![i] = NoUser]
  /\ db'.byName = Unnamed(db, i)
  /\ UNCHANGED users

UserStep ==
  \/ RowsSame
  \/ \E i \in UserId, row \in Profile, by \in {"start", "token", "scim"} : Created(i, row, by)
  \/ \E i \in UserId, n \in Name : Renamed(i, n)
  \/ \E i \in UserId : Dropped(i)

LEMMA SameRows == ASSUME db' = db, UNCHANGED users PROVE UserStep
BY DEF UserStep, RowsSame

LEMMA NewUserStep ==
  ASSUME TInv, NEW r \in Replica, NEW i \in UserId, NEW row \in Profile,
         NEW by \in {"start", "token", "scim"}, NewUser(r, i, row, by),
         by = "token" => ByExternalId(db, row.ext) = NoId /\ row.email = NoName,
         by = "start" => row.ext = NoName,
         ~dup' => ~dup /\ ~NameTaken(db, row.name)
  PROVE  UserStep
<1>1. db' = PutUser(db, i, row) /\ db \in Database
  BY DEF NewUser, Commit, TInv, UsersTyped
<1>2. /\ db'.users = [db.users EXCEPT ![i] = row]
      /\ db'.byName = [Unnamed(db, i) EXCEPT ![row.name] = i]
  BY <1>1, PutUserTyped
<1>3. Created(i, row, by)
  BY <1>2 DEF Created, NewUser
<1> QED BY <1>3 DEF UserStep

LEMMA FindOrCreateStep ==
  ASSUME TInv, NEW r \in Replica, NEW n \in Name, NEW i \in UserId, FindOrCreate(r, n, i)
  PROVE  UserStep
<1>1. CASE UNCHANGED <<db, view, users>>
  <2>1. db' = db /\ UNCHANGED users
    BY <1>1
  <2> QED BY <2>1, SameRows
<1>2. CASE /\ ByExternalId(view[r], n) = NoId
           /\ NewUser(r, i, Provisioned(n), "token")
           /\ dup' = (dup \/ NameTaken(db, n))
  <2>1. view[r] = db
    BY <1>2 DEF NewUser, Commit
  <2>2. Provisioned(n).ext = n /\ Provisioned(n).name = n /\ Provisioned(n).email = NoName
    BY DEF Provisioned
  <2>3. ~dup' => ~dup /\ ~NameTaken(db, n)
    BY <1>2
  <2> QED BY <1>2, <2>1, <2>2, <2>3, ProvisionedTyped, NewUserStep
<1> QED BY <1>1, <1>2 DEF FindOrCreate

\* A change of the rules leaves the users alone.
LEMMA RuleStep ==
  ASSUME TInv, NEW r \in Replica, NEW rule \in Rule,
         AddRule(r, rule) \/ RemoveRule(r, rule) \/ NoChange, UNCHANGED users
  PROVE  UserStep
<1>1. CASE NoChange
  BY <1>1, SameRows DEF NoChange
<1>2. CASE Commit(r, WithRule(db, rule)) \/ Commit(r, WithoutRule(db, rule))
  BY <1>2, WithRuleTyped DEF Commit, TInv, UsersTyped, UserStep, RowsSame
<1> QED BY <1>1, <1>2 DEF AddRule, RemoveRule

LEMMA BootStep ==
  ASSUME TInv, NEW r \in Replica, Boot(r)
  PROVE  UserStep
<1>1. CASE Start(r) \/ FindAdmin(r) \/ Serve(r)
  BY <1>1, SameRows DEF Start, FindAdmin, Serve
<1>2. CASE Seed(r)
  <2>1. PICK edge \in boot[r].todo : AddRule(r, edge)
    BY <1>2 DEF Seed
  <2>2. edge \in Rule
    BY <1>2, RuleTyped DEF Seed, At, TInv, Booting
  <2> QED BY <1>2, <2>1, <2>2, RuleStep DEF Seed
<1>3. CASE CreateAdmin(r)
  <2>1. CASE Halt(r) /\ UNCHANGED <<db, maker, born>>
    BY <1>3, <2>1, SameRows DEF CreateAdmin, users
  <2>2. ASSUME NEW i \in UserId, NewUser(r, i, AdminProfile, "start"), ~NameTaken(view[r], Admin)
        PROVE  UserStep
    <3>1. view[r] = db /\ AdminProfile.name = Admin /\ AdminProfile.ext = NoName
      BY <2>2 DEF NewUser, Commit, AdminProfile
    <3>2. ~dup' => ~dup /\ ~NameTaken(db, Admin)
      BY <1>3, <2>2, <3>1 DEF CreateAdmin
    <3> QED BY <2>2, <3>1, <3>2, AdminTyped, NewUserStep
  <2> QED BY <1>3, <2>1, <2>2 DEF CreateAdmin
<1>4. CASE GrantAdmin(r) \/ GrantOperator(r)
  <2>1. boot[r].user \in UserId
    BY <1>4 DEF GrantAdmin, GrantOperator, At, TInv, Booting
  <2> QED BY <1>4, <2>1, RuleTyped, RuleStep DEF GrantAdmin, GrantOperator, Securable, Privilege
<1>5. CASE FindOperator(r)
  <2>1. PICK n \in boot[r].todo, i \in UserId : FindOrCreate(r, n, i)
    BY <1>5 DEF FindOperator
  <2>2. n \in Name
    BY <1>5, AccessAssumption DEF FindOperator, At, TInv, Booting
  <2> QED BY <2>1, <2>2, FindOrCreateStep
<1> QED BY <1>1, <1>2, <1>3, <1>4, <1>5 DEF Boot

LEMMA HandleStep ==
  ASSUME TInv, NEW c \in Client, Handle(c)
  PROVE  UserStep
<1>1. CASE \E r \in Replica : Authenticate(c, r)
  <2>1. PICK r \in Replica, req \in Requests, i \in UserId : FindOrCreate(r, req.sub, i)
    BY <1>1 DEF Authenticate
  <2>2. req.sub \in Name
    BY AccessAssumption
  <2> QED BY <2>1, <2>2, FindOrCreateStep
<1>2. CASE Check(c) \/ Answer(c)
  BY <1>2, SameRows DEF Check, Answer
<1>3. CASE CreateRow(c)
  <2>1. db'.users = db.users /\ db'.byName = db.byName
    BY <1>3 DEF CreateRow, Commit, TInv, UsersTyped, Database
  <2> QED BY <1>3, <2>1 DEF CreateRow, UserStep, RowsSame
<1>4. CASE Resolve(c)
  <2>1. call[c].at \in Replica /\ call[c].req.who \in Name
    BY <1>4, CallIs, AccessAssumption DEF Resolve, Calling, Call
  <2>2. CASE UNCHANGED <<db, view, users>>
    <3>1. db' = db /\ UNCHANGED users
      BY <2>2
    <3> QED BY <3>1, SameRows
  <2>3. CASE \E i \in UserId : FindOrCreate(call[c].at, call[c].req.who, i)
    BY <2>1, <2>3, FindOrCreateStep
  <2> QED BY <1>4, <2>2, <2>3 DEF Resolve
<1>5. CASE Apply(c)
  BY <1>5, TargetTyped, RuleStep DEF Apply
<1>6. CASE LinkChild(c)
  <2>1. call[c].at \in Replica /\ call[c].req.on \in Catalog
    BY <1>6, TargetTyped DEF LinkChild, Calling
  <2> QED BY <1>6, <2>1, RuleTyped, RuleStep DEF LinkChild
<1> QED BY <1>1, <1>2, <1>3, <1>4, <1>5, <1>6 DEF Handle

LEMMA ScimStep ==
  ASSUME TInv, NEW r \in Replica,
         ScimCreate(r) \/ ScimUpdate(r) \/ ScimDelete(r) \/ CatchUp(r) \/ Stop(r)
  PROVE  UserStep
<1>1. CASE ScimCreate(r)
  <2>1. PICK p \in Profiles, i \in UserId : ~NameTaken(view[r], p.name) /\ NewUser(r, i, p, "scim")
    BY <1>1 DEF ScimCreate
  <2>2. view[r] = db /\ p \in Profile
    BY <2>1, AccessAssumption DEF NewUser, Commit
  <2>3. ~dup' => ~dup /\ ~NameTaken(db, p.name)
    BY <1>1, <2>1, <2>2 DEF ScimCreate, ScimUnchanged
  <2> QED BY <2>1, <2>2, <2>3, NewUserStep
<1>2. CASE ScimUpdate(r)
  <2>1. PICK i \in Live(view[r]), n \in Name :
          ~NameTaken(view[r], n) /\ Commit(r, PutUser(db, i, [db.users[i] EXCEPT !.name = n]))
    BY <1>2 DEF ScimUpdate
  <2> DEFINE row == [db.users[i] EXCEPT !.name = n]
  <2>2. i \in UserId /\ db.users[i] # NoUser /\ view[r] = db
    BY <2>1 DEF Live, Commit
  <2>3. row \in Profile /\ row.name = n
    <3>1. db.users[i] \in Profile
      BY <2>2 DEF TInv, UsersTyped, Database
    <3> QED BY <3>1 DEF Profile
  <2>4. db' = PutUser(db, i, row)
    BY <2>1 DEF Commit
  <2>5. db'.users = [db.users EXCEPT ![i] = row] /\ db'.byName = [Unnamed(db, i) EXCEPT ![n] = i]
    <3> HIDE DEF row
    <3>1. db \in Database
      BY DEF TInv, UsersTyped
    <3>2. db'.users = [db.users EXCEPT ![i] = row] /\ db'.byName = [Unnamed(db, i) EXCEPT ![row.name] = i]
      BY <2>2, <2>3, <2>4, <3>1, PutUserTyped
    <3> QED BY <2>3, <3>2
  <2>6. UNCHANGED users
    BY <1>2 DEF ScimUpdate, ScimUnchanged, users
  <2>7. Renamed(i, n)
    BY <2>1, <2>2, <2>5, <2>6 DEF Renamed
  <2> QED BY <2>2, <2>7 DEF UserStep
<1>3. CASE ScimDelete(r)
  <2>1. PICK i \in Live(view[r]) : Commit(r, DropUser(db, i))
    BY <1>3 DEF ScimDelete
  <2>2. i \in UserId /\ db.users[i] # NoUser /\ db' = DropUser(db, i) /\ db \in Database
    BY <2>1 DEF Live, Commit, TInv, UsersTyped
  <2>3. UNCHANGED users
    BY <1>3 DEF ScimDelete, ScimUnchanged, users
  <2> QED BY <2>2, <2>3, DropUserTyped DEF UserStep, Dropped
<1>4. CASE CatchUp(r) \/ Stop(r)
  BY <1>4, SameRows DEF CatchUp, Stop
<1> QED BY <1>1, <1>2, <1>3, <1>4

LEMMA NextUserStep == TInv /\ [Next]_vars => UserStep
<1>1. UNCHANGED vars => db' = db /\ UNCHANGED users
  BY DEF vars, users
<1> QED BY <1>1, SameRows, BootStep, HandleStep, ScimStep DEF Next

\* Ids are not used twice, and what identifies a user does not change.
UserInv ==
  /\ \A i \in Live(db) : maker[i] # "none" /\ db.users[i].ext = born[i].ext /\ db.users[i].email = born[i].email
  /\ NamesUniqueUntilProvisioned
  /\ OneUserPerSub

LEMMA LiveIs == \A d, i : i \in Live(d) <=> i \in UserId /\ d.users[i] # NoUser
BY DEF Live

LEMMA RowsTyped ==
  ASSUME TInv
  PROVE  /\ db.users \in [UserId -> Profile \cup {NoUser}]
         /\ db.byName \in [Name -> UserId \cup {NoId}]
         /\ \A i \in Live(db) : db.users[i] \in Profile
         /\ NoId \notin UserId
         /\ NoUser \notin Profile
         /\ UserId \subseteq Int
<1>1. db \in Database /\ MaxUsers \in Nat
  BY AccessAssumption DEF TInv, UsersTyped
<1>2. db.users \in [UserId -> Profile \cup {NoUser}] /\ db.byName \in [Name -> UserId \cup {NoId}]
  BY <1>1 DEF Database
<1>3. NoId \notin UserId /\ UserId \subseteq Int
  BY <1>1 DEF NoId, UserId
<1>4. NoUser \notin Profile
  BY AccessAssumption DEF NoUser, Profile
<1>5. \A i \in Live(db) : db.users[i] \in Profile
  BY <1>2, LiveIs
<1> QED BY <1>2, <1>3, <1>4, <1>5

\* Without a taken name before it, the index leads to nobody who is not there.
LEMMA NotTaken ==
  ASSUME TInv, NamesUniqueUntilProvisioned, ~dup, NEW n \in Name, ~NameTaken(db, n)
  PROVE  db.byName[n] = NoId /\ \A i \in Live(db) : db.users[i].name # n
<1>1. db.byName[n] \in UserId => FALSE
  <2> SUFFICES ASSUME NEW i \in UserId, db.byName[n] = i
               PROVE  FALSE
    OBVIOUS
  <2>1. i \in Live(db) /\ i # NoId
    BY RowsTyped DEF NamesUniqueUntilProvisioned
  <2> QED BY <2>1, LiveIs DEF NameTaken
<1>2. db.byName[n] = NoId
  <2>1. db.byName[n] \in UserId \cup {NoId}
    BY RowsTyped
  <2> QED BY <1>1, <2>1
<1>3. ASSUME NEW i \in Live(db), db.users[i].name = n PROVE FALSE
  <2>1. i \in UserId /\ NoId \notin UserId
    BY <1>3, LiveIs, RowsTyped
  <2>2. db.byName[n] = i
    BY <1>3, <2>1 DEF NamesUniqueUntilProvisioned
  <2> QED BY <1>2, <2>1, <2>2
<1> QED BY <1>2, <1>3

LEMMA CreatedInv ==
  ASSUME TInv, UserInv, NEW new \in UserId, NEW row \in Profile,
         NEW by \in {"start", "token", "scim"}, Created(new, row, by)
  PROVE  UserInv'
<1>1. /\ new \notin Live(db)
      /\ \A i \in UserId : db'.users[i] = IF i = new THEN row ELSE db.users[i]
      /\ \A i \in UserId : born'[i] = IF i = new THEN row ELSE born[i]
      /\ \A i \in UserId : maker'[i] = IF i = new THEN by ELSE maker[i]
      /\ row # NoUser
  BY RowsTyped DEF Created, UserInv, TInv, UsersTyped
<1>2. \A i \in UserId : i \in Live(db') <=> i = new \/ i \in Live(db)
  BY <1>1, LiveIs
<1>3. \A i \in Live(db') : maker'[i] # "none" /\ db'.users[i].ext = born'[i].ext /\ db'.users[i].email = born'[i].email
  <2> SUFFICES ASSUME NEW i \in Live(db')
               PROVE  maker'[i] # "none" /\ db'.users[i].ext = born'[i].ext /\ db'.users[i].email = born'[i].email
    OBVIOUS
  <2>1. i \in UserId
    BY LiveIs
  <2>2. CASE i = new
    BY <1>1, <2>1, <2>2
  <2>3. CASE i # new
    BY <1>1, <1>2, <2>1, <2>3 DEF UserInv
  <2> QED BY <2>2, <2>3
<1>4. OneUserPerSub'
  <2> SUFFICES ASSUME NEW i \in Live(db'), NEW j \in Live(db'),
                      maker'[i] = "token", maker'[j] = "token", born'[i].ext = born'[j].ext
               PROVE  i = j
    BY DEF OneUserPerSub
  <2>1. i \in UserId /\ j \in UserId
    BY LiveIs
  <2>2. ASSUME NEW k \in Live(db), by = "token"
        PROVE  born[k].ext # row.ext
    <3>1. {x \in Live(db) : db.users[x].ext = row.ext} = {}
      BY <2>2, FirstIs DEF Created, ByExternalId, Live
    <3> QED BY <3>1 DEF UserInv
  <2>3. CASE i # new /\ j # new
    BY <1>1, <1>2, <2>1, <2>3 DEF UserInv, OneUserPerSub
  <2>4. CASE i = new /\ j # new
    BY <1>1, <1>2, <2>1, <2>2, <2>4
  <2>5. CASE i # new /\ j = new
    BY <1>1, <1>2, <2>1, <2>2, <2>5
  <2> QED BY <2>3, <2>4, <2>5
<1>5. NamesUniqueUntilProvisioned'
  <2> SUFFICES ASSUME ~dup', NEW i \in UserId, NEW n \in Name
               PROVE  db'.byName[n] = i <=> i \in Live(db') /\ db'.users[i].name = n
    BY DEF NamesUniqueUntilProvisioned
  <2>1. ~dup /\ row.name \in Name /\ db.byName[row.name] = NoId
        /\ \A k \in Live(db) : db.users[k].name # row.name
    BY NotTaken DEF Created, UserInv, Profile
  <2>2. db'.byName[n] = IF n = row.name THEN new ELSE db.byName[n]
    BY <1>1, RowsTyped, LiveIs DEF Created, Unnamed
  <2>3. db.byName[n] = i <=> i \in Live(db) /\ db.users[i].name = n
    BY <2>1 DEF UserInv, NamesUniqueUntilProvisioned
  <2> QED BY <1>1, <1>2, <2>1, <2>2, <2>3
<1> QED BY <1>3, <1>4, <1>5 DEF UserInv

\* Nothing but names changes, or fewer users are left.
LEMMA IdentsKept ==
  ASSUME TInv, UserInv, UNCHANGED users, Live(db') \subseteq Live(db),
         \A i \in Live(db') : db'.users[i].ext = db.users[i].ext /\ db'.users[i].email = db.users[i].email,
         NamesUniqueUntilProvisioned'
  PROVE  UserInv'
<1>1. \A i \in Live(db') : maker'[i] # "none" /\ db'.users[i].ext = born'[i].ext /\ db'.users[i].email = born'[i].email
  BY DEF UserInv, users
<1>2. OneUserPerSub'
  BY DEF UserInv, OneUserPerSub, users
<1> QED BY <1>1, <1>2 DEF UserInv

LEMMA RenamedInv ==
  ASSUME TInv, UserInv, NEW i \in UserId, NEW n \in Name, Renamed(i, n)
  PROVE  UserInv'
<1> DEFINE row == [db.users[i] EXCEPT !.name = n]
<1>1. db.users[i] \in Profile
  BY RowsTyped, LiveIs DEF Renamed
<1>2. /\ row \in Profile /\ row.name = n
      /\ row.ext = db.users[i].ext /\ row.email = db.users[i].email
  BY <1>1 DEF Profile
<1>3. \A k \in UserId : db'.users[k] = IF k = i THEN row ELSE db.users[k]
  BY RowsTyped DEF Renamed
<1> HIDE DEF row
<1>4. \A k : k \in Live(db') <=> k \in Live(db)
  BY <1>1, <1>2, <1>3, LiveIs, RowsTyped
<1>5. NamesUniqueUntilProvisioned'
  <2> SUFFICES ASSUME ~dup', NEW k \in UserId, NEW m \in Name
               PROVE  db'.byName[m] = k <=> k \in Live(db') /\ db'.users[k].name = m
    BY DEF NamesUniqueUntilProvisioned
  <2>1. /\ ~dup /\ db.byName[n] = NoId
        /\ \A j \in Live(db) : db.users[j].name # n
    BY NotTaken DEF Renamed, UserInv, users
  <2>2. db.users[i].name \in Name /\ i \in Live(db)
    BY <1>1, LiveIs, RowsTyped DEF Profile
  <2>3. db'.byName[m] = IF m = n THEN i ELSE IF m = db.users[i].name THEN NoId ELSE db.byName[m]
    BY <1>1, <2>2, RowsTyped DEF Renamed, Unnamed
  <2>4. \A j \in UserId : db.byName[m] = j <=> j \in Live(db) /\ db.users[j].name = m
    BY <2>1 DEF UserInv, NamesUniqueUntilProvisioned
  <2>5. CASE m = n
    BY <1>2, <1>3, <1>4, <2>1, <2>2, <2>3, <2>5
  <2>6. CASE m # n /\ m = db.users[i].name
    <3>1. db.byName[m] = i
      BY <2>2, <2>4, <2>6
    <3> QED BY <1>2, <1>3, <1>4, <2>3, <2>4, <2>6, <3>1, RowsTyped
  <2>7. CASE m # n /\ m # db.users[i].name
    BY <1>2, <1>3, <1>4, <2>3, <2>4, <2>7
  <2> QED BY <2>5, <2>6, <2>7
<1>6. \A k \in Live(db') : db'.users[k].ext = db.users[k].ext /\ db'.users[k].email = db.users[k].email
  BY <1>2, <1>3, LiveIs
<1>7. Live(db') \subseteq Live(db) /\ UNCHANGED users
  BY <1>4 DEF Renamed
<1> QED BY <1>5, <1>6, <1>7, IdentsKept

LEMMA DroppedInv ==
  ASSUME TInv, UserInv, NEW i \in UserId, Dropped(i)
  PROVE  UserInv'
<1>1. db.users[i] \in Profile /\ i \in Live(db)
  BY RowsTyped, LiveIs DEF Dropped
<1>2. \A k \in UserId : db'.users[k] = IF k = i THEN NoUser ELSE db.users[k]
  BY RowsTyped DEF Dropped
<1>3. \A k : k \in Live(db') <=> k \in Live(db) /\ k # i
  BY <1>2, LiveIs
<1>4. NamesUniqueUntilProvisioned'
  <2> SUFFICES ASSUME ~dup', NEW k \in UserId, NEW m \in Name
               PROVE  db'.byName[m] = k <=> k \in Live(db') /\ db'.users[k].name = m
    BY DEF NamesUniqueUntilProvisioned
  <2>1. \A j \in UserId : db.byName[m] = j <=> j \in Live(db) /\ db.users[j].name = m
    BY DEF Dropped, users, UserInv, NamesUniqueUntilProvisioned
  <2>2. db'.byName[m] = IF m = db.users[i].name THEN NoId ELSE db.byName[m]
    BY <1>1, RowsTyped DEF Dropped, Unnamed, Profile
  <2>3. CASE m = db.users[i].name
    <3>1. db.byName[m] = i
      BY <1>1, <2>1, <2>3
    <3> QED BY <1>2, <1>3, <2>1, <2>2, <2>3, <3>1, RowsTyped
  <2>4. CASE m # db.users[i].name
    BY <1>1, <1>2, <1>3, <2>1, <2>2, <2>4
  <2> QED BY <2>3, <2>4
<1>5. \A k \in Live(db') : db'.users[k].ext = db.users[k].ext /\ db'.users[k].email = db.users[k].email
  BY <1>2, <1>3, LiveIs
<1> QED BY <1>3, <1>4, <1>5, IdentsKept DEF Dropped

LEMMA SameRowsInv ==
  ASSUME UserInv, RowsSame
  PROVE  UserInv'
<1>1. Live(db') = Live(db)
  BY DEF RowsSame, Live
<1>2. NamesUniqueUntilProvisioned' /\ OneUserPerSub'
  BY <1>1 DEF RowsSame, users, UserInv, NamesUniqueUntilProvisioned, OneUserPerSub
<1> QED BY <1>1, <1>2 DEF RowsSame, users, UserInv

LEMMA InitUsers == Init => UserInv
<1> SUFFICES ASSUME Init
             PROVE  UserInv
  OBVIOUS
<1>1. Live(db) = {}
  BY DEF Init, EmptyDatabase, Live
<1>2. \A n \in Name : db.byName[n] = NoId
  BY DEF Init, EmptyDatabase
<1>3. NoId \notin UserId
  BY AccessAssumption DEF NoId, UserId
<1> QED BY <1>1, <1>2, <1>3 DEF UserInv, NamesUniqueUntilProvisioned, OneUserPerSub

LEMMA NextUsers == TInv /\ UserInv /\ [Next]_vars => UserInv'
BY NextUserStep, SameRowsInv, CreatedInv, RenamedInv, DroppedInv DEF UserStep

LEMMA AlwaysUsers == Spec => []UserInv
BY InitUsers, NextUsers, AlwaysTyped, PTL DEF Spec

\* uc_users.name is unique and its index right, until a token's subject is a
\* name that somebody has (user::create, user::update and
\* user::find_or_create_by_external_id).
THEOREM NamesUnique == Spec => []NamesUniqueUntilProvisioned
<1>1. UserInv => NamesUniqueUntilProvisioned
  BY DEF UserInv
<1> QED BY <1>1, AlwaysUsers, PTL

\* Tokens with one subject never get two users, whichever replicas they arrive
\* at (user::find_or_create_by_external_id looks inside its commit).
THEOREM SubjectsHaveOneUser == Spec => []OneUserPerSub
<1>1. UserInv => OneUserPerSub
  BY DEF UserInv
<1> QED BY <1>1, AlwaysUsers, PTL

\* Two sets that have each other's smallest id have the same smallest id.
LEMMA FirstStays ==
  ASSUME TInv, NEW old \in SUBSET UserId, NEW new \in SUBSET UserId,
         First(old) \in new, First(new) \in old
  PROVE  First(new) = First(old)
<1>1. MaxUsers \in Nat /\ NoId \notin UserId
  BY AccessAssumption, RowsTyped
<1>2. First(old) # NoId /\ First(new) # NoId
  BY <1>1
<1>3. First(old) \in old /\ \A j \in old : First(old) <= j
  BY <1>2, FirstIs
<1>4. First(new) \in new /\ \A j \in new : First(new) <= j
  BY <1>2, FirstIs
<1>5. First(old) <= First(new) /\ First(new) <= First(old)
  BY <1>3, <1>4
<1>6. First(old) \in Int /\ First(new) \in Int
  BY RowsTyped
<1> QED BY <1>5, <1>6

\* Users who were there keep what identifies them, and a new one was made by
\* this step: by a token's subject nobody has, or by a start that knows none.
IdentsStay ==
  /\ \A i \in Live(db) \cap Live(db') :
       db'.users[i].ext = db.users[i].ext /\ db'.users[i].email = db.users[i].email
  /\ \A i \in Live(db') \ Live(db) :
       /\ maker'[i] \in {"start", "token", "scim"}
       /\ maker'[i] = "start" => db'.users[i].ext = NoName
       /\ maker'[i] = "token" =>
            db'.users[i].email = NoName /\ ByExternalId(db, db'.users[i].ext) = NoId

LEMMA IdentStep ==
  ASSUME TInv, UserInv, UserStep
  PROVE  IdentsStay
<1>1. CASE RowsSame
  BY <1>1 DEF RowsSame, Live, IdentsStay
<1>2. ASSUME NEW new \in UserId, NEW row \in Profile, NEW by \in {"start", "token", "scim"},
             Created(new, row, by)
      PROVE  IdentsStay
  <2>1. \A i \in UserId : db'.users[i] = IF i = new THEN row ELSE db.users[i]
    BY <1>2, RowsTyped DEF Created
  <2>2. new \notin Live(db) /\ maker'[new] = by
    BY <1>2 DEF Created, UserInv, TInv, UsersTyped
  <2>3. \A i \in Live(db') \ Live(db) : i = new
    BY <2>1, LiveIs
  <2>4. \A i \in Live(db) \cap Live(db') : db'.users[i] = db.users[i]
    BY <2>1, <2>2, LiveIs
  <2>5. db'.users[new] = row
    BY <2>1
  <2> QED BY <1>2, <2>2, <2>3, <2>4, <2>5 DEF IdentsStay, Created
<1>3. ASSUME NEW i \in UserId, NEW m \in Name, Renamed(i, m)
      PROVE  IdentsStay
  <2> DEFINE row == [db.users[i] EXCEPT !.name = m]
  <2>1. db.users[i] \in Profile
    BY <1>3, RowsTyped, LiveIs DEF Renamed
  <2>2. row.ext = db.users[i].ext /\ row.email = db.users[i].email
    BY <2>1 DEF Profile
  <2>3. \A k \in UserId : db'.users[k] = IF k = i THEN row ELSE db.users[k]
    BY <1>3, RowsTyped DEF Renamed
  <2> HIDE DEF row
  <2>4. i \in Live(db)
    BY <1>3, LiveIs DEF Renamed
  <2>5. \A k \in Live(db') : k \in Live(db)
    BY <2>3, <2>4, LiveIs
  <2>6. \A k \in Live(db) : db'.users[k].ext = db.users[k].ext /\ db'.users[k].email = db.users[k].email
    BY <2>2, <2>3, LiveIs
  <2> QED BY <2>5, <2>6 DEF IdentsStay
<1>4. ASSUME NEW i \in UserId, Dropped(i)
      PROVE  IdentsStay
  <2>1. \A k \in UserId : db'.users[k] = IF k = i THEN NoUser ELSE db.users[k]
    BY <1>4, RowsTyped DEF Dropped
  <2> QED BY <2>1, LiveIs DEF IdentsStay
<1> QED BY <1>1, <1>2, <1>3, <1>4 DEF UserStep

LEMMA SubjectStep ==
  ASSUME TInv, UserInv, UserStep, NEW n \in Name
  PROVE  /\ ByExternalId(db, n) \in Live(db') =>
              \/ ByExternalId(db', n) = ByExternalId(db, n)
              \/ MadeNow(ByExternalId(db', n), {"scim"})
         /\ ByEmail(db, n) \in Live(db') =>
              \/ ByEmail(db', n) = ByEmail(db, n)
              \/ MadeNow(ByEmail(db', n), {"scim", "start"})
<1> DEFINE old(f) == {i \in Live(db) : db.users[i][f] = n}
           new(f) == {i \in Live(db') : db'.users[i][f] = n}
<1>1. IdentsStay /\ n # NoName /\ NoId \notin UserId
  BY IdentStep, RowsTyped, AccessAssumption
<1>2. ASSUME NEW f \in {"ext", "email"}, First(old(f)) \in Live(db'), First(new(f)) \in Live(db)
      PROVE  First(new(f)) = First(old(f))
  <2>1. old(f) \in SUBSET UserId /\ new(f) \in SUBSET UserId
    BY LiveIs
  <2>2. First(old(f)) # NoId /\ First(new(f)) # NoId
    BY <1>1, <1>2, LiveIs
  <2>3. First(old(f)) \in old(f) /\ First(new(f)) \in new(f)
    <3> HIDE DEF old, new
    <3> QED BY <2>1, <2>2, FirstIs
  <2>4. First(old(f)) \in new(f) /\ First(new(f)) \in old(f)
    BY <1>1, <1>2, <2>3 DEF IdentsStay
  <2> HIDE DEF old, new
  <2> QED BY <2>1, <2>4, FirstStays
<1>3. ASSUME NEW f \in {"ext", "email"}, First(old(f)) \in Live(db')
      PROVE  First(new(f)) \in new(f)
  <2>1. old(f) \in SUBSET UserId /\ new(f) \in SUBSET UserId
    BY LiveIs
  <2>2. First(old(f)) # NoId
    BY <1>1, <1>3, LiveIs
  <2>3. First(old(f)) \in old(f)
    <3> HIDE DEF old
    <3> QED BY <2>1, <2>2, FirstIs
  <2>4. First(old(f)) \in new(f)
    BY <1>1, <1>3, <2>3 DEF IdentsStay
  <2>5. new(f) # {}
    BY <2>4
  <2> HIDE DEF old, new
  <2> QED BY <2>1, <2>5, FirstIs
<1>4. ASSUME First(old("ext")) \in Live(db'), First(new("ext")) \notin Live(db)
      PROVE  MadeNow(First(new("ext")), {"scim"})
  <2>1. PICK k \in Live(db') \ Live(db) : k = First(new("ext")) /\ db'.users[k].ext = n
    BY <1>3, <1>4
  <2>2. ByExternalId(db, n) # NoId
    BY <1>1, <1>4, LiveIs DEF ByExternalId
  <2> QED BY <1>1, <2>1, <2>2 DEF IdentsStay, MadeNow
<1>5. ASSUME First(old("email")) \in Live(db'), First(new("email")) \notin Live(db)
      PROVE  MadeNow(First(new("email")), {"scim", "start"})
  <2>1. PICK k \in Live(db') \ Live(db) : k = First(new("email")) /\ db'.users[k].email = n
    BY <1>3, <1>5
  <2> QED BY <1>1, <2>1 DEF IdentsStay, MadeNow
<1> QED BY <1>2, <1>4, <1>5 DEF ByExternalId, ByEmail

\* Whoever a subject or an email leads to keeps it while there is that user, but
\* for one that an administrator creates, or a start for the admin's email,
\* under a smaller id: no login, rename or removal moves it, however many
\* replicas meet the subject at once (user::first_where,
\* user::find_or_create_by_external_id).
THEOREM SubjectsStay == Spec => SubjectsKeepTheirUser
<1>1. TInv /\ UserInv /\ [Next]_vars =>
        [\A n \in Name :
           /\ ByExternalId(db, n) \in Live(db') =>
                \/ ByExternalId(db', n) = ByExternalId(db, n)
                \/ MadeNow(ByExternalId(db', n), {"scim"})
           /\ ByEmail(db, n) \in Live(db') =>
                \/ ByEmail(db', n) = ByEmail(db, n)
                \/ MadeNow(ByEmail(db', n), {"scim", "start"})]_vars
  BY NextUserStep, SubjectStep
<1> QED BY <1>1, AlwaysTyped, AlwaysUsers, PTL DEF Spec, SubjectsKeepTheirUser

-----------------------------------------------------------------------------
(* What has been.  A snapshot, however old, holds no rule that is neither   *)
(* there nor was removed, and no user that was not created as it shows.     *)

\* The rules that are there or were removed.
Past == db.rules \cup revoked

\* A replica's memory follows its own snapshot up to what changed behind its back.
ViewAgrees(r) ==
  boot[r].phase # "down" =>
    view[r].rules \subseteq mem[r] \cup foreign[r] /\ mem[r] \subseteq view[r].rules \cup foreign[r]

PastInv ==
  \A r \in Replica : view[r].rules \subseteq Past /\ ViewAgrees(r)

AsCreated(d) ==
  \A i \in Live(d) : maker[i] # "none" /\ d.users[i].ext = born[i].ext /\ d.users[i].email = born[i].email

BornInv ==
  /\ \A r \in Replica : AsCreated(view[r])
  /\ \A i \in UserId : maker[i] = "none" => born[i] = NoUser

\* Somebody with the operator's subject was given the grant, and whatever
\* became of it the replica knows or was revoked.
Served(r, n) ==
  \E i \in UserId :
    maker[i] # "none" /\ born[i].ext = n /\ Grant(i, Metastore, Owner) \in mem[r] \cup foreign[r] \cup revoked

\* The operator a start has found and has not granted anything yet.
Found(r, n) ==
  boot[r].phase = "operatorOwn" /\ maker[boot[r].user] # "none" /\ born[boot[r].user].ext = n

OperatorInv ==
  \A r \in Replica :
    /\ boot[r].phase \in {"operator", "operatorOwn", "up"} =>
         \A n \in Operators : n \in boot[r].todo \/ Served(r, n) \/ Found(r, n)
    /\ boot[r].phase = "up" => boot[r].todo = {}

\* The subject in a request's claims is one of the user it was resolved to.
Claims(c) ==
  call[c] # Idle =>
    /\ call[c].user \in UserId /\ maker[call[c].user] # "none"
    /\ call[c].sub \in Idents(call[c].user)
    /\ boot[call[c].at].phase = "up"

Told(c) ==
  call[c].stage = "answer" /\ ~call[c].crossed =>
    \/ Target(c) \in foreign[call[c].at]
    \/ Target(c) \in mem[call[c].at] <=> call[c].req.op # "revoke"

\* What a step does to a replica that runs before and after it: nothing but
\* that its snapshot may catch up and rules may change behind its back, or a
\* commit of its own after which its snapshot is the newest.
Seen == \A s \in Replica : view'[s] \in {view[s], db'}

Beside(s) == mem'[s] = mem[s] /\ foreign[s] \subseteq foreign'[s] /\ view'[s] \in {view[s], db'}

Ahead(s) == view'[s] = db' /\ mem[s] \cup foreign[s] \subseteq mem'[s] \cup foreign'[s] \cup revoked'

Moves(s) == Beside(s) \/ Ahead(s)

Grows == Past \subseteq Past' /\ revoked \subseteq revoked'

LEMMA CommitSeen ==
  ASSUME TInv, NEW r \in Replica, NEW d, Commit(r, d)
  PROVE  Seen /\ view'[r] = db'
BY DEF Commit, Seen, TInv, UsersTyped

LEMMA QuietMoves ==
  ASSUME db'.rules = db.rules, UNCHANGED rules, Seen
  PROVE  Grows /\ \A s \in Replica : Moves(s)
BY DEF Grows, Past, Moves, Beside, Seen, rules

LEMMA NewUserMoves ==
  ASSUME TInv, NEW r \in Replica, NEW i, NEW row \in Profile, NEW by, NewUser(r, i, row, by)
  PROVE  db'.rules = db.rules /\ Seen
BY NewUserRows, CommitSeen DEF NewUser

LEMMA FindOrCreateMoves ==
  ASSUME TInv, NEW r \in Replica, NEW n \in Name, NEW i, FindOrCreate(r, n, i)
  PROVE  db'.rules = db.rules /\ Seen
<1>1. CASE UNCHANGED <<db, view, users>>
  BY <1>1 DEF Seen
<1>2. CASE NewUser(r, i, Provisioned(n), "token")
  BY <1>2, NewUserMoves, ProvisionedTyped
<1> QED BY <1>1, <1>2 DEF FindOrCreate

LEMMA AddMoves ==
  ASSUME TInv, NEW r \in Replica, NEW rule \in Rule, AddRule(r, rule) \/ RemoveRule(r, rule) \/ NoChange
  PROVE  /\ Seen /\ Grows
         /\ \A s \in Replica : Moves(s) /\ (s # r => Beside(s))
<1>1. CASE NoChange
  BY <1>1 DEF NoChange, Seen, Grows, Past, Moves, Beside, rules
<1>2. CASE /\ Commit(r, WithRule(db, rule))
           /\ \/ mem' = [mem EXCEPT ![r] = @ \cup {rule}] /\ foreign' = Others(r, rule)
              \/ foreign' = Everyone(rule) /\ UNCHANGED mem
           /\ UNCHANGED revoked
  <2>1. db'.rules = db.rules \cup {rule} /\ Seen /\ view'[r] = db'
    BY <1>2, CommitSeen, WithRuleTyped DEF Commit, TInv, UsersTyped
  <2>2. Grows
    BY <1>2, <2>1 DEF Grows, Past
  <2>3. ASSUME NEW s \in Replica PROVE Moves(s) /\ (s # r => Beside(s))
    <3>1. CASE s = r
      <4>1. \/ mem'[r] = mem[r] \cup {rule} /\ foreign'[r] = foreign[r] \ {rule}
            \/ mem'[r] = mem[r] /\ foreign'[r] = foreign[r] \cup {rule}
        BY <1>2 DEF Others, Everyone, TInv, RulesTyped
      <4> QED BY <2>1, <3>1, <4>1 DEF Moves, Ahead
    <3>2. CASE s # r
      <4>1. mem'[s] = mem[s] /\ foreign'[s] = foreign[s] \cup {rule}
        BY <1>2, <3>2 DEF Others, Everyone, TInv, RulesTyped
      <4> QED BY <2>1, <3>2, <4>1 DEF Moves, Beside, Seen
    <3> QED BY <3>1, <3>2
  <2> QED BY <2>1, <2>2, <2>3
<1>3. CASE /\ Commit(r, WithoutRule(db, rule))
           /\ \/ mem' = [mem EXCEPT ![r] = @ \ {rule}] /\ foreign' = Others(r, rule)
              \/ foreign' = Everyone(rule) /\ UNCHANGED mem
           /\ revoked' = revoked \cup {rule}
  <2>1. db'.rules = db.rules \ {rule} /\ Seen /\ view'[r] = db'
    BY <1>3, CommitSeen, WithRuleTyped DEF Commit, TInv, UsersTyped
  <2>2. Grows
    BY <1>3, <2>1 DEF Grows, Past
  <2>3. ASSUME NEW s \in Replica PROVE Moves(s) /\ (s # r => Beside(s))
    <3>1. CASE s = r
      <4>1. \/ mem'[r] = mem[r] \ {rule} /\ foreign'[r] = foreign[r] \ {rule}
            \/ mem'[r] = mem[r] /\ foreign'[r] = foreign[r] \cup {rule}
        BY <1>3 DEF Others, Everyone, TInv, RulesTyped
      <4> QED BY <1>3, <2>1, <3>1, <4>1 DEF Moves, Ahead
    <3>2. CASE s # r
      <4>1. mem'[s] = mem[s] /\ foreign'[s] = foreign[s] \cup {rule}
        BY <1>3, <3>2 DEF Others, Everyone, TInv, RulesTyped
      <4> QED BY <2>1, <3>2, <4>1 DEF Moves, Beside, Seen
    <3> QED BY <3>1, <3>2
  <2> QED BY <2>1, <2>2, <2>3
<1> QED BY <1>1, <1>2, <1>3 DEF AddRule, RemoveRule

\* A rule that was asked to be added is there, or was removed.
LEMMA AddedPast ==
  ASSUME TInv, PastInv, NEW r \in Replica, NEW rule \in Rule, AddRule(r, rule)
  PROVE  rule \in Past'
<1>1. CASE rule \in view[r].rules /\ NoChange
  BY <1>1 DEF PastInv, Past, NoChange, rules
<1>2. CASE Commit(r, WithRule(db, rule))
  BY <1>2, WithRuleTyped DEF Commit, Past, TInv, UsersTyped
<1> QED BY <1>1, <1>2 DEF AddRule

\* One that ends or begins leaves the other replicas alone.
LEMMA HaltMoves ==
  ASSUME TInv, NEW r \in Replica, Halt(r), UNCHANGED revoked, db'.rules = db.rules,
         \A s \in Replica : s # r => view'[s] \in {view[s], db'}
  PROVE  /\ Grows /\ boot'[r].phase = "down"
         /\ \A s \in Replica : s # r => Moves(s) /\ boot'[s] = boot[s]
<1>1. Grows
  BY DEF Grows, Past
<1>2. boot'[r].phase = "down"
  BY DEF Halt, Down, TInv
<1>3. ASSUME NEW s \in Replica, s # r PROVE Moves(s) /\ boot'[s] = boot[s]
  <2>1. mem'[s] = mem[s] /\ foreign'[s] = foreign[s] /\ boot'[s] = boot[s]
    BY <1>3 DEF Halt, TInv, RulesTyped
  <2> QED BY <1>3, <2>1 DEF Moves, Beside
<1> QED BY <1>1, <1>2, <1>3

\* What every step does.
Moved ==
  /\ Grows /\ Snapshots
  /\ \A s \in Replica : boot[s].phase # "down" /\ boot'[s].phase # "down" => Moves(s)

LEMMA SeenMoved ==
  ASSUME Seen, Grows, \A s \in Replica : Moves(s)
  PROVE  Moved
BY DEF Moved, Seen, Snapshots

LEMMA StartMoved ==
  ASSUME TInv, NEW r \in Replica, Start(r)
  PROVE  Moved
<1>1. Grows /\ boot[r].phase = "down"
  BY DEF Start, Grows, Past, At
<1>2. Seen
  BY DEF Start, Seen, TInv, UsersTyped
<1>3. ASSUME NEW s \in Replica, s # r PROVE Moves(s)
  BY <1>2, <1>3 DEF Start, Moves, Beside, Seen, TInv, RulesTyped
<1> QED BY <1>1, <1>2, <1>3 DEF Moved, Seen, Snapshots

LEMMA HaltMoved ==
  ASSUME TInv, NEW r \in Replica, Halt(r), UNCHANGED revoked, db'.rules = db.rules,
         Seen \/ view' = [view EXCEPT ![r] = EmptyDatabase]
  PROVE  Moved
<1>1. \A s \in Replica : s # r => view'[s] \in {view[s], db'}
  BY DEF Seen, TInv, UsersTyped
<1>2. Snapshots
  BY DEF Seen, Snapshots, TInv, UsersTyped
<1> QED BY <1>1, <1>2, HaltMoves DEF Moved

LEMMA BootMoved ==
  ASSUME TInv, NEW r \in Replica, Boot(r)
  PROVE  Moved
<1>1. CASE FindAdmin(r) \/ Serve(r)
  BY <1>1, QuietMoves, SeenMoved DEF FindAdmin, Serve, Seen
<1>2. CASE Seed(r)
  <2>1. PICK edge \in boot[r].todo : AddRule(r, edge)
    BY <1>2 DEF Seed
  <2>2. edge \in Rule
    BY <1>2, RuleTyped DEF Seed, At, TInv, Booting
  <2> QED BY <2>1, <2>2, AddMoves, SeenMoved
<1>3. CASE CreateAdmin(r)
  <2>1. ASSUME NEW i \in UserId, NewUser(r, i, AdminProfile, "start"), UNCHANGED rules
        PROVE  Moved
    BY <2>1, NewUserMoves, AdminTyped, QuietMoves, SeenMoved
  <2>2. ASSUME NEW i \in UserId, NewUser(r, i, AdminProfile, "start"), Halt(r), UNCHANGED revoked
        PROVE  Moved
    BY <2>2, NewUserMoves, AdminTyped, HaltMoved
  <2>3. CASE Halt(r) /\ UNCHANGED <<db, view, revoked>>
    BY <2>3, HaltMoved DEF Seen
  <2> QED BY <1>3, <2>1, <2>2, <2>3 DEF CreateAdmin, rules
<1>4. CASE GrantAdmin(r) \/ GrantOperator(r)
  <2>1. boot[r].user \in UserId
    BY <1>4 DEF GrantAdmin, GrantOperator, At, TInv, Booting
  <2> QED BY <1>4, <2>1, RuleTyped, AddMoves, SeenMoved
          DEF GrantAdmin, GrantOperator, Securable, Privilege
<1>5. CASE FindOperator(r)
  <2>1. PICK n \in boot[r].todo, i \in UserId : FindOrCreate(r, n, i)
    BY <1>5 DEF FindOperator
  <2>2. n \in Name
    BY <1>5, AccessAssumption DEF FindOperator, At, TInv, Booting
  <2> QED BY <1>5, <2>1, <2>2, FindOrCreateMoves, QuietMoves, SeenMoved DEF FindOperator
<1> QED BY <1>1, <1>2, <1>3, <1>4, <1>5, StartMoved DEF Boot

LEMMA HandleMoved ==
  ASSUME TInv, NEW c \in Client, Handle(c)
  PROVE  Moved /\ Seen
<1>1. CASE \E r \in Replica : Authenticate(c, r)
  <2>1. PICK r \in Replica, req \in Requests, i \in UserId :
          FindOrCreate(r, req.sub, i) /\ UNCHANGED rules
    BY <1>1 DEF Authenticate
  <2>2. req.sub \in Name
    BY AccessAssumption
  <2> QED BY <2>1, <2>2, FindOrCreateMoves, QuietMoves, SeenMoved
<1>2. CASE Check(c) \/ Answer(c)
  BY <1>2, QuietMoves, SeenMoved DEF Check, Answer, Seen
<1>3. CASE CreateRow(c)
  <2>1. call[c].at \in Replica
    BY <1>3, CallIs DEF CreateRow, Calling, Call
  <2>2. db'.rules = db.rules /\ Seen
    <3> DEFINE d == [db EXCEPT !.catalogs = @ \cup {call[c].req.on}]
    <3>1. d.rules = db.rules
      BY DEF TInv, UsersTyped, Database
    <3>2. Commit(call[c].at, d)
      BY <1>3 DEF CreateRow
    <3> HIDE DEF d
    <3> QED BY <2>1, <3>1, <3>2, CommitSeen DEF Commit
  <2> QED BY <1>3, <2>2, QuietMoves, SeenMoved DEF CreateRow
<1>4. CASE Resolve(c)
  <2>1. call[c].at \in Replica /\ call[c].req.who \in Name
    BY <1>4, CallIs, AccessAssumption DEF Resolve, Calling, Call
  <2>2. db'.rules = db.rules /\ Seen
    <3>1. CASE UNCHANGED <<db, view, users>>
      BY <3>1 DEF Seen
    <3>2. CASE \E i \in UserId : FindOrCreate(call[c].at, call[c].req.who, i)
      BY <2>1, <3>2, FindOrCreateMoves
    <3> QED BY <1>4, <3>1, <3>2 DEF Resolve
  <2> QED BY <1>4, <2>2, QuietMoves, SeenMoved DEF Resolve
<1>5. CASE Apply(c)
  <2>1. Target(c) \in Rule /\ call[c].at \in Replica
    BY <1>5, TargetTyped DEF Apply
  <2> QED BY <1>5, <2>1, AddMoves, SeenMoved DEF Apply
<1>6. CASE LinkChild(c)
  <2>1. call[c].at \in Replica /\ call[c].req.on \in Catalog
    BY <1>6, TargetTyped DEF LinkChild, Calling
  <2> QED BY <1>6, <2>1, RuleTyped, AddMoves, SeenMoved DEF LinkChild
<1> QED BY <1>1, <1>2, <1>3, <1>4, <1>5, <1>6 DEF Handle

LEMMA ScimMoved ==
  ASSUME TInv, NEW r \in Replica,
         ScimCreate(r) \/ ScimUpdate(r) \/ ScimDelete(r) \/ CatchUp(r)
  PROVE  Moved /\ Seen
<1>1. CASE ScimCreate(r)
  BY <1>1, NewUserMoves, AccessAssumption, QuietMoves, SeenMoved DEF ScimCreate, ScimUnchanged
<1>2. CASE ScimUpdate(r)
  <2>1. PICK i \in Live(view[r]), n \in Name :
          Commit(r, PutUser(db, i, [db.users[i] EXCEPT !.name = n]))
    BY <1>2 DEF ScimUpdate
  <2>3. db'.rules = db.rules /\ Seen
    <3> DEFINE row == [db.users[i] EXCEPT !.name = n]
    <3>1. Commit(r, PutUser(db, i, row))
      BY <2>1
    <3> HIDE DEF row
    <3>2. PutUser(db, i, row).rules = db.rules
      BY UserRowsOnly DEF TInv, UsersTyped
    <3> QED BY <3>1, <3>2, CommitSeen DEF Commit
  <2> QED BY <1>2, <2>3, QuietMoves, SeenMoved DEF ScimUpdate, ScimUnchanged
<1>3. CASE ScimDelete(r)
  <2>1. PICK i \in UserId : Commit(r, DropUser(db, i))
    BY <1>3 DEF ScimDelete, Live
  <2>2. db'.rules = db.rules /\ Seen
    BY <2>1, UserRowsOnly, CommitSeen DEF Commit, TInv, UsersTyped
  <2> QED BY <1>3, <2>2, QuietMoves, SeenMoved DEF ScimDelete, ScimUnchanged
<1>4. CASE CatchUp(r)
  <2>1. Seen
    BY <1>4 DEF CatchUp, Seen, TInv, UsersTyped
  <2> QED BY <1>4, <2>1, QuietMoves, SeenMoved DEF CatchUp
<1> QED BY <1>1, <1>2, <1>3, <1>4

LEMMA NextMoved == TInv /\ [Next]_vars => Moved
<1>1. ASSUME TInv, NEW r \in Replica, Stop(r) PROVE Moved
  BY <1>1, HaltMoved DEF Stop
<1>2. UNCHANGED vars => Moved
  <2>1. UNCHANGED vars => db' = db /\ view' = view /\ UNCHANGED rules
    BY DEF vars, rules
  <2> QED BY <2>1, QuietMoves, SeenMoved DEF Seen
<1> QED BY <1>1, <1>2, BootMoved, HandleMoved, ScimMoved DEF Next

\* A process begins with a load of the registry.
LEMMA OnlyStart ==
  ASSUME TInv, [Next]_vars, NEW s \in Replica, boot[s].phase = "down", boot'[s].phase # "down"
  PROVE  Start(s)
<1>1. ASSUME NEW r \in Replica, Boot(r) PROVE Start(s)
  <2>1. ASSUME r # s PROVE FALSE
    <3>1. boot'[s] = boot[s]
      BY <1>1, <2>1
         DEF Boot, Start, Seed, FindAdmin, CreateAdmin, GrantAdmin, FindOperator, GrantOperator,
             Serve, Step, Halt, TInv
    <3> QED BY <3>1
  <2>2. CASE r = s
    BY <1>1, <2>2 DEF Boot, Seed, FindAdmin, CreateAdmin, GrantAdmin, FindOperator, GrantOperator,
       Serve, At
  <2> QED BY <2>1, <2>2
<1>2. ASSUME NEW c \in Client, Handle(c) PROVE FALSE
  BY <1>2 DEF Handle, Authenticate, Check, CreateRow, Resolve, Apply, LinkChild, Answer
<1>3. ASSUME NEW r \in Replica, ScimCreate(r) \/ ScimUpdate(r) \/ ScimDelete(r) \/ CatchUp(r) PROVE FALSE
  BY <1>3 DEF ScimCreate, ScimUpdate, ScimDelete, CatchUp, ScimUnchanged
<1>4. ASSUME NEW r \in Replica, Stop(r) PROVE FALSE
  BY <1>4 DEF Stop, Halt, Down, TInv
<1>5. CASE UNCHANGED vars
  BY <1>5 DEF vars
<1> QED BY <1>1, <1>2, <1>3, <1>4, <1>5 DEF Next

LEMMA NextPast == TInv /\ RulesInv /\ PastInv /\ [Next]_vars => PastInv'
<1> SUFFICES ASSUME TInv, RulesInv, PastInv, [Next]_vars, NEW s \in Replica
             PROVE  view'[s].rules \subseteq Past' /\ ViewAgrees(s)'
  BY DEF PastInv
<1>1. Moved /\ RulesInv'
  BY NextMoved, NextRules
<1>2. view'[s].rules \subseteq Past'
  <2>1. view[s].rules \subseteq Past /\ Past \subseteq Past' /\ view'[s] \in {view[s], db', EmptyDatabase}
    BY <1>1 DEF PastInv, Moved, Grows, Snapshots
  <2> QED BY <2>1, EmptyTyped DEF Past
<1>3. ViewAgrees(s)'
  <2> SUFFICES ASSUME boot'[s].phase # "down"
               PROVE  /\ view'[s].rules \subseteq mem'[s] \cup foreign'[s]
                      /\ mem'[s] \subseteq view'[s].rules \cup foreign'[s]
    BY DEF ViewAgrees
  <2>1. Agree(s)'
    BY <1>1 DEF RulesInv, RepInv
  <2>2. CASE view'[s] = db'
    BY <2>1, <2>2 DEF Agree
  <2>3. CASE boot[s].phase = "down"
    <3>1. view'[s] = db'
      BY <2>3, OnlyStart DEF Start, TInv, UsersTyped
    <3> QED BY <2>2, <3>1
  <2>4. CASE boot[s].phase # "down" /\ view'[s] # db'
    <3>1. Beside(s)
      BY <1>1, <2>4 DEF Moved, Moves, Ahead
    <3> QED BY <2>4, <3>1 DEF Beside, PastInv, ViewAgrees
  <2> QED BY <2>2, <2>3, <2>4
<1> QED BY <1>2, <1>3

LEMMA AlwaysPast == Spec => []PastInv
<1>1. Init => PastInv
  BY EmptyTyped DEF Init, PastInv, Past, ViewAgrees, Down
<1> QED BY <1>1, NextPast, AlwaysTyped, AlwaysRules, PTL DEF Spec

\* Users are created under new ids, and what they were created as stays.
BornOnce ==
  \A i \in UserId : /\ maker[i] # "none" => born'[i] = born[i] /\ maker'[i] = maker[i]
                    /\ born'[i] # born[i] => maker'[i] # "none"

LEMMA NextBornOnce == TInv /\ [Next]_vars => BornOnce
<1> SUFFICES ASSUME TInv, [Next]_vars PROVE BornOnce
  OBVIOUS
<1>1. CASE UNCHANGED users
  BY <1>1 DEF BornOnce, users
<1>2. CASE \E i \in UserId, row \in Profile, by \in {"start", "token", "scim"} : Created(i, row, by)
  BY <1>2 DEF Created, BornOnce, TInv, UsersTyped
<1> QED BY <1>1, <1>2, NextUserStep DEF UserStep, RowsSame, Renamed, Dropped

LEMMA NextBorn == TInv /\ UserInv /\ BornInv /\ [Next]_vars => BornInv'
<1> SUFFICES ASSUME TInv, UserInv, BornInv, [Next]_vars PROVE BornInv'
  OBVIOUS
<1>1. BornOnce /\ UserInv' /\ Snapshots
  BY NextBornOnce, NextUsers, NextMoved DEF Moved
<1>2. ASSUME NEW r \in Replica PROVE AsCreated(view[r])'
  <2>1. CASE view'[r] = view[r]
    <3> SUFFICES ASSUME NEW i \in Live(view[r])
                 PROVE  /\ maker'[i] # "none" /\ view[r].users[i].ext = born'[i].ext
                        /\ view[r].users[i].email = born'[i].email
      BY <2>1 DEF AsCreated
    <3>1. /\ i \in UserId /\ maker[i] # "none" /\ view[r].users[i].ext = born[i].ext
          /\ view[r].users[i].email = born[i].email
      BY LiveIs DEF BornInv, AsCreated
    <3>2. born'[i] = born[i] /\ maker'[i] = maker[i]
      <4>1. BornOnce /\ i \in UserId /\ maker[i] # "none"
        BY <1>1, <3>1
      <4> QED BY <4>1 DEF BornOnce
    <3> QED BY <3>1, <3>2
  <2>2. CASE view'[r] = db'
    BY <1>1, <2>2 DEF UserInv, AsCreated
  <2>3. CASE view'[r] = EmptyDatabase
    <3>1. Live(view'[r]) = {}
      BY <2>3 DEF EmptyDatabase, Live
    <3> QED BY <3>1 DEF AsCreated
  <2> QED BY <1>1, <2>1, <2>2, <2>3 DEF Snapshots
<1>3. ASSUME NEW i \in UserId, maker'[i] = "none" PROVE born'[i] = NoUser
  <2>1. maker[i] = "none" /\ born'[i] = born[i]
    BY <1>1, <1>3 DEF BornOnce
  <2> QED BY <2>1 DEF BornInv
<1> QED BY <1>2, <1>3 DEF BornInv

LEMMA AlwaysBorn == Spec => []BornInv
<1>1. Init => BornInv
  BY DEF Init, BornInv, AsCreated, EmptyDatabase, Live
<1> QED BY <1>1, NextBorn, AlwaysTyped, AlwaysUsers, PTL DEF Spec

-----------------------------------------------------------------------------
(* The admin.  Only a start makes one, and it goes on to grant it OWNER or  *)
(* is cut off.                                                             *)

\* A start that created the admin stays there until it has granted it OWNER.
LEMMA OwnStays ==
  ASSUME TInv, PastInv, [Next]_vars, ~cut', NEW r \in Replica, boot[r].phase = "own"
  PROVE  \/ boot'[r] = boot[r]
         \/ Grant(boot[r].user, Metastore, Owner) \in Past'
<1>1. CASE GrantAdmin(r)
  <2>1. boot[r].user \in UserId
    BY <1>1 DEF GrantAdmin, At, TInv, Booting
  <2>2. Grant(boot[r].user, Metastore, Owner) \in Rule
    BY <2>1, RuleTyped DEF Securable, Privilege
  <2> QED BY <1>1, <2>2, AddedPast DEF GrantAdmin
<1>2. ASSUME NEW q \in Replica, Boot(q), ~GrantAdmin(r) PROVE boot'[r] = boot[r]
  <2>1. CASE q = r
    BY <1>2, <2>1 DEF Boot, Start, Seed, FindAdmin, CreateAdmin, FindOperator, GrantOperator,
       Serve, At
  <2>2. CASE q # r
    BY <1>2, <2>2
       DEF Boot, Start, Seed, FindAdmin, CreateAdmin, GrantAdmin, FindOperator, GrantOperator,
           Serve, Step, Halt, TInv
  <2> QED BY <2>1, <2>2
<1>3. ASSUME NEW c \in Client, Handle(c) PROVE boot'[r] = boot[r]
  BY <1>3 DEF Handle, Authenticate, Check, CreateRow, Resolve, Apply, LinkChild, Answer
<1>4. ASSUME NEW q \in Replica, ScimCreate(q) \/ ScimUpdate(q) \/ ScimDelete(q) \/ CatchUp(q)
      PROVE  boot'[r] = boot[r]
  BY <1>4 DEF ScimCreate, ScimUpdate, ScimDelete, CatchUp, ScimUnchanged
<1>5. ASSUME NEW q \in Replica, Stop(q) PROVE boot'[r] = boot[r]
  <2>1. q # r
    BY <1>5 DEF Stop, At
  <2> QED BY <1>5, <2>1 DEF Stop, Halt, TInv
<1>6. CASE UNCHANGED vars
  BY <1>6 DEF vars
<1> QED BY <1>1, <1>2, <1>3, <1>4, <1>5, <1>6 DEF Next

\* Tokens and SCIM make no admin.
LEMMA FindOrCreateMaker ==
  ASSUME TInv, NEW r \in Replica, NEW n \in Name, NEW j, FindOrCreate(r, n, j)
  PROVE  \A i \in UserId : maker'[i] = "start" => maker[i] = "start"
BY DEF FindOrCreate, NewUser, users, TInv, UsersTyped

LEMMA StartMakes ==
  ASSUME TInv, [Next]_vars, ~cut', NEW i \in UserId, maker'[i] = "start"
  PROVE  \/ maker[i] = "start"
         \/ \E r \in Replica : At(r, "own")' /\ boot'[r].user = i
<1>1. ASSUME NEW r \in Replica, CreateAdmin(r), maker[i] # "start"
      PROVE  At(r, "own")' /\ boot'[r].user = i
  <2>1. PICK k \in UserId : /\ NewUser(r, k, AdminProfile, "start")
                            /\ boot' = [boot EXCEPT ![r].phase = "own", ![r].user = k]
    BY <1>1 DEF CreateAdmin
  <2>2. i = k
    BY <1>1, <2>1 DEF NewUser, TInv, UsersTyped
  <2>3. boot[r] \in Booting /\ DOMAIN boot = Replica
    BY DEF TInv
  <2> QED BY <2>1, <2>2, <2>3 DEF At, Booting
<1>2. ASSUME NEW r \in Replica, Boot(r), ~CreateAdmin(r) PROVE maker[i] = "start"
  <2>1. CASE FindOperator(r)
    <3>1. PICK n \in boot[r].todo, k \in UserId : FindOrCreate(r, n, k)
      BY <2>1 DEF FindOperator
    <3>2. n \in Name
      BY <2>1, AccessAssumption DEF FindOperator, At, TInv, Booting
    <3> QED BY <3>1, <3>2, FindOrCreateMaker
  <2>2. CASE ~FindOperator(r)
    BY <1>2, <2>2 DEF Boot, Start, Seed, FindAdmin, GrantAdmin, GrantOperator, Serve, users
  <2> QED BY <2>1, <2>2
<1>3. ASSUME NEW c \in Client, Handle(c) PROVE maker[i] = "start"
  <2>1. CASE \E r \in Replica : Authenticate(c, r)
    <3>1. PICK r \in Replica, req \in Requests, k \in UserId : FindOrCreate(r, req.sub, k)
      BY <2>1 DEF Authenticate
    <3>2. req.sub \in Name
      BY AccessAssumption
    <3> QED BY <3>1, <3>2, FindOrCreateMaker
  <2>2. CASE Resolve(c)
    <3>1. call[c].at \in Replica /\ call[c].req.who \in Name
      BY <2>2, CallIs, AccessAssumption DEF Resolve, Calling, Call
    <3>2. \/ UNCHANGED users
          \/ \E k \in UserId : FindOrCreate(call[c].at, call[c].req.who, k)
      BY <2>2 DEF Resolve
    <3> QED BY <3>1, <3>2, FindOrCreateMaker DEF users
  <2>3. CASE UNCHANGED users
    BY <2>3 DEF users
  <2> QED BY <1>3, <2>1, <2>2, <2>3 DEF Handle, Check, CreateRow, Apply, LinkChild, Answer
<1>4. ASSUME NEW r \in Replica,
             ScimCreate(r) \/ ScimUpdate(r) \/ ScimDelete(r) \/ CatchUp(r) \/ Stop(r)
      PROVE  maker[i] = "start"
  BY <1>4 DEF ScimCreate, ScimUpdate, ScimDelete, CatchUp, Stop, NewUser, users, TInv, UsersTyped
<1>5. CASE UNCHANGED vars
  BY <1>5 DEF vars
<1> QED BY <1>1, <1>2, <1>3, <1>4, <1>5 DEF Next

LEMMA CutStays == [Next]_vars /\ cut => cut'
BY DEF Next, Boot, Start, Seed, FindAdmin, CreateAdmin, GrantAdmin, FindOperator, GrantOperator, Serve,
   Handle, Authenticate, Check, CreateRow, Resolve, Apply, LinkChild, Answer,
   ScimCreate, ScimUpdate, ScimDelete, CatchUp, Stop, ScimUnchanged, vars

\* The admin that a start creates gets its OWNER grant on the metastore, unless
\* a start ended between the two commits. (main.rs, admin user initialization)
THEOREM AdminsOwn == Spec => []AdminOwnsUnlessCut
<1>1. Init => AdminOwnsUnlessCut
  BY DEF Init, AdminOwnsUnlessCut
<1>2. TInv /\ PastInv /\ AdminOwnsUnlessCut /\ [Next]_vars => AdminOwnsUnlessCut'
  <2> SUFFICES ASSUME TInv, PastInv, AdminOwnsUnlessCut, [Next]_vars, ~cut',
                      NEW i \in UserId, maker'[i] = "start"
               PROVE  \/ \E r \in Replica : At(r, "own")' /\ boot'[r].user = i
                      \/ Grant(i, Metastore, Owner) \in Past'
    BY DEF AdminOwnsUnlessCut, Past
  <2>1. CASE maker[i] = "start"
    <3>1. CASE Grant(i, Metastore, Owner) \in Past
      BY <3>1, NextMoved DEF Moved, Grows
    <3>2. CASE \E r \in Replica : At(r, "own") /\ boot[r].user = i
      BY <3>2, OwnStays DEF At
    <3> QED BY <2>1, <3>1, <3>2, CutStays DEF AdminOwnsUnlessCut, Past
  <2>2. CASE maker[i] # "start"
    BY <2>2, StartMakes
  <2> QED BY <2>1, <2>2
<1> QED BY <1>1, <1>2, AlwaysTyped, AlwaysPast, PTL DEF Spec

-----------------------------------------------------------------------------
(* Operators.  Each one is still to come, found, or served; the rule that   *)
(* serves it is in memory unless it changed behind the replica's back.      *)

\* Nothing implies OWNER and nothing lies above the metastore.
LEMMA OwnerIsGranted ==
  ASSUME NEW m \in SUBSET Rule, NEW u, Enforce(m, u, Metastore, Owner)
  PROVE  Grant(u, Metastore, Owner) \in m
<1>1. PICK p \in Above(m, Metastore), held \in Privilege :
        Grant(u, p, held) \in m /\ Owner \in Implied(m, held)
  BY DEF Enforce
<1>2. \A x : Link(Metastore, x) \notin Rule
  BY AccessAssumption DEF Rule, Link, Grant, Edges, Implies
<1>3. p = Metastore
  BY <1>1, <1>2 DEF Above
<1>4. \A q : Implies(q, Owner) \notin Rule
  BY AccessAssumption DEF Rule, Link, Grant, Edges, Implies
<1>5. held = Owner
  BY <1>1, <1>4 DEF Implied
<1> QED BY <1>1, <1>3, <1>5

LEMMA OwnersCreate ==
  ASSUME NEW m, NEW u, Edges \subseteq m, Grant(u, Metastore, Owner) \in m
  PROVE  Enforce(m, u, Metastore, Create)
<1>1. Implies(Owner, All) \in m /\ Implies(All, Create) \in m
  BY AccessAssumption DEF Edges
<1>2. {Owner, All, Create} \subseteq Privilege
  BY AccessAssumption DEF Privilege
<1>3. Create \in Implied(m, Owner)
  BY <1>1, <1>2 DEF Implied
<1> QED BY <1>2, <1>3 DEF Enforce, Above

\* The user a subject leads to was created with that subject.
LEMMA FoundUser ==
  ASSUME TInv, BornInv, NEW r \in Replica, NEW n \in Name, NEW i \in UserId, FindOrCreate(r, n, i)
  PROVE  /\ maker'[i] # "none" /\ born'[i].ext = n
         /\ view'[r].users[i].ext = n /\ view'[r].users[i].email = born'[i].email
<1>1. CASE ByExternalId(view[r], n) # NoId /\ i = ByExternalId(view[r], n) /\ UNCHANGED <<db, view, users>>
  <2>1. i \in {x \in Live(view[r]) : view[r].users[x].ext = n}
    BY <1>1, FirstIs DEF ByExternalId, Live
  <2>2. AsCreated(view[r])
    BY DEF BornInv
  <2> QED BY <1>1, <2>1, <2>2 DEF AsCreated, users
<1>2. CASE NewUser(r, i, Provisioned(n), "token")
  <2>1. born'[i] = Provisioned(n) /\ maker'[i] = "token"
    BY <1>2 DEF NewUser, TInv, UsersTyped
  <2>2. view'[r] = db' /\ db' = PutUser(db, i, Provisioned(n)) /\ db \in Database
    BY <1>2 DEF NewUser, Commit, TInv, UsersTyped
  <2>3. view'[r].users = [db.users EXCEPT ![i] = Provisioned(n)]
    <3>1. PICK row \in Profile : row = Provisioned(n)
      BY ProvisionedTyped
    <3>2. db' = PutUser(db, i, row) /\ db \in Database
      BY <2>2, <3>1
    <3>3. db'.users = [db.users EXCEPT ![i] = row]
      BY <3>2 DEF PutUser, Database
    <3> QED BY <2>2, <3>1, <3>3
  <2>4. view'[r].users[i] = Provisioned(n)
    BY <2>3, RowsTyped
  <2> QED BY <1>2, <2>1, <2>4 DEF Provisioned
<1> QED BY <1>1, <1>2 DEF FindOrCreate

LEMMA ServedStays ==
  ASSUME TInv, BornOnce, Grows, NEW r \in Replica, Moves(r), NEW n, Served(r, n)
  PROVE  Served(r, n)'
<1>1. PICK i \in UserId : maker[i] # "none" /\ born[i].ext = n
                          /\ Grant(i, Metastore, Owner) \in mem[r] \cup foreign[r] \cup revoked
  BY DEF Served
<1>2. Grant(i, Metastore, Owner) \in mem'[r] \cup foreign'[r] \cup revoked'
  BY <1>1 DEF Moves, Beside, Ahead, Grows
<1>3. maker'[i] # "none" /\ born'[i] = born[i]
  BY <1>1, RowsTyped DEF BornOnce
<1> QED BY <1>1, <1>2, <1>3 DEF Served

LEMMA ServingSteps ==
  ASSUME TInv, [Next]_vars, NEW s \in Replica, boot'[s].phase \in {"operator", "operatorOwn", "up"}
  PROVE  \/ boot'[s] = boot[s]
         \/ boot'[s].phase = "operator" /\ boot'[s].todo = Operators
         \/ FindOperator(s) \/ GrantOperator(s) \/ Serve(s)
<1>1. ASSUME NEW q \in Replica, Boot(q), q # s PROVE boot'[s] = boot[s]
  BY <1>1 DEF Boot, Start, Seed, FindAdmin, CreateAdmin, GrantAdmin, FindOperator, GrantOperator,
     Serve, Step, Halt, TInv
<1>2. CASE FindAdmin(s) \/ GrantAdmin(s)
  BY <1>2 DEF FindAdmin, GrantAdmin, TInv
<1>3. CASE Start(s) \/ Seed(s) \/ CreateAdmin(s)
  <2>1. boot[s] \in Booting /\ DOMAIN boot = Replica
    BY DEF TInv
  <2>2. CASE Start(s)
    BY <2>1, <2>2 DEF Start
  <2>3. CASE Seed(s)
    <3>1. PICK edge : boot' = [boot EXCEPT ![s].todo = @ \ {edge},
                                           ![s].phase = IF boot[s].todo = {edge} THEN "find" ELSE "seed"]
      BY <2>3 DEF Seed
    <3>2. boot'[s].phase = IF boot[s].todo = {edge} THEN "find" ELSE "seed"
      BY <2>1, <3>1 DEF Booting
    <3> QED BY <3>2
  <2>4. CASE CreateAdmin(s)
    <3>1. CASE \E i \in UserId : boot' = [boot EXCEPT ![s].phase = "own", ![s].user = i]
      <4>1. boot'[s].phase = "own"
        BY <2>1, <3>1 DEF Booting
      <4> QED BY <4>1
    <3>2. CASE Halt(s)
      BY <2>1, <3>2 DEF Halt, Down
    <3> QED BY <2>4, <3>1, <3>2 DEF CreateAdmin
  <2> QED BY <1>3, <2>2, <2>3, <2>4
<1>4. ASSUME NEW c \in Client, Handle(c) PROVE boot'[s] = boot[s]
  BY <1>4 DEF Handle, Authenticate, Check, CreateRow, Resolve, Apply, LinkChild, Answer
<1>5. ASSUME NEW q \in Replica, ScimCreate(q) \/ ScimUpdate(q) \/ ScimDelete(q) \/ CatchUp(q)
      PROVE  boot'[s] = boot[s]
  BY <1>5 DEF ScimCreate, ScimUpdate, ScimDelete, CatchUp, ScimUnchanged
<1>6. ASSUME NEW q \in Replica, Stop(q) PROVE boot'[s] = boot[s]
  BY <1>6 DEF Stop, Halt, Down, TInv
<1>7. CASE UNCHANGED vars
  BY <1>7 DEF vars
<1> QED BY <1>1, <1>2, <1>3, <1>4, <1>5, <1>6, <1>7 DEF Next, Boot

\* Granting serves the operator it was found for.
LEMMA GrantServes ==
  ASSUME TInv, PastInv, NEW r \in Replica, GrantOperator(r), NEW n, Found(r, n)
  PROVE  Served(r, n)'
<1> DEFINE u == boot[r].user
           rule == Grant(u, Metastore, Owner)
<1>1. u \in UserId /\ boot[r].phase = "operatorOwn" /\ rule \in Rule
  BY RuleTyped DEF GrantOperator, At, TInv, Booting, Securable, Privilege
<1>2. rule \in mem'[r] \cup foreign'[r]
  <2>1. CASE Enforce(mem[r], u, Metastore, Owner) /\ NoChange
    <3>1. mem[r] \in SUBSET Rule
      BY DEF TInv, RulesTyped
    <3> QED BY <2>1, <3>1, OwnerIsGranted DEF NoChange, rules
  <2>2. CASE rule \in view[r].rules /\ NoChange
    BY <1>1, <2>2 DEF PastInv, ViewAgrees, NoChange, rules
  <2>3. CASE \/ mem' = [mem EXCEPT ![r] = @ \cup {rule}]
             \/ foreign' = Everyone(rule)
    BY <2>3 DEF Everyone, TInv, RulesTyped
  <2> QED BY <2>1, <2>2, <2>3 DEF GrantOperator, AddRule
<1>3. maker'[u] # "none" /\ born'[u].ext = n
  BY DEF GrantOperator, Found, users
<1> QED BY <1>1, <1>2, <1>3 DEF Served

LEMMA NextOperators ==
  TInv /\ RulesInv /\ PastInv /\ BornInv /\ OperatorInv /\ [Next]_vars => OperatorInv'
<1> SUFFICES ASSUME TInv, RulesInv, PastInv, BornInv, OperatorInv, [Next]_vars, NEW s \in Replica,
                    boot'[s].phase \in {"operator", "operatorOwn", "up"}
             PROVE  /\ \A n \in Operators : n \in boot'[s].todo \/ Served(s, n)' \/ Found(s, n)'
                    /\ boot'[s].phase = "up" => boot'[s].todo = {}
  BY DEF OperatorInv
<1>0. BornOnce /\ Grows
  BY NextBornOnce, NextMoved DEF Moved
<1>1. ASSUME boot[s].phase \in {"operator", "operatorOwn", "up"}
      PROVE  \A n \in Operators : Served(s, n) => Served(s, n)'
  <2>1. Moves(s)
    BY <1>1, NextMoved DEF Moved
  <2> QED BY <1>0, <2>1, ServedStays
<1>2. CASE boot'[s] = boot[s]
  <2>1. ASSUME NEW n \in Operators, Found(s, n) PROVE Found(s, n)'
    <3>1. boot[s].user \in UserId /\ maker[boot[s].user] # "none" /\ born[boot[s].user].ext = n
      BY <2>1 DEF Found, TInv, Booting
    <3>2. born'[boot[s].user] = born[boot[s].user] /\ maker'[boot[s].user] # "none"
      BY <1>0, <3>1, RowsTyped DEF BornOnce
    <3> QED BY <1>2, <2>1, <3>1, <3>2 DEF Found
  <2> QED BY <1>1, <1>2, <2>1 DEF OperatorInv
<1>3. CASE boot'[s].phase = "operator" /\ boot'[s].todo = Operators
  BY <1>3
<1>4. CASE FindOperator(s)
  <2>1. PICK n0 \in boot[s].todo, i \in UserId :
          /\ FindOrCreate(s, n0, i)
          /\ boot' = [boot EXCEPT ![s] = [phase |-> "operatorOwn", todo |-> @.todo \ {n0}, user |-> i]]
    BY <1>4 DEF FindOperator
  <2>2. boot[s].phase = "operator" /\ n0 \in Name
    BY <1>4, AccessAssumption DEF FindOperator, At, TInv, Booting
  <2>3. boot'[s] = [phase |-> "operatorOwn", todo |-> boot[s].todo \ {n0}, user |-> i]
    BY <2>1 DEF TInv
  <2>4. Found(s, n0)'
    BY <2>1, <2>2, <2>3, FoundUser DEF Found
  <2>5. \A n \in Operators : n \in boot[s].todo \/ Served(s, n)
    BY <2>2 DEF OperatorInv, Found
  <2> QED BY <1>1, <2>2, <2>3, <2>4, <2>5
<1>5. CASE GrantOperator(s)
  <2>1. boot[s].phase = "operatorOwn"
    BY <1>5 DEF GrantOperator, At
  <2>2. boot'[s].phase = "operator" /\ boot'[s].todo = boot[s].todo
    BY <1>5 DEF GrantOperator, TInv, Booting
  <2> QED BY <1>1, <1>5, <2>1, <2>2, GrantServes DEF OperatorInv
<1>6. CASE Serve(s)
  <2>1. boot[s].phase = "operator" /\ boot[s].todo = {}
    BY <1>6 DEF Serve, At
  <2>2. boot'[s].todo = boot[s].todo
    BY <1>6 DEF Serve, Step, TInv, Booting
  <2> QED BY <1>1, <2>1, <2>2 DEF OperatorInv, Found
<1> QED BY <1>2, <1>3, <1>4, <1>5, <1>6, ServingSteps

\* A replica that serves lets every operator principal create catalogs, unless
\* its grant was revoked or a rule this takes changed behind the replica's back,
\* however often and in whatever order replicas start and stop.
\* (bootstrap_operator_principal)
THEOREM OperatorsMayCreate == Spec => []OperatorsServed
<1>1. Init => OperatorInv
  <2>1. Init => boot = [r \in Replica |-> Down]
    BY DEF Init
  <2>2. Down.phase = "down"
    BY DEF Down
  <2> QED BY <2>1, <2>2 DEF OperatorInv
<1>2. RulesInv /\ OperatorInv => OperatorsServed
  <2> SUFFICES ASSUME RulesInv, OperatorInv, NEW r \in Replica, NEW n \in Operators, At(r, "up")
               PROVE  \E i \in UserId :
                        /\ born[i].ext = n
                        /\ \/ Enforce(mem[r], i, Metastore, Create)
                           \/ Grant(i, Metastore, Owner) \in foreign[r] \cup revoked
                           \/ Edges \cap foreign[r] # {}
    BY DEF OperatorsServed
  <2>1. Served(r, n) /\ Edges \subseteq mem[r] \cup foreign[r]
    BY DEF OperatorInv, Found, At, RulesInv, RepInv
  <2>2. PICK i \in UserId :
          born[i].ext = n /\ Grant(i, Metastore, Owner) \in mem[r] \cup foreign[r] \cup revoked
    BY <2>1 DEF Served
  <2>3. Edges \subseteq mem[r] /\ Grant(i, Metastore, Owner) \in mem[r]
        => Enforce(mem[r], i, Metastore, Create)
    BY OwnersCreate
  <2> QED BY <2>1, <2>2, <2>3
<1> QED BY <1>1, <1>2, NextOperators, AlwaysTyped, AlwaysRules, AlwaysPast, AlwaysBorn, PTL DEF Spec

-----------------------------------------------------------------------------
(* Callers.  A request keeps its claims from the middleware to its end, and *)
(* they are one user's as long as no two users share them.                 *)

SameClaims(c) ==
  /\ call[c] # Idle
  /\ call'[c].user = call[c].user /\ call'[c].sub = call[c].sub /\ call'[c].at = call[c].at
  /\ call'[c].caller = call[c].caller \/ Check(c)

LEMMA StagesKept ==
  ASSUME TInv, NEW c \in Client, call[c] # Idle
  PROVE  /\ \A s : Stage(c, s) => SameClaims(c)
         /\ \A s, i : call' = [call EXCEPT ![c].stage = s, ![c].target = i] => SameClaims(c)
         /\ Check(c) => SameClaims(c) \/ call'[c] = Idle
<1>1. call[c] \in Call /\ DOMAIN call = Client
  BY DEF TInv, Calling
<1>2. ASSUME NEW s, Stage(c, s) PROVE SameClaims(c)
  BY <1>1, <1>2 DEF Stage, Call, SameClaims
<1>3. ASSUME NEW s, NEW i, call' = [call EXCEPT ![c].stage = s, ![c].target = i] PROVE SameClaims(c)
  BY <1>1, <1>3 DEF Call, SameClaims
<1>4. ASSUME NEW k, NEW s, call' = [call EXCEPT ![c].caller = k, ![c].stage = s], Check(c)
      PROVE  SameClaims(c)
  <2>1. /\ call'[c].user = call[c].user /\ call'[c].sub = call[c].sub /\ call'[c].at = call[c].at
    BY <1>1, <1>4 DEF Call
  <2> QED BY <1>4, <2>1 DEF SameClaims
<1>5. Finish(c) => call'[c] = Idle
  BY <1>1 DEF Finish
<1>6. Check(c) => Finish(c) \/ \E k, s : call' = [call EXCEPT ![c].caller = k, ![c].stage = s]
  BY DEF Check
<1> QED BY <1>2, <1>3, <1>4, <1>5, <1>6

LEMMA CallShape ==
  ASSUME TInv, [Next]_vars, NEW c \in Client
  PROVE  \/ call'[c] = Idle
         \/ SameClaims(c)
         \/ \E r \in Replica : Authenticate(c, r)
<1>0. DOMAIN call = Client
  BY DEF TInv
<1>1. call'[c] = call[c] => call'[c] = Idle \/ SameClaims(c)
  BY DEF SameClaims
<1>2. ASSUME NEW r \in Replica, Halt(r) PROVE call'[c] = call[c] \/ call'[c] = Idle
  BY <1>2 DEF Halt
<1>3. ASSUME NEW r \in Replica, Boot(r) PROVE call'[c] = call[c] \/ Halt(r)
  BY <1>3 DEF Boot, Start, Seed, FindAdmin, CreateAdmin, GrantAdmin, FindOperator, GrantOperator, Serve
<1>4. ASSUME NEW r \in Replica,
             ScimCreate(r) \/ ScimUpdate(r) \/ ScimDelete(r) \/ CatchUp(r) \/ Stop(r)
      PROVE  call'[c] = call[c] \/ Halt(r)
  BY <1>4 DEF ScimCreate, ScimUpdate, ScimDelete, CatchUp, Stop, ScimUnchanged
<1>5. ASSUME NEW d \in Client, Handle(d), d # c PROVE call'[c] = Idle \/ SameClaims(c)
  <2>1. CASE Apply(d)
    <3>1. call'[c] = IF Crosses(d, c) THEN [call[c] EXCEPT !.crossed = TRUE] ELSE call[c]
      BY <1>5, <2>1 DEF Apply
    <3>2. Crosses(d, c) => call[c] \in Call /\ call[c] # Idle
      <4>1. Crosses(d, c) => call[c].stage = "answer"
        BY DEF Crosses
      <4> QED BY <4>1, CallIs DEF Calling, Idle
    <3>3. CASE Crosses(d, c)
      BY <3>1, <3>2, <3>3 DEF Call, SameClaims
    <3> QED BY <1>1, <3>1, <3>3
  <2>2. CASE ~Apply(d)
    <3>1. call'[c] = call[c]
      BY <1>0, <1>5, <2>2
         DEF Handle, Authenticate, Check, CreateRow, Resolve, LinkChild, Answer, Stage, Finish
    <3> QED BY <1>1, <3>1
  <2> QED BY <2>1, <2>2
<1>6. ASSUME Handle(c), \A r \in Replica : ~Authenticate(c, r) PROVE call'[c] = Idle \/ SameClaims(c)
  <2>1. call[c] # Idle /\ call[c] \in Call
    <3>1. call[c].stage \in {"check", "row", "resolve", "apply", "link", "answer"}
      BY <1>6 DEF Handle, Check, CreateRow, Resolve, Apply, LinkChild, Answer
    <3> QED BY <3>1, CallIs DEF Calling, Idle
  <2>2. CASE Check(c)
    BY <2>1, <2>2, StagesKept
  <2>3. CASE CreateRow(c)
    BY <2>1, <2>3, StagesKept DEF CreateRow
  <2>4. CASE Resolve(c)
    <3>1. Finish(c) \/ \E i : call' = [call EXCEPT ![c].stage = "apply", ![c].target = i]
      BY <2>4 DEF Resolve
    <3> QED BY <1>0, <2>1, <3>1, StagesKept DEF Finish
  <2>5. CASE Apply(c)
    <3>1. call'[c] = [call[c] EXCEPT !.stage = IF call[c].req.op = "create" THEN "link" ELSE "answer"]
      BY <2>5 DEF Apply, Crosses
    <3> QED BY <2>1, <3>1 DEF SameClaims, Call
  <2>6. CASE LinkChild(c) \/ Answer(c)
    BY <1>0, <2>6 DEF LinkChild, Answer, Finish
  <2> QED BY <1>6, <2>2, <2>3, <2>4, <2>5, <2>6 DEF Handle
<1>7. CASE UNCHANGED vars
  BY <1>1, <1>7 DEF vars
<1> QED BY <1>1, <1>2, <1>3, <1>4, <1>5, <1>6, <1>7 DEF Next

\* A replica that serves does so until its process ends.
LEMMA UpStays ==
  ASSUME TInv, [Next]_vars, NEW s \in Replica, boot[s].phase = "up"
  PROVE  boot'[s] = boot[s] \/ Halt(s)
<1>1. ASSUME NEW q \in Replica, Boot(q) PROVE boot'[s] = boot[s]
  <2>1. q # s
    BY <1>1 DEF Boot, Start, Seed, FindAdmin, CreateAdmin, GrantAdmin, FindOperator, GrantOperator,
       Serve, At
  <2> QED BY <1>1, <2>1
          DEF Boot, Start, Seed, FindAdmin, CreateAdmin, GrantAdmin, FindOperator, GrantOperator,
              Serve, Step, Halt, TInv
<1>2. ASSUME NEW c \in Client, Handle(c) PROVE boot'[s] = boot[s]
  BY <1>2 DEF Handle, Authenticate, Check, CreateRow, Resolve, Apply, LinkChild, Answer
<1>3. ASSUME NEW q \in Replica, ScimCreate(q) \/ ScimUpdate(q) \/ ScimDelete(q) \/ CatchUp(q)
      PROVE  boot'[s] = boot[s]
  BY <1>3 DEF ScimCreate, ScimUpdate, ScimDelete, CatchUp, ScimUnchanged
<1>4. ASSUME NEW q \in Replica, Stop(q) PROVE boot'[s] = boot[s] \/ Halt(s)
  BY <1>4 DEF Stop, Halt, TInv
<1>5. CASE UNCHANGED vars
  BY <1>5 DEF vars
<1> QED BY <1>1, <1>2, <1>3, <1>4, <1>5 DEF Next

\* What the middleware makes of a token.
LEMMA FreshClaims ==
  ASSUME TInv, BornInv, NEW c \in Client, NEW r \in Replica, Authenticate(c, r)
  PROVE  Claims(c)' /\ (call'[c] = Idle \/ call'[c].caller = NoId)
<1>1. PICK req \in Requests, i \in UserId :
        /\ FindOrCreate(r, req.sub, i)
        /\ \/ UNCHANGED call
           \/ call' = [call EXCEPT ![c] = [Idle EXCEPT !.stage = "check", !.req = req, !.at = r,
                                              !.user = i, !.sub = Subject(view'[r].users[i])]]
  BY DEF Authenticate
<1>2. /\ call[c] = Idle /\ boot'[r].phase = "up" /\ DOMAIN call = Client
      /\ req.sub \in Name /\ req.sub # NoName
  BY AccessAssumption DEF Authenticate, At, TInv
<1>3. /\ maker'[i] # "none" /\ born'[i].ext = req.sub
      /\ view'[r].users[i].ext = req.sub /\ view'[r].users[i].email = born'[i].email
  BY <1>1, <1>2, FoundUser
<1>4. Subject(view'[r].users[i]) \in Idents(i)'
  <2>1. PICK row : row = view'[r].users[i] /\ row.ext = born'[i].ext /\ row.email = born'[i].email
                   /\ row.ext # NoName
    BY <1>2, <1>3
  <2>2. Subject(row) \in {born'[i].email, born'[i].ext} \ {NoName}
    BY <2>1 DEF Subject
  <2> QED BY <2>1, <2>2 DEF Idents
<1>5. CASE UNCHANGED call
  BY <1>2, <1>5 DEF Claims
<1>6. CASE call' = [call EXCEPT ![c] = [Idle EXCEPT !.stage = "check", !.req = req, !.at = r,
                                            !.user = i, !.sub = Subject(view'[r].users[i])]]
  <2>1. /\ call'[c].stage = "check" /\ call'[c].caller = NoId /\ call'[c].at = r
        /\ call'[c].user = i /\ call'[c].sub = Subject(view'[r].users[i])
    BY <1>2, <1>6 DEF Idle
  <2> QED BY <1>2, <1>3, <1>4, <2>1 DEF Claims
<1> QED BY <1>1, <1>5, <1>6

LEMMA NextClaims ==
  ASSUME TInv, BornInv, \A d \in Client : Claims(d), [Next]_vars, NEW c \in Client
  PROVE  Claims(c)'
<1>1. CASE call'[c] = Idle
  BY <1>1 DEF Claims
<1>2. CASE SameClaims(c) /\ call'[c] # Idle
  <2>1. /\ call[c].user \in UserId /\ maker[call[c].user] # "none"
        /\ call[c].sub \in Idents(call[c].user) /\ boot[call[c].at].phase = "up"
    BY <1>2 DEF Claims, SameClaims
  <2>2. call[c].at \in Replica
    BY <1>2 DEF SameClaims, TInv, Calling, Call
  <2>3. boot'[call[c].at].phase = "up"
    <3>1. ~Halt(call[c].at)
      BY <1>2 DEF Halt
    <3> QED BY <2>1, <2>2, <3>1, UpStays
  <2>4. born'[call[c].user] = born[call[c].user] /\ maker'[call[c].user] # "none"
    <3>1. PICK u \in UserId : u = call[c].user /\ maker[u] # "none"
      BY <2>1
    <3>2. born'[u] = born[u] /\ maker'[u] = maker[u]
      BY <3>1, NextBornOnce DEF BornOnce
    <3> QED BY <3>1, <3>2
  <2>5. call'[c].sub \in Idents(call[c].user)'
    BY <1>2, <2>1, <2>4 DEF Idents, SameClaims
  <2> QED BY <1>2, <2>1, <2>3, <2>4, <2>5 DEF Claims, SameClaims
<1> QED BY <1>1, <1>2, CallShape, FreshClaims

LEMMA AlwaysClaims == Spec => [](\A c \in Client : Claims(c))
<1> DEFINE Inv == \A c \in Client : Claims(c)
<1>1. Init => Inv
  BY DEF Init, Claims
<1>2. TInv /\ BornInv /\ Inv /\ [Next]_vars => Inv'
  BY NextClaims
<1> HIDE DEF Inv
<1>3. Spec => []Inv
  BY <1>1, <1>2, AlwaysTyped, AlwaysBorn, PTL DEF Spec
<1> QED BY <1>3 DEF Inv

Apart == \A i, j \in UserId : i # j => Idents(i) \cap Idents(j) = {}

LEMMA ApartBefore ==
  ASSUME TInv, BornInv, [Next]_vars, Apart'
  PROVE  Apart
<1>1. ASSUME NEW i \in UserId PROVE Idents(i) \subseteq Idents(i)'
  <2>1. born'[i] = born[i] \/ born[i] = NoUser
    <3>1. maker[i] # "none" => born'[i] = born[i]
      BY NextBornOnce DEF BornOnce
    <3>2. maker[i] = "none" => born[i] = NoUser
      BY DEF BornInv
    <3> QED BY <3>1, <3>2
  <2> QED BY <2>1 DEF Idents, NoUser
<1>2. \A i, j \in UserId : i # j => Idents(i)' \cap Idents(j)' = {}
  BY DEF Apart
<1> QED BY <1>1, <1>2 DEF Apart

\* Whom get_user finds bears the subject.
LEMMA GetUserIs ==
  ASSUME TInv, BornInv, NEW r \in Replica, NEW n, n # NoName, GetUser(view[r], n) # NoId
  PROVE  GetUser(view[r], n) \in UserId /\ n \in Idents(GetUser(view[r], n))
<1> DEFINE k == GetUser(view[r], n)
<1>1. \/ k \in {x \in Live(view[r]) : view[r].users[x].email = n}
      \/ k \in {x \in Live(view[r]) : view[r].users[x].ext = n}
  BY FirstIs DEF GetUser, ByEmail, ByExternalId, Live
<1>2. AsCreated(view[r])
  BY DEF BornInv
<1>3. k \in UserId /\ (born[k].email = n \/ born[k].ext = n)
  BY <1>1, <1>2, LiveIs DEF AsCreated
<1> QED BY <1>3 DEF Idents

\* The handlers act for the user the token was resolved to, whatever users are
\* created, renamed and deleted meanwhile, as long as no two of them were given a
\* common email or external id. (helpers::get_user, auth_middleware)
THEOREM CallersAreTokenUsers == Spec => []CallerIsTokenUser
<1> DEFINE Claimed == \A c \in Client : Claims(c)
<1>1. Init => CallerIsTokenUser
  BY DEF Init, CallerIsTokenUser, Idle
<1>2. TInv /\ BornInv /\ Claimed /\ CallerIsTokenUser /\ [Next]_vars => CallerIsTokenUser'
  <2> SUFFICES ASSUME TInv, BornInv, Claimed, CallerIsTokenUser, [Next]_vars, Apart', NEW c \in Client
               PROVE  call'[c].caller \in {NoId, call'[c].user}
    BY DEF CallerIsTokenUser, Apart
  <2>1. Apart /\ call[c].caller \in {NoId, call[c].user}
    BY ApartBefore DEF CallerIsTokenUser, Apart
  <2>2. CASE call'[c] = Idle
    BY <2>2 DEF Idle
  <2>3. CASE SameClaims(c) /\ ~Check(c)
    BY <2>1, <2>3 DEF SameClaims
  <2>4. CASE SameClaims(c) /\ Check(c) /\ call'[c] # Idle
    <3>1. /\ call[c].user \in UserId /\ call[c].sub \in Idents(call[c].user)
          /\ call[c] \in Call /\ DOMAIN call = Client
      BY <2>4 DEF SameClaims, Claims, TInv, Calling
    <3> DEFINE k == GetUser(view[call[c].at], call[c].sub)
    <3>2. call[c].at \in Replica /\ call[c].sub # NoName
      BY <3>1 DEF Call, Idents
    <3>3. PICK s : call' = [call EXCEPT ![c].caller = k, ![c].stage = s]
      BY <2>4, <3>1 DEF Check, Finish
    <3>4. call'[c].caller = k
      <4> HIDE DEF k
      <4> QED BY <3>1, <3>3 DEF Call
    <3>5. k = NoId \/ (k \in UserId /\ call[c].sub \in Idents(k))
      <4>0. PICK r \in Replica : r = call[c].at
        BY <3>2
      <4>1. PICK n : n = call[c].sub /\ n # NoName
        BY <3>2
      <4>2. GetUser(view[r], n) # NoId =>
              GetUser(view[r], n) \in UserId /\ n \in Idents(GetUser(view[r], n))
        BY <4>1, GetUserIs
      <4> QED BY <4>0, <4>1, <4>2
    <3> HIDE DEF k
    <3>6. k \in {NoId, call[c].user}
      BY <2>1, <3>1, <3>5 DEF Apart
    <3> QED BY <2>4, <3>4, <3>6 DEF SameClaims
  <2>5. CASE \E r \in Replica : Authenticate(c, r)
    BY <2>2, <2>5, FreshClaims
  <2> QED BY <2>2, <2>3, <2>4, <2>5, CallShape
<1> HIDE DEF Claimed
<1>3. Spec => []Claimed
  BY AlwaysClaims DEF Claimed
<1> QED BY <1>1, <1>2, <1>3, AlwaysTyped, AlwaysBorn, PTL DEF Spec

-----------------------------------------------------------------------------
(* Answers.  A rule that a request was answered for stays as the request    *)
(* left it in its replica's memory, unless it changes behind the replica's  *)
(* back or another request of the replica takes it back.                    *)

\* A step of another replica leaves the memory alone.
Calm(s) == mem'[s] = mem[s] /\ foreign[s] \subseteq foreign'[s]

LEMMA RuleCalm ==
  ASSUME TInv, NEW r \in Replica, NEW rule, NEW s \in Replica, s # r,
         AddRule(r, rule) \/ RemoveRule(r, rule) \/ NoChange
  PROVE  Calm(s)
BY DEF AddRule, RemoveRule, NoChange, Others, Everyone, Calm, rules, TInv, RulesTyped

LEMMA HaltCalm ==
  ASSUME TInv, NEW r \in Replica, NEW s \in Replica, s # r, Halt(r)
  PROVE  Calm(s)
BY DEF Halt, Calm, TInv, RulesTyped

LEMMA BootCalm ==
  ASSUME TInv, NEW r \in Replica, NEW s \in Replica, s # r, Boot(r)
  PROVE  Calm(s)
<1>1. CASE Start(r)
  BY <1>1 DEF Start, Calm, TInv, RulesTyped
<1>2. CASE FindAdmin(r) \/ FindOperator(r) \/ Serve(r)
  BY <1>2 DEF FindAdmin, FindOperator, Serve, rules, Calm
<1>3. CASE CreateAdmin(r)
  BY <1>3, HaltCalm DEF CreateAdmin, Calm
<1>4. CASE Seed(r)
  BY <1>4, RuleCalm DEF Seed
<1>5. CASE GrantAdmin(r) \/ GrantOperator(r)
  BY <1>5, RuleCalm DEF GrantAdmin, GrantOperator
<1> QED BY <1>1, <1>2, <1>3, <1>4, <1>5 DEF Boot

LEMMA OthersCalm ==
  ASSUME TInv, [Next]_vars, NEW r \in Replica, boot[r].phase = "up", ~Halt(r),
         \A d \in Client : call[d].at = r => ~Apply(d) /\ ~LinkChild(d)
  PROVE  Calm(r)
<1>0. UNCHANGED rules => Calm(r)
  BY DEF rules, Calm
<1>1. ASSUME NEW q \in Replica, Boot(q) PROVE Calm(r)
  <2>1. q # r
    BY <1>1 DEF Boot, Start, Seed, FindAdmin, CreateAdmin, GrantAdmin, FindOperator, GrantOperator,
       Serve, At
  <2> QED BY <1>1, <2>1, BootCalm
<1>2. ASSUME NEW d \in Client, Handle(d) PROVE Calm(r)
  <2>1. CASE Apply(d) \/ LinkChild(d)
    <3>1. call[d].stage \in {"apply", "link"}
      BY <2>1 DEF Apply, LinkChild
    <3>2. call[d].at \in Replica /\ call[d].at # r
      BY <2>1, <3>1, CallIs DEF Calling, Call
    <3> QED BY <2>1, <3>2, RuleCalm DEF Apply, LinkChild
  <2> QED BY <1>0, <1>2, <2>1 DEF Handle, Authenticate, Check, CreateRow, Resolve, Answer
<1>3. ASSUME NEW q \in Replica, ScimCreate(q) \/ ScimUpdate(q) \/ ScimDelete(q) \/ CatchUp(q)
      PROVE  Calm(r)
  BY <1>0, <1>3 DEF ScimCreate, ScimUpdate, ScimDelete, CatchUp, ScimUnchanged
<1>4. ASSUME NEW q \in Replica, Stop(q) PROVE Calm(r)
  BY <1>4, HaltCalm DEF Stop
<1>5. CASE UNCHANGED vars
  BY <1>0, <1>5 DEF vars, rules
<1> QED BY <1>1, <1>2, <1>3, <1>4, <1>5 DEF Next

\* What a change of a rule does to the memory of the replica that makes it.
Other(r, rule) ==
  \A x : x # rule => (x \in mem'[r] <=> x \in mem[r]) /\ (x \in foreign[r] => x \in foreign'[r])

LEMMA AddShows ==
  ASSUME TInv, NEW r \in Replica, ViewAgrees(r), boot[r].phase # "down", NEW rule, AddRule(r, rule)
  PROVE  Other(r, rule) /\ rule \in mem'[r] \cup foreign'[r]
<1>1. CASE rule \in view[r].rules /\ NoChange
  BY <1>1 DEF Other, NoChange, rules, ViewAgrees
<1>2. CASE mem' = [mem EXCEPT ![r] = @ \cup {rule}] /\ foreign' = Others(r, rule)
  BY <1>2 DEF Other, Others, TInv, RulesTyped
<1>3. CASE foreign' = Everyone(rule) /\ UNCHANGED mem
  BY <1>3 DEF Other, Everyone, TInv, RulesTyped
<1> QED BY <1>1, <1>2, <1>3 DEF AddRule

LEMMA RemoveShows ==
  ASSUME TInv, NEW r \in Replica, ViewAgrees(r), boot[r].phase # "down", NEW rule, RemoveRule(r, rule)
  PROVE  Other(r, rule) /\ (rule \in foreign'[r] \/ rule \notin mem'[r])
<1>1. CASE rule \notin view[r].rules /\ NoChange
  BY <1>1 DEF Other, NoChange, rules, ViewAgrees
<1>2. CASE mem' = [mem EXCEPT ![r] = @ \ {rule}] /\ foreign' = Others(r, rule)
  BY <1>2 DEF Other, Others, TInv, RulesTyped
<1>3. CASE foreign' = Everyone(rule) /\ UNCHANGED mem
  BY <1>3 DEF Other, Everyone, TInv, RulesTyped
<1> QED BY <1>1, <1>2, <1>3 DEF RemoveRule

\* The rule of a request that was applied, at the replica it came to.
LEMMA AppliedShows ==
  ASSUME TInv, PastInv, NEW c \in Client, Claims(c), Apply(c)
  PROVE  LET r == call[c].at
         IN /\ r \in Replica /\ Other(r, Target(c))
            /\ \/ Target(c) \in foreign'[r]
               \/ (Target(c) \in mem'[r]) <=> (call[c].req.op # "revoke")
<1>1. call[c].stage = "apply" /\ call[c] \in Call /\ call[c] # Idle
  <2>1. call[c].stage = "apply"
    BY DEF Apply
  <2> QED BY <2>1, CallIs DEF Calling, Idle
<1>2. PICK r \in Replica : r = call[c].at /\ ViewAgrees(r) /\ boot[r].phase # "down"
  BY <1>1 DEF Call, PastInv, Claims
<1>3. CASE call[c].req.op = "revoke"
  BY <1>2, <1>3, RemoveShows DEF Apply
<1>4. CASE call[c].req.op # "revoke"
  BY <1>2, <1>4, AddShows DEF Apply
<1> QED BY <1>2, <1>3, <1>4

\* A request that is answered next was applied just now or waits as it was.
LEMMA Answering ==
  ASSUME TInv, [Next]_vars, NEW c \in Client, call'[c].stage = "answer", ~call'[c].crossed
  PROVE  /\ call'[c].req = call[c].req /\ call'[c].target = call[c].target /\ call'[c].at = call[c].at
         /\ Apply(c) \/ call'[c] = call[c]
         /\ \A d \in Client : Apply(d) => ~Crosses(d, c)
<1>0. DOMAIN call = Client /\ Idle.stage = "idle"
  BY DEF TInv, Idle
<1>1. CASE \E d \in Client : Apply(d)
  <2>1. PICK d \in Client : Apply(d)
    BY <1>1
  <2>2. CASE d = c
    <3>1. call[c].stage = "apply" /\ call[c] \in Call
      BY <2>1, <2>2, CallIs DEF Apply, Calling
    <3>2. call'[c] = [call[c] EXCEPT !.stage = IF call[c].req.op = "create" THEN "link" ELSE "answer"]
      BY <2>1, <2>2 DEF Apply, Crosses
    <3>3. \A k \in Client : Apply(k) => ~Crosses(k, c)
      BY <3>1 DEF Crosses
    <3> QED BY <2>1, <2>2, <3>1, <3>2, <3>3 DEF Call
  <2>3. CASE d # c
    <3>1. \A k \in Client : Apply(k) => ~Crosses(k, c)
      <4> SUFFICES ASSUME NEW k \in Client, Apply(k), Crosses(k, c) PROVE FALSE
        OBVIOUS
      <4>1. call'[c] = [call[c] EXCEPT !.crossed = TRUE] /\ call[c].stage = "answer"
        BY DEF Apply, Crosses
      <4>2. call[c] \in Call
        BY <4>1, CallIs DEF Calling
      <4> QED BY <4>1, <4>2 DEF Call
    <3>2. call'[c] = call[c]
      BY <2>1, <2>3, <3>1 DEF Apply
    <3> QED BY <3>1, <3>2
  <2> QED BY <2>2, <2>3
<1>2. CASE \A d \in Client : ~Apply(d)
  <2>1. ASSUME NEW d \in Client, Handle(d) PROVE call'[c] = call[c]
    <3>1. CASE d # c
      BY <1>0, <1>2, <2>1, <3>1
         DEF Handle, Authenticate, Check, CreateRow, Resolve, LinkChild, Answer, Stage, Finish
    <3>2. CASE d = c
      <4>1. CASE \E r \in Replica : Authenticate(c, r)
        <5>1. PICK r \in Replica, req \in Requests, i \in UserId :
                \/ UNCHANGED call
                \/ call' = [call EXCEPT ![c] = [Idle EXCEPT !.stage = "check", !.req = req, !.at = r,
                                                   !.user = i, !.sub = Subject(view'[r].users[i])]]
          BY <4>1 DEF Authenticate
        <5>2. [Idle EXCEPT !.stage = "check", !.req = req, !.at = r, !.user = i,
                           !.sub = Subject(view'[r].users[i])].stage = "check"
          BY DEF Idle
        <5> QED BY <1>0, <5>1, <5>2
      <4>2. CASE Check(c) \/ CreateRow(c) \/ Resolve(c)
        <5>1. call[c] \in Call
          <6>1. call[c].stage \in {"check", "row", "resolve"}
            BY <4>2 DEF Check, CreateRow, Resolve
          <6> QED BY <6>1, CallIs DEF Calling
        <5>2. PICK s, k, i : /\ s # "answer"
                             /\ \/ Finish(c)
                                \/ call' = [call EXCEPT ![c].caller = k, ![c].stage = s]
                                \/ call' = [call EXCEPT ![c].stage = s]
                                \/ call' = [call EXCEPT ![c].stage = s, ![c].target = i]
          <6>1. CASE Check(c)
            <7>1. ("row" # "answer") /\ ("resolve" # "answer")
              OBVIOUS
            <7>2. Finish(c) \/ \E k : \/ call' = [call EXCEPT ![c].caller = k, ![c].stage = "row"]
                                      \/ call' = [call EXCEPT ![c].caller = k, ![c].stage = "resolve"]
              BY <6>1 DEF Check
            <7> QED BY <7>1, <7>2
          <6>2. CASE CreateRow(c)
            BY <6>2 DEF CreateRow, Stage
          <6>3. CASE Resolve(c)
            BY <6>3 DEF Resolve
          <6> QED BY <4>2, <6>1, <6>2, <6>3
        <5>3. call'[c].stage \in {"idle", s}
          BY <1>0, <5>1, <5>2 DEF Finish, Call
        <5> QED BY <5>2, <5>3
      <4>3. CASE LinkChild(c) \/ Answer(c)
        BY <1>0, <4>3 DEF LinkChild, Answer, Finish
      <4> QED BY <1>2, <2>1, <3>2, <4>1, <4>2, <4>3 DEF Handle
    <3> QED BY <3>1, <3>2
  <2>2. ASSUME NEW r \in Replica, Halt(r) PROVE call'[c] = call[c]
    BY <1>0, <2>2 DEF Halt
  <2>3. ASSUME NEW r \in Replica, Boot(r) PROVE call'[c] = call[c]
    BY <2>2, <2>3
       DEF Boot, Start, Seed, FindAdmin, CreateAdmin, GrantAdmin, FindOperator, GrantOperator, Serve
  <2>4. ASSUME NEW r \in Replica,
               ScimCreate(r) \/ ScimUpdate(r) \/ ScimDelete(r) \/ CatchUp(r) \/ Stop(r)
        PROVE  call'[c] = call[c]
    BY <2>2, <2>4 DEF ScimCreate, ScimUpdate, ScimDelete, CatchUp, Stop, ScimUnchanged
  <2>5. UNCHANGED vars => call'[c] = call[c]
    BY DEF vars
  <2> QED BY <1>2, <2>1, <2>3, <2>4, <2>5 DEF Next
<1> QED BY <1>1, <1>2

LEMMA NextTold ==
  ASSUME TInv, PastInv, \A d \in Client : Claims(d), [Next]_vars, NEW c \in Client, Told(c)
  PROVE  Told(c)'
<1> SUFFICES ASSUME call'[c].stage = "answer", ~call'[c].crossed
             PROVE  \/ Target(c)' \in foreign'[call'[c].at]
                    \/ (Target(c)' \in mem'[call'[c].at]) <=> (call'[c].req.op # "revoke")
  BY DEF Told
<1>1. /\ call'[c].req = call[c].req /\ call'[c].at = call[c].at /\ Target(c)' = Target(c)
      /\ Apply(c) \/ call'[c] = call[c]
      /\ \A d \in Client : Apply(d) => ~Crosses(d, c)
  BY Answering DEF Target
<1>2. CASE Apply(c)
  BY <1>1, <1>2, AppliedShows
<1>3. CASE ~Apply(c)
  <2>1. call[c].stage = "answer" /\ ~call[c].crossed /\ call[c] \in Call /\ call[c] # Idle
    <3>1. call'[c] = call[c]
      BY <1>1, <1>3
    <3> QED BY <3>1, CallIs DEF Calling, Idle
  <2>2. PICK r \in Replica : r = call[c].at /\ boot[r].phase = "up" /\ ~Halt(r)
    <3>1. call[c].at \in Replica /\ boot[call[c].at].phase = "up"
      BY <2>1 DEF Call, Claims
    <3>2. ~Halt(call[c].at)
      BY <1>1, <1>3, <2>1 DEF Halt
    <3> QED BY <3>1, <3>2
  <2>3. PICK x : x = Target(c)
    OBVIOUS
  <2>4. x \in foreign[r] \/ ((x \in mem[r]) <=> (call[c].req.op # "revoke"))
    BY <2>1, <2>2, <2>3 DEF Told
  <2>5. CASE \A d \in Client : call[d].at = r => ~Apply(d) /\ ~LinkChild(d)
    <3>1. Calm(r)
      BY <2>2, <2>5, OthersCalm
    <3> QED BY <1>1, <2>2, <2>3, <2>4, <3>1 DEF Calm
  <2>6. ASSUME NEW d \in Client, call[d].at = r, Apply(d)
        PROVE  x \in foreign'[r] \/ ((x \in mem'[r]) <=> (call[c].req.op # "revoke"))
    <3>1. /\ Other(r, Target(d))
          /\ \/ Target(d) \in foreign'[r]
             \/ (Target(d) \in mem'[r]) <=> (call[d].req.op # "revoke")
      BY <2>6, AppliedShows
    <3>2. CASE x # Target(d)
      BY <2>4, <3>1, <3>2 DEF Other
    <3>3. CASE x = Target(d)
      <4>1. (call[d].req.op = "revoke") = (call[c].req.op = "revoke")
        BY <1>1, <1>3, <2>1, <2>2, <2>3, <2>6, <3>3 DEF Crosses
      <4> QED BY <3>1, <3>3, <4>1
    <3> QED BY <3>2, <3>3
  <2>7. ASSUME NEW d \in Client, call[d].at = r, LinkChild(d)
        PROVE  x \in foreign'[r] \/ ((x \in mem'[r]) <=> (call[c].req.op # "revoke"))
    <3>1. AddRule(r, Link(call[d].req.on, Metastore))
      BY <2>7 DEF LinkChild
    <3>2. ViewAgrees(r)
      BY DEF PastInv
    <3>3. Other(r, Link(call[d].req.on, Metastore))
      BY <2>2, <3>1, <3>2, AddShows
    <3>4. x # Link(call[d].req.on, Metastore)
      BY <2>3 DEF Target, Grant, Link
    <3> QED BY <2>4, <3>3, <3>4 DEF Other
  <2> QED BY <1>1, <2>2, <2>3, <2>5, <2>6, <2>7
<1> QED BY <1>2, <1>3

\* A permissions update answers with the grants its replica now decides on: the
\* change shows there, unless another request of the replica took it back or the
\* rule changed behind the replica's back. (permissions::update)
THEOREM AnswersShow == Spec => []AnswerShowsChange
<1> DEFINE Claimed == \A c \in Client : Claims(c)
           Answered == \A c \in Client : Told(c)
<1>1. Init => Answered
  BY DEF Init, Told, Idle
<1>2. TInv /\ PastInv /\ Claimed /\ Answered /\ [Next]_vars => Answered'
  BY NextTold
<1>3. Answered => AnswerShowsChange
  BY DEF Told, AnswerShowsChange
<1> HIDE DEF Claimed, Answered
<1>4. Spec => []Claimed
  BY AlwaysClaims DEF Claimed
<1> QED BY <1>1, <1>2, <1>3, <1>4, AlwaysTyped, AlwaysPast, PTL DEF Spec

=============================================================================
