------------------------------- MODULE Access -------------------------------
(***************************************************************************)
(* Who may do what: users, grants and the replicas that decide on them.    *)
(*                                                                         *)
(* The rows (users, casbin rules) live in the metadata log, whose commits  *)
(* are atomic: CommitStore shows that, and here a row change is one step   *)
(* on db.  Each replica reads its own snapshot of the log, view[r], which  *)
(* lags behind db until the replica catches up, and takes its decisions on *)
(* a third copy, the casbin enforcer's memory mem[r], which is loaded when *)
(* the process starts and never again: a rule another replica writes or    *)
(* removes does not reach it.                                              *)
(*                                                                         *)
(* A commit closure that finds nothing to do, or refuses, answers from the *)
(* snapshot it was run on; one that has something to write gets through    *)
(* only when that snapshot is the newest, so that writing has the guard    *)
(* view[r] = db and answering without writing has not.                     *)
(***************************************************************************)
EXTENDS Naturals

CONSTANTS Replica,    \* server processes over one metadata log
          Client,     \* requests in flight
          Name,       \* user names, emails and token subjects: one space
          NoName,     \* a user's missing email or external id
          Admin,      \* the email of the built-in admin
          Operators,  \* --operator-external-id
          Metastore,
          Catalog,    \* securables under the metastore
          Owner,
          All,        \* ALL_PRIVILEGES
          Specific,   \* the other privileges
          Create,     \* the one of them a creation needs
          Requests,   \* the requests clients send
          Profiles,   \* what SCIM clients create
          MaxUsers, MaxCalls, MaxFaults  \* bounds of the model

Privilege == {Owner, All} \cup Specific

Securable == {Metastore} \cup Catalog

UserId == 1..MaxUsers

NoId == 0

Profile == [name : Name, email : Name \cup {NoName}, ext : Name \cup {NoName}]

NoUser == [name |-> NoName, email |-> NoName, ext |-> NoName]

ASSUME AccessAssumption ==
  /\ NoName \notin Name
  /\ Admin \in Name
  /\ Operators \subseteq Name
  /\ Metastore \notin Catalog
  /\ Owner # All
  /\ {Owner, All} \cap Specific = {}
  /\ Create \in Specific
  /\ Profiles \subseteq Profile
  /\ Requests \subseteq [op : {"login", "grant", "revoke", "create"}, sub : Name,
                         who : Name, on : Securable, priv : Privilege]
  /\ {MaxUsers, MaxCalls, MaxFaults} \subseteq Nat

(* Rules of the policy model: p grants, g2 links a child to its parent, g3 *)
(* lets one privilege imply another.                                       *)
Grant(u, o, q) == <<"p", u, o, q>>
Link(child, parent) == <<"g2", child, parent>>
Implies(q1, q2) == <<"g3", q1, q2>>

Edges == {Implies(Owner, All)} \cup {Implies(All, q) : q \in Specific}

Rule ==
  {Grant(u, o, q) : u \in UserId, o \in Securable, q \in Privilege}
    \cup {Link(child, Metastore) : child \in Catalog}
    \cup Edges

Database == [users : [UserId -> Profile \cup {NoUser}], byName : [Name -> UserId \cup {NoId}],
             catalogs : SUBSET Catalog, rules : SUBSET Rule]

EmptyDatabase == [users |-> [i \in UserId |-> NoUser], byName |-> [n \in Name |-> NoId],
                  catalogs |-> {}, rules |-> {}]

Phase == {"down", "seed", "find", "admin", "own", "operator", "operatorOwn", "up"}

Down == [phase |-> "down", todo |-> {}, user |-> NoId]

VARIABLES db,        \* the rows at the head of the log
          view,      \* each replica's snapshot
          mem,       \* each replica's enforcer
          boot,      \* where each replica is in main()
          call,      \* where each request is in its handler
          calls, faults,           \* how much of the bounds is used up
          maker,     \* what created a user: start, token, scim; ids are not used twice
          born,      \* ghost: the user as it was created
          foreign,   \* ghost: the rules that changed behind an enforcer's back
          ever,      \* ghost: every rule there has been
          revoked,   \* ghost: every rule that has been removed
          cut,       \* ghost: a start ended between creating the admin and its grant
          dup        \* ghost: a token was given a user whose name was taken

vars == <<db, view, mem, boot, call, calls, faults,
          maker, born, foreign, ever, revoked, cut, dup>>

users == <<maker, born, dup>>
rules == <<mem, foreign, ever, revoked>>
bounds == <<calls, faults>>

Idle == [stage |-> "idle", req |-> NoName, at |-> NoName, user |-> NoId, sub |-> NoName,
         caller |-> NoId, target |-> NoId, crossed |-> FALSE]

Call == [stage : {"check", "row", "resolve", "apply", "link", "answer"}, req : Requests,
         at : Replica, user : UserId \cup {NoId}, sub : Name \cup {NoName},
         caller : UserId \cup {NoId}, target : UserId \cup {NoId}, crossed : BOOLEAN]

TypeOK ==
  /\ db \in Database
  /\ view \in [Replica -> Database]
  /\ mem \in [Replica -> SUBSET Rule]
  /\ boot \in [Replica -> [phase : Phase, todo : SUBSET (Edges \cup Operators),
                           user : UserId \cup {NoId}]]
  /\ call \in [Client -> Call \cup {Idle}]
  /\ calls \in 0..MaxCalls /\ faults \in 0..MaxFaults
  /\ maker \in [UserId -> {"none", "start", "token", "scim"}]
  /\ born \in [UserId -> Profile \cup {NoUser}]
  /\ foreign \in [Replica -> SUBSET Rule]
  /\ ever \subseteq Rule /\ revoked \subseteq Rule
  /\ {cut, dup} \subseteq BOOLEAN

Init ==
  /\ db = EmptyDatabase
  /\ view = [r \in Replica |-> EmptyDatabase]
  /\ mem = [r \in Replica |-> {}]
  /\ boot = [r \in Replica |-> Down]
  /\ call = [c \in Client |-> Idle]
  /\ calls = 0 /\ faults = 0
  /\ maker = [i \in UserId |-> "none"]
  /\ born = [i \in UserId |-> NoUser]
  /\ foreign = [r \in Replica |-> {}]
  /\ ever = {} /\ revoked = {}
  /\ cut = FALSE /\ dup = FALSE

-----------------------------------------------------------------------------
(* Users (crates/uc-db/src/repos/user.rs)                                  *)

Live(d) == {i \in UserId : d.users[i] # NoUser}

Least(S) == CHOOSE i \in S : \A j \in S : i <= j

\* first_where: email and external id are columns without a UNIQUE, so the
\* lookup scans and takes the smallest id.
First(S) == IF S = {} THEN NoId ELSE Least(S)

ByEmail(d, n) == First({i \in Live(d) : d.users[i].email = n})

ByExternalId(d, n) == First({i \in Live(d) : d.users[i].ext = n})

\* helpers::get_user: the email first, then the external id.
GetUser(d, n) == IF ByEmail(d, n) # NoId THEN ByEmail(d, n) ELSE ByExternalId(d, n)

NameTaken(d, n) == d.byName[n] # NoId /\ d.users[d.byName[n]] # NoUser

\* The index loses the entry of the row's present name, whoever owns it.
Unnamed(d, i) ==
  IF d.users[i] = NoUser THEN d.byName ELSE [d.byName EXCEPT ![d.users[i].name] = NoId]

PutUser(d, i, row) ==
  [d EXCEPT !.users = [@ EXCEPT ![i] = row], !.byName = [Unnamed(d, i) EXCEPT ![row.name] = i]]

DropUser(d, i) ==
  [d EXCEPT !.users = [@ EXCEPT ![i] = NoUser], !.byName = Unnamed(d, i)]

\* What find_or_create_by_external_id writes for a subject it does not know.
Provisioned(n) == [name |-> n, email |-> NoName, ext |-> n]

\* A commit that writes: the snapshot it was computed on is the head.
Commit(r, d) ==
  /\ view[r] = db
  /\ db' = d
  /\ view' = [view EXCEPT ![r] = d]

\* A process is stopped, or the answer to an append is lost.
Fault == faults < MaxFaults /\ faults' = faults + 1

\* A user row under a new id.  Ids are UUIDv7, which grow with the clock of the
\* process that takes them, but SCIM and the start take theirs before the
\* commit, whose closure keeps it through every retry: users may land in
\* another order than that of their ids, so any unused id will do.
NewUser(r, i, row, by) ==
  /\ maker[i] = "none"
  /\ Commit(r, PutUser(db, i, row))
  /\ maker' = [maker EXCEPT ![i] = by]
  /\ born' = [born EXCEPT ![i] = row]

\* Mutant: the lookup's result is kept when the commit loses its race.
FindOnceOrCreate(r, n, i) ==
  \/ /\ ByExternalId(view[r], n) # NoId
     /\ i = ByExternalId(view[r], n)
     /\ UNCHANGED <<db, view, users>>
  \/ /\ ByExternalId(view[r], n) = NoId
     /\ maker[i] = "none"
     /\ db' = PutUser(db, i, Provisioned(n))
     /\ view' = [view EXCEPT ![r] = db']
     /\ maker' = [maker EXCEPT ![i] = "token"]
     /\ born' = [born EXCEPT ![i] = Provisioned(n)]
     /\ dup' = (dup \/ NameTaken(db, n))

\* user::find_or_create_by_external_id: i is the row it answers.  The name is
\* not looked at before it is written.
FindOrCreate(r, n, i) ==
  \/ /\ ByExternalId(view[r], n) # NoId
     /\ i = ByExternalId(view[r], n)
     /\ UNCHANGED <<db, view, users>>
  \/ /\ ByExternalId(view[r], n) = NoId
     /\ NewUser(r, i, Provisioned(n), "token")
     /\ dup' = (dup \/ NameTaken(db, n))

-----------------------------------------------------------------------------
(* Rules (crates/uc-db/src/repos/casbin.rs through uc-auth/src/            *)
(* db_adapter.rs).  casbin asks the adapter first and touches its own      *)
(* memory only if the adapter says that it changed something.              *)

Others(r, rule) == [s \in Replica |-> IF s = r THEN foreign[s] \ {rule} ELSE foreign[s] \cup {rule}]

Everyone(rule) == [s \in Replica |-> foreign[s] \cup {rule}]

WithRule(d, rule) == [d EXCEPT !.rules = @ \cup {rule}]

WithoutRule(d, rule) == [d EXCEPT !.rules = @ \ {rule}]

\* The adapter wrote nothing: no change, and no error either.
NoChange == UNCHANGED <<db, view, rules, faults>>

\* Mutants: the row is written or removed, the memory is left for a reload.
AddRuleRowOnly(r, rule) ==
  \/ rule \in view[r].rules /\ NoChange
  \/ /\ rule \notin view[r].rules
     /\ Commit(r, WithRule(db, rule))
     /\ ever' = ever \cup {rule} /\ foreign' = Others(r, rule)
     /\ UNCHANGED <<mem, revoked, faults>>

RemoveRuleRowOnly(r, rule) ==
  \/ rule \notin view[r].rules /\ NoChange
  \/ /\ rule \in view[r].rules
     /\ Commit(r, WithoutRule(db, rule))
     /\ revoked' = revoked \cup {rule} /\ foreign' = Others(r, rule)
     /\ UNCHANGED <<mem, ever, faults>>

\* enforcer.add_policy, add_named_grouping_policy.  When the answer to the
\* append is lost, the retry finds the rule present and reports no change.
AddRule(r, rule) ==
  \/ rule \in view[r].rules /\ NoChange
  \/ /\ rule \notin view[r].rules
     /\ Commit(r, WithRule(db, rule))
     /\ ever' = ever \cup {rule}
     /\ \/ mem' = [mem EXCEPT ![r] = @ \cup {rule}] /\ foreign' = Others(r, rule) /\ UNCHANGED faults
        \/ Fault /\ foreign' = Everyone(rule) /\ UNCHANGED mem
     /\ UNCHANGED revoked

\* enforcer.remove_policy.
RemoveRule(r, rule) ==
  \/ rule \notin view[r].rules /\ NoChange
  \/ /\ rule \in view[r].rules
     /\ Commit(r, WithoutRule(db, rule))
     /\ revoked' = revoked \cup {rule}
     /\ \/ mem' = [mem EXCEPT ![r] = @ \ {rule}] /\ foreign' = Others(r, rule) /\ UNCHANGED faults
        \/ Fault /\ foreign' = Everyone(rule) /\ UNCHANGED mem
     /\ UNCHANGED ever

\* g2, reflexive: the securable and what it is linked under.
Above(m, o) == {o} \cup {p \in Securable : Link(o, p) \in m}

\* g3, reflexive and two levels deep: OWNER, ALL_PRIVILEGES, the others.
Implied(m, q) ==
  LET direct == {x \in Privilege : Implies(q, x) \in m}
  IN {q} \cup direct \cup {x \in Privilege : \E y \in direct : Implies(y, x) \in m}

\* Authorizer::authorize: the matcher of jcasbin_auth_model.conf.
Enforce(m, u, o, q) ==
  \E p \in Above(m, o), held \in Privilege :
    Grant(u, p, held) \in m /\ q \in Implied(m, held)

-----------------------------------------------------------------------------
(* Startup (crates/uc-server/src/main.rs)                                  *)

At(r, phase) == boot[r].phase = phase

Step(r, phase) == boot' = [boot EXCEPT ![r].phase = phase]

\* Opening the store replays the log, and the adapter loads what was replayed.
Start(r) ==
  /\ At(r, "down")
  /\ view' = [view EXCEPT ![r] = db]
  /\ mem' = [mem EXCEPT ![r] = db.rules]
  /\ foreign' = [foreign EXCEPT ![r] = {}]
  /\ boot' = [boot EXCEPT ![r] = [phase |-> "seed", todo |-> Edges, user |-> NoId]]
  /\ UNCHANGED <<db, users, call, bounds, ever, revoked, cut>>

\* seed_privilege_hierarchy, one edge; the order does not matter.
Seed(r) ==
  /\ At(r, "seed")
  /\ \E edge \in boot[r].todo :
       /\ AddRule(r, edge)
       /\ boot' = [boot EXCEPT ![r].todo = @ \ {edge},
                               ![r].phase = IF boot[r].todo = {edge} THEN "find" ELSE "seed"]
  /\ UNCHANGED <<users, call, calls, cut>>

FindAdmin(r) ==
  /\ At(r, "find")
  /\ boot' = [boot EXCEPT ![r] =
                IF ByEmail(view[r], Admin) = NoId
                THEN [phase |-> "admin", todo |-> {}, user |-> NoId]
                ELSE [phase |-> "operator", todo |-> Operators, user |-> NoId]]
  /\ UNCHANGED <<db, users, view, rules, call, bounds, cut>>

\* The process ends; its requests end with it.
Halt(r) ==
  /\ boot' = [boot EXCEPT ![r] = Down]
  /\ mem' = [mem EXCEPT ![r] = {}]
  /\ foreign' = [foreign EXCEPT ![r] = {}]
  /\ call' = [c \in Client |-> IF call[c].at = r THEN Idle ELSE call[c]]

AdminProfile == [name |-> Admin, email |-> Admin, ext |-> NoName]

\* Mutant: only a new operator is granted anything.
FindNewOperator(r) ==
  /\ At(r, "operator")
  /\ \E n \in boot[r].todo, i \in UserId :
       /\ FindOrCreate(r, n, i)
       /\ boot' = [boot EXCEPT ![r] = [phase |-> IF maker[i] = "none" THEN "operatorOwn" ELSE "operator",
                                       todo |-> @.todo \ {n}, user |-> i]]
  /\ UNCHANGED <<rules, call, bounds, cut>>

\* user::create for the admin: it succeeds, or it fails and the start with it,
\* because the name is taken or because the retry of an append whose answer
\* was lost meets the row it wrote itself.
CreateAdmin(r) ==
  /\ At(r, "admin")
  /\ \/ /\ ~NameTaken(view[r], Admin)
        /\ \E i \in UserId :
             /\ NewUser(r, i, AdminProfile, "start")
             /\ boot' = [boot EXCEPT ![r].phase = "own", ![r].user = i]
        /\ UNCHANGED <<mem, foreign, call, faults, cut>>
     \/ /\ ~NameTaken(view[r], Admin)
        /\ Fault
        /\ \E i \in UserId : NewUser(r, i, AdminProfile, "start")
        /\ cut' = TRUE
        /\ Halt(r)
     \/ /\ NameTaken(view[r], Admin)
        /\ Halt(r)
        /\ UNCHANGED <<db, view, maker, born, faults, cut>>
  /\ UNCHANGED <<dup, ever, revoked, calls>>

\* Mutant: the admin gets ALL_PRIVILEGES.
GrantAdminAll(r) ==
  /\ At(r, "own")
  /\ AddRule(r, Grant(boot[r].user, Metastore, All))
  /\ boot' = [boot EXCEPT ![r] = [phase |-> "operator", todo |-> Operators, user |-> NoId]]
  /\ UNCHANGED <<users, call, calls, cut>>

GrantAdmin(r) ==
  /\ At(r, "own")
  /\ AddRule(r, Grant(boot[r].user, Metastore, Owner))
  /\ boot' = [boot EXCEPT ![r] = [phase |-> "operator", todo |-> Operators, user |-> NoId]]
  /\ UNCHANGED <<users, call, calls, cut>>

\* bootstrap_operator_principal: find or create the user, then grant it OWNER
\* unless the enforcer says that it has it already.
FindOperator(r) ==
  /\ At(r, "operator")
  /\ \E n \in boot[r].todo, i \in UserId :
       /\ FindOrCreate(r, n, i)
       /\ boot' = [boot EXCEPT ![r] = [phase |-> "operatorOwn", todo |-> @.todo \ {n}, user |-> i]]
  /\ UNCHANGED <<rules, call, bounds, cut>>

GrantOperator(r) ==
  /\ At(r, "operatorOwn")
  /\ IF Enforce(mem[r], boot[r].user, Metastore, Owner)
     THEN NoChange
     ELSE AddRule(r, Grant(boot[r].user, Metastore, Owner))
  /\ boot' = [boot EXCEPT ![r].phase = "operator", ![r].user = NoId]
  /\ UNCHANGED <<users, call, calls, cut>>

Serve(r) ==
  /\ At(r, "operator") /\ boot[r].todo = {}
  /\ Step(r, "up")
  /\ UNCHANGED <<db, users, view, rules, call, bounds, cut>>

-----------------------------------------------------------------------------
(* Requests (crates/uc-api/src/middleware.rs and the handlers)             *)

Stage(c, stage) == call' = [call EXCEPT ![c].stage = stage]

Finish(c) == call' = [call EXCEPT ![c] = Idle]

\* A creation takes an id of its own.
Unclaimed(o) ==
  o \notin db.catalogs /\ \A c \in Client : call[c] # Idle => call[c].req.on # o \/ call[c].req.op # "create"

\* Mutant: the email, whether there is one or not.
SubjectEmail(row) == row.email

\* The claims' subject: what the handlers know the caller by.
Subject(row) == IF row.email # NoName THEN row.email ELSE row.ext

\* auth_middleware: the token's subject becomes a user, and the handlers know
\* that user by its email or, without one, its external id.  The state of the
\* user is not looked at: the claims always say that the token is a service's.
Authenticate(c, r) ==
  /\ call[c] = Idle /\ At(r, "up") /\ calls < MaxCalls
  /\ calls' = calls + 1
  /\ \E req \in Requests, i \in UserId :
       /\ req.op = "create" => req.on \in Catalog /\ Unclaimed(req.on)
       /\ FindOrCreate(r, req.sub, i)
       /\ IF req.op = "login"
          THEN UNCHANGED call
          ELSE call' = [call EXCEPT ![c] = [Idle EXCEPT !.stage = "check", !.req = req, !.at = r,
                                              !.user = i, !.sub = Subject(view'[r].users[i])]]
  /\ UNCHANGED <<rules, boot, faults, cut>>

\* What the handler asks the authorizer before it does anything.
Allowed(m, u, req) ==
  IF req.op = "create"
  THEN Enforce(m, u, Metastore, Create)
  ELSE Enforce(m, u, req.on, Owner) \/ Enforce(m, u, Metastore, Owner)

Known(c) == call[c].req.op = "create" \/ call[c].req.on \in {Metastore} \cup view[call[c].at].catalogs

\* Mutant: any user there is.
PassesKnown(c, caller) == Known(c) /\ caller # NoId

\* resolve_resource_id, get_user, authorize: a call that fails one ends.
Passes(c, caller) == Known(c) /\ caller # NoId /\ Allowed(mem[call[c].at], caller, call[c].req)

Check(c) ==
  LET caller == GetUser(view[call[c].at], call[c].sub)
      next == IF call[c].req.op = "create" THEN "row" ELSE "resolve"
  IN /\ call[c].stage = "check"
     /\ \/ Passes(c, caller) /\ call' = [call EXCEPT ![c].caller = caller, ![c].stage = next]
        \/ ~Passes(c, caller) /\ Finish(c)
     /\ UNCHANGED <<db, users, view, rules, boot, bounds, cut>>

\* catalogs::create, the row: what Objects looks at closely.
CreateRow(c) ==
  /\ call[c].stage = "row"
  /\ Commit(call[c].at, [db EXCEPT !.catalogs = @ \cup {call[c].req.on}])
  /\ Stage(c, "resolve")
  /\ UNCHANGED <<users, rules, boot, bounds, cut>>

\* Whom the rule is for.  permissions::update provisions a principal nobody has
\* seen yet; catalogs::create looks its caller up again, and if there is no
\* such user any more it leaves the catalog without owner and without link.
Resolve(c) ==
  LET r == call[c].at
      req == call[c].req
      n == IF req.op = "create" THEN call[c].sub ELSE req.who
      found == GetUser(view[r], n)
      For(i) == call' = [call EXCEPT ![c].stage = "apply", ![c].target = i]
  IN /\ call[c].stage = "resolve"
     /\ \/ found # NoId /\ For(found) /\ UNCHANGED <<db, view, users>>
        \/ found = NoId /\ req.op = "create" /\ Finish(c) /\ UNCHANGED <<db, view, users>>
        \/ found = NoId /\ req.op # "create" /\ \E i \in UserId : FindOrCreate(r, n, i) /\ For(i)
     /\ UNCHANGED <<rules, boot, bounds, cut>>

Target(c) == Grant(call[c].target, call[c].req.on, IF call[c].req.op = "create" THEN Owner ELSE call[c].req.priv)

\* Another request of the same replica whose change this one takes back.
Crosses(c, d) ==
  /\ d # c /\ call[d].stage = "answer" /\ call[d].at = call[c].at
  /\ Target(d) = Target(c) /\ (call[d].req.op = "revoke") # (call[c].req.op = "revoke")

Apply(c) ==
  LET r == call[c].at
  IN /\ call[c].stage = "apply"
     /\ IF call[c].req.op = "revoke" THEN RemoveRule(r, Target(c)) ELSE AddRule(r, Target(c))
     /\ call' = [d \in Client |->
                   CASE d = c -> [call[c] EXCEPT !.stage = IF call[c].req.op = "create" THEN "link" ELSE "answer"]
                     [] Crosses(c, d) -> [call[d] EXCEPT !.crossed = TRUE]
                     [] OTHER -> call[d]]
     /\ UNCHANGED <<users, boot, calls, cut>>

\* add_hierarchy_child: the new catalog goes under the metastore.
LinkChild(c) ==
  /\ call[c].stage = "link"
  /\ AddRule(call[c].at, Link(call[c].req.on, Metastore))
  /\ Finish(c)
  /\ UNCHANGED <<users, boot, calls, cut>>

\* permissions::update answers with list_grants_on_resource.
Answer(c) ==
  /\ call[c].stage = "answer"
  /\ Finish(c)
  /\ UNCHANGED <<db, users, view, rules, boot, bounds, cut>>

-----------------------------------------------------------------------------
(* SCIM (crates/uc-api/src/control_api/scim2.rs): one commit each.  A      *)
(* refusal changes nothing and is left out.                                *)

Scim(r) == At(r, "up") /\ calls < MaxCalls /\ calls' = calls + 1

ScimUnchanged == UNCHANGED <<rules, boot, call, faults, dup, cut>>

\* create_user: only the name is checked.
ScimCreate(r) ==
  /\ Scim(r)
  /\ \E p \in Profiles, i \in UserId :
       /\ ~NameTaken(view[r], p.name)
       /\ NewUser(r, i, p, "scim")
  /\ ScimUnchanged

\* Mutant: a rename that does not look at the index.
ScimUpdateUnchecked(r) ==
  /\ Scim(r)
  /\ \E i \in Live(view[r]), n \in Name :
       Commit(r, PutUser(db, i, [db.users[i] EXCEPT !.name = n]))
  /\ UNCHANGED <<maker, born>>
  /\ ScimUnchanged

\* update_user, patch_user: the name may change, email and external id do not.
ScimUpdate(r) ==
  /\ Scim(r)
  /\ \E i \in Live(view[r]), n \in Name :
       /\ n # view[r].users[i].name /\ ~NameTaken(view[r], n)
       /\ Commit(r, PutUser(db, i, [db.users[i] EXCEPT !.name = n]))
  /\ UNCHANGED <<maker, born>>
  /\ ScimUnchanged

\* delete_user: the grants of the user stay.
ScimDelete(r) ==
  /\ Scim(r)
  /\ \E i \in Live(view[r]) : Commit(r, DropUser(db, i))
  /\ UNCHANGED <<maker, born>>
  /\ ScimUnchanged

-----------------------------------------------------------------------------

\* A commit that lost its race catches up; so does the refresher of a replica
\* that serves.
CatchUp(r) ==
  /\ boot[r].phase \notin {"down", "find"} /\ view[r] # db
  /\ view' = [view EXCEPT ![r] = db]
  /\ UNCHANGED <<db, users, rules, boot, call, bounds, cut>>

\* The process is stopped, wherever it is.
Stop(r) ==
  /\ ~At(r, "down") /\ Fault
  /\ cut' = (cut \/ At(r, "own"))
  /\ view' = [view EXCEPT ![r] = EmptyDatabase]
  /\ Halt(r)
  /\ UNCHANGED <<db, users, ever, revoked, calls>>

Boot(r) ==
  \/ Start(r) \/ Seed(r) \/ FindAdmin(r) \/ CreateAdmin(r) \/ GrantAdmin(r)
  \/ FindOperator(r) \/ GrantOperator(r) \/ Serve(r)

Handle(c) ==
  \/ \E r \in Replica : Authenticate(c, r)
  \/ Check(c) \/ CreateRow(c) \/ Resolve(c) \/ Apply(c) \/ LinkChild(c) \/ Answer(c)

Next ==
  \/ \E r \in Replica :
       Boot(r) \/ ScimCreate(r) \/ ScimUpdate(r) \/ ScimDelete(r) \/ CatchUp(r) \/ Stop(r)
  \/ \E c \in Client : Handle(c)

Spec == Init /\ [][Next]_vars

-----------------------------------------------------------------------------
(* Properties                                                              *)

\* The enforcer never reloads its policy, it only follows the changes its own
\* process makes (UcAuthorizer).  Where memory and registry differ, the last
\* change of that rule was made behind the enforcer's back: by another replica,
\* or by a commit of its own whose answer was lost.
MemoryAgrees ==
  \A r \in Replica : ~At(r, "down") =>
    /\ mem[r] \subseteq db.rules \cup foreign[r]
    /\ db.rules \subseteq mem[r] \cup foreign[r]

\* A replica past seed_privilege_hierarchy knows every implication between
\* privileges, except one that another replica seeded between this one's load
\* and its own attempt: the adapter then reports no change.
UpKnowsHierarchy ==
  \A r \in Replica : boot[r].phase \notin {"down", "seed"} => Edges \subseteq mem[r] \cup foreign[r]

\* The admin that a start creates gets its OWNER grant on the metastore, unless
\* the start ends between the two commits: no later start makes up for it.
AdminOwnsUnlessCut ==
  ~cut => \A i \in UserId : maker[i] = "start" =>
    \/ \E r \in Replica : At(r, "own") /\ boot[r].user = i
    \/ Grant(i, Metastore, Owner) \in db.rules \cup revoked

\* A replica that serves lets every operator principal create catalogs, unless
\* its grant was revoked or a rule this takes changed behind the replica's back.
OperatorsServed ==
  \A r \in Replica, n \in Operators : At(r, "up") =>
    \E i \in UserId :
      /\ born[i].ext = n
      /\ \/ Enforce(mem[r], i, Metastore, Create)
         \/ Grant(i, Metastore, Owner) \in foreign[r] \cup revoked
         \/ Edges \cap foreign[r] # {}

\* find_or_create_by_external_id looks inside the commit's closure: tokens with
\* one subject never get two users, whichever replicas they arrive at.
OneUserPerSub ==
  \A i, j \in Live(db) :
    maker[i] = "token" /\ maker[j] = "token" /\ born[i].ext = born[j].ext => i = j

\* uc_users.name is UNIQUE and its index leads to the row that bears the name,
\* until a token's subject is a name that somebody has.
NamesUniqueUntilProvisioned ==
  ~dup => \A i \in UserId, n \in Name :
    db.byName[n] = i <=> i \in Live(db) /\ db.users[i].name = n

\* get_user finds the caller again by the email or the external id the
\* middleware put into the claims.  As long as no two users were given a common
\* email or external id, that is the user the token was resolved to.
Idents(i) == {born[i].email, born[i].ext} \ {NoName}

CallerIsTokenUser ==
  (\A i, j \in UserId : i # j => Idents(i) \cap Idents(j) = {})
    => \A c \in Client : call[c].caller \in {NoId, call[c].user}

\* However stale the memory a replica decides on: nobody gets past a check who
\* could not have been let in by rules there have been.
AllowedWereGranted ==
  \A c \in Client :
    call[c].stage \in {"row", "resolve", "apply", "link"} => Allowed(ever, call[c].caller, call[c].req)

\* A permissions update answers with the grants its replica now decides on: the
\* change shows there, unless another request of the replica took it back or
\* the rule had changed behind the replica's back (grant and revoke then report
\* success and leave the memory as it is).
AnswerShowsChange ==
  \A c \in Client : call[c].stage = "answer" /\ ~call[c].crossed =>
    \/ Target(c) \in foreign[call[c].at]
    \/ Target(c) \in mem[call[c].at] <=> call[c].req.op # "revoke"

\* The comment of first_where: sorting by id makes the choice stable.  Whoever a
\* subject or an email leads to is who it leads to while that user is there.
ChoiceIsStable ==
  [][\A n \in Name :
       /\ ByExternalId(db, n) \in Live(db') => ByExternalId(db', n) = ByExternalId(db, n)
       /\ ByEmail(db, n) \in Live(db') => ByEmail(db', n) = ByEmail(db, n)]_vars

\* A user that this step made, in one of these ways.
MadeNow(i, ways) == i \notin Live(db) /\ maker'[i] \in ways

\* Ids are older than the commits that bring them, so a user may land under a
\* smaller id than that of the user a subject or an email leads to, and take it
\* over.  Only SCIM creations do that, and for the email a start's: however many
\* replicas meet a subject at once, logins never move it, nor does a rename or
\* the removal of somebody else.
SubjectsKeepTheirUser ==
  [][\A n \in Name :
       /\ ByExternalId(db, n) \in Live(db') =>
            \/ ByExternalId(db', n) = ByExternalId(db, n)
            \/ MadeNow(ByExternalId(db', n), {"scim"})
       /\ ByEmail(db, n) \in Live(db') =>
            \/ ByEmail(db', n) = ByEmail(db, n)
            \/ MadeNow(ByEmail(db', n), {"scim", "start"})]_vars

=============================================================================
