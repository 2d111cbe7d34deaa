------------------------------ MODULE Vending -------------------------------
(***************************************************************************)
(* Temporary credentials: storage credentials, the external locations that *)
(* use them, and the vendor that assumes a role and keeps what it got.     *)
(*                                                                         *)
(* A request reads the location, then the credential, then the cache; each *)
(* read is a step of its own and the rows may change in between.  When the *)
(* cache has nothing it asks STS, and puts the answer into the cache in    *)
(* another step still.  The cache belongs to one process.                  *)
(*                                                                         *)
(* So does the snapshot every read goes to: what other replicas commit is  *)
(* in the log, db, before this process has caught up with it.              *)
(*                                                                         *)
(* Time is what STS says it is, in units of the vendor's expiry buffer.    *)
(* The process reads its own clock, which is off by skew, to work out how  *)
(* long a credential lasts, and a monotonic one to wait that long.         *)
(***************************************************************************)
EXTENDS Integers, Sequences, FiniteSets

CONSTANTS Client,    \* requests in flight
          Elsewhere, \* those of them that another replica serves, which has caught up
          Name,      \* names of credentials and locations
          Role,      \* what AssumeRole is asked for
          None,
          Url,       \* storage paths, sequences: a location covers what it is a prefix of
          Requests,  \* the requests clients send
          Granted,   \* location, operation: the caller's READ_FILES and WRITE_FILES
          Seed,      \* the rows there are to begin with
          Lives,     \* how long STS lets a session last
          Skews,     \* this process's clock, ahead or behind
          Buffer,    \* CACHE_EXPIRY_BUFFER_SECS
          Default,   \* 55 minutes
          MaxId, MaxTime, MaxCalls, MaxFaults  \* bounds of the model

Id == 1..MaxId

Ordinal == 1..MaxCalls

Op == {"Read", "ReadWrite"}

Credential == [name : Name, role : Role \cup {None}]

Location == [name : Name, url : Url, cred : Id]

Database == [creds : [Id -> Credential \cup {None}], locs : [Id -> Location \cup {None}]]

(* path asks for any path, object for the path of a table, a volume or a   *)
(* model version, delta comes through the Delta API, which looks for no    *)
(* location.  The others are the administration of the rows.               *)
Vends == {"path", "object", "delta"}

Request == [op : Vends \cup {"newCredential", "setRole", "dropCredential",
                             "newLocation", "moveLocation", "dropLocation"},
            url : Url \cup {None}, mode : Op \cup {None}, name : Name \cup {None},
            cred : Name \cup {None}, role : Role \cup {None}]

ASSUME VendingAssumption ==
  /\ Url \subseteq Seq(Nat)
  /\ Elsewhere \subseteq Client
  /\ None \notin Name /\ None \notin Role /\ None \notin Id
  /\ None \notin Credential /\ None \notin Location
  /\ Requests \subseteq Request
  /\ \A req \in Requests :
       /\ req.op \in Vends => req.url \in Url /\ req.mode \in Op
       /\ req.op \in {"newCredential", "newLocation"} => req.name \in Name
       /\ req.op \in {"newLocation", "moveLocation"} => req.url \in Url
  /\ Granted \subseteq Id \X Op
  /\ Seed \in Database
  /\ Lives \subseteq Nat /\ Skews \subseteq Int
  /\ {MaxId, MaxTime, MaxCalls, MaxFaults, Buffer, Default} \subseteq Nat

VARIABLES db,     \* the rows that all commits of the log make
          view,   \* this process's snapshot of them
          lag,    \* ghost: how many commits it is behind
          used,   \* the ids that rows have had
          call, begun, faults,
          cache,  \* what the vendor keeps
          now, skew,
          epoch,  \* ghost: how often the process has been started anew
          met,    \* ghost: the pairs of calls that overlapped
          asked   \* ghost: the credentials STS was asked for

vars == <<db, view, lag, used, call, begun, faults, cache, now, skew, epoch, met, asked>>

(* role is what AssumeRole was asked for, url and mode what the presigned  *)
(* URL is for; kept says that the vendor did not know how long it lasts.   *)
Session == [role : Role, url : Url, mode : Op, expires : Nat, kept : BOOLEAN]

Key == Role \X Url \X Op

(* roles and moved are ghosts: the roles that were configured for the      *)
(* path in a snapshot this process had while the call ran, and how many    *)
(* commits came into the snapshot meanwhile.                               *)
Idle == [n |-> 0, req |-> None, stage |-> "idle", checked |-> None, loc |-> None, cred |-> None,
         role |-> None, got |-> None, looked |-> 0, hit |-> FALSE, roles |-> {}, moved |-> 0]

Init ==
  /\ db = Seed
  /\ view = Seed /\ lag = 0
  /\ used = {i \in Id : Seed.creds[i] # None \/ Seed.locs[i] # None}
  /\ call = [c \in Client |-> Idle]
  /\ begun = 0 /\ faults = 0
  /\ cache = {}
  /\ now = 0 /\ skew \in Skews
  /\ epoch = 0 /\ met = {} /\ asked = {}

-----------------------------------------------------------------------------
(* Rows (crates/uc-db/src/repos/credential.rs, external_location.rs)       *)

LiveIn(rows) == {i \in Id : rows[i] # None}

\* get_by_natural_key.
Named(rows, name) ==
  LET hits == {i \in LiveIn(rows) : rows[i].name = name}
  IN IF hits = {} THEN None ELSE CHOOSE i \in hits : TRUE

Covers(url, path) == Len(url) <= Len(path) /\ SubSeq(path, 1, Len(url)) = url

Covering(d, path) == {i \in LiveIn(d.locs) : Covers(d.locs[i].url, path)}

\* find_by_path_prefix: the longest url, and of those the smallest id.
FindByPathPrefix(d, path) ==
  LET hits == Covering(d, path)
      longest == {i \in hits : \A j \in hits : Len(d.locs[j].url) <= Len(d.locs[i].url)}
  IN IF hits = {} THEN None ELSE CHOOSE i \in longest : \A j \in longest : i <= j

\* The role that the rows give for a path, if they give one.
RolesFor(d, path) ==
  LET loc == FindByPathPrefix(d, path)
  IN IF loc = None \/ d.creds[d.locs[loc].cred] = None THEN {} ELSE {d.creds[d.locs[loc].cred].role}

-----------------------------------------------------------------------------
(* Calls                                                                   *)

At(c, stage) == call[c].stage = stage

Req(c) == call[c].req

Administers(c) == At(c, "look") \/ At(c, "write")

\* The answer is an error, or the handler has done its work.
End(c) == call' = [call EXCEPT ![c] = Idle]

\* The snapshot a call reads.
Snap(c) == IF c \in Elsewhere THEN db ELSE view

Rows == <<db, view, lag, used>>
Vendor == <<cache, asked>>
Outside == UNCHANGED <<begun, faults, now, skew, epoch, met>>

FirstStage(req) == IF req.op = "path" THEN "check" ELSE IF req.op \in Vends THEN "locate" ELSE "look"

Begin(c) ==
  /\ At(c, "idle") /\ begun < MaxCalls
  /\ begun' = begun + 1
  /\ met' = met \cup {{call[d].n, begun + 1} : d \in {e \in Client : ~At(e, "idle")}}
  /\ \E req \in Requests :
       /\ c \in Elsewhere => req.op \notin Vends
       /\ call' = [call EXCEPT ![c] =
                     [Idle EXCEPT !.n = begun + 1, !.req = req, !.stage = FirstStage(req),
                                  !.roles = IF req.op \in Vends THEN RolesFor(view, req.url) ELSE {}]]
  /\ UNCHANGED <<Rows, Vendor, faults, now, skew, epoch>>

-----------------------------------------------------------------------------
(* The administration (crates/uc-api/src/catalog_api/credentials.rs,       *)
(* external_locations.rs): a look, then one commit.                        *)

\* What a call finds under the names of its request; the call ends when it
\* finds nothing.
Look(c) ==
  LET req == Req(c)
      loc == Named(Snap(c).locs, req.name)
      cred == Named(Snap(c).creds, IF req.op \in {"newLocation", "moveLocation"} THEN req.cred ELSE req.name)
      missing == \/ req.op \in {"moveLocation", "dropLocation"} /\ loc = None
                 \/ req.op \notin {"newCredential", "dropLocation"} /\ cred = None
  IN /\ At(c, "look")
     /\ IF missing THEN End(c)
        ELSE call' = [call EXCEPT ![c].stage = "write", ![c].loc = loc, ![c].cred = cred]
     /\ UNCHANGED <<Rows, Vendor>> /\ Outside

PutCredential(d, i, row) == [d EXCEPT !.creds[i] = row]

PutLocation(d, i, row) == [d EXCEPT !.locs[i] = row]

\* What the commit makes of the rows, i being the id a new row would have; None
\* when there is no commit, because the name is taken or gone.  An update goes
\* by the id and has nothing to do when the row is gone, a drop goes by the
\* name.  No location is asked whether it still uses a credential.
Written(c, i) ==
  LET d == Snap(c)
      req == Req(c)
      loc == call[c].loc
      cred == call[c].cred
  IN CASE req.op = "newCredential" ->
            IF Named(d.creds, req.name) # None THEN None
            ELSE PutCredential(d, i, [name |-> req.name, role |-> req.role])
       [] req.op = "setRole" ->
            IF d.creds[cred] = None THEN None ELSE PutCredential(d, cred, [d.creds[cred] EXCEPT !.role = req.role])
       [] req.op = "dropCredential" ->
            IF Named(d.creds, req.name) = None THEN None ELSE PutCredential(d, Named(d.creds, req.name), None)
       [] req.op = "newLocation" ->
            IF Named(d.locs, req.name) # None THEN None
            ELSE PutLocation(d, i, [name |-> req.name, url |-> req.url, cred |-> cred])
       [] req.op = "moveLocation" ->
            IF d.locs[loc] = None THEN None
            ELSE PutLocation(d, loc, [d.locs[loc] EXCEPT !.url = req.url, !.cred = cred])
       [] req.op = "dropLocation" ->
            IF Named(d.locs, req.name) = None THEN None ELSE PutLocation(d, Named(d.locs, req.name), None)

\* The snapshot becomes d, n commits later, under all calls but those that end.
SeeChange(over, d, n) ==
  call' = [e \in Client |->
             IF e \in over \/ At(e, "idle") THEN Idle
             ELSE [call[e] EXCEPT !.moved = @ + n,
                                  !.roles = @ \cup IF Req(e).op \in Vends THEN RolesFor(d, Req(e).url) ELSE {}]]

\* No commit: the snapshot, old as it may be, has the last word.
Refuse(c) ==
  /\ At(c, "write")
  /\ \E i \in Id : Written(c, i) = None
  /\ End(c)
  /\ UNCHANGED <<Rows, Vendor>> /\ Outside

\* A commit takes the next key of the log, so this process makes one only when
\* it has caught up with all the others.  The id of a new row was made before
\* the commit: it need not be greater than those of older rows.
Write(c) ==
  /\ At(c, "write")
  /\ \E i \in Id :
       LET d == Written(c, i)
           new == Req(c).op \in {"newCredential", "newLocation"}
       IN /\ d # None
          /\ new => i \notin used
          /\ used' = IF new THEN used \cup {i} ELSE used
          /\ db' = d
          /\ \/ c \in Elsewhere /\ lag' = lag + 1 /\ End(c) /\ UNCHANGED view
             \/ c \notin Elsewhere /\ lag = 0 /\ view' = d /\ SeeChange({c}, d, 1) /\ UNCHANGED lag
  /\ UNCHANGED Vendor /\ Outside

\* Store::catch_up, from the timer or after a commit that lost its key.
CatchUp ==
  /\ lag > 0
  /\ view' = db /\ lag' = 0
  /\ SeeChange({}, db, lag)
  /\ UNCHANGED <<db, used, Vendor>> /\ Outside

-----------------------------------------------------------------------------
(* Vending (crates/uc-api/src/catalog_api/temp_credentials.rs,             *)
(* delta_api/credentials.rs, crates/uc-credentials/src/vendor.rs)          *)

\* path_credentials: the privilege on the location that covers the path.
CheckLocation(c) ==
  LET loc == FindByPathPrefix(view, Req(c).url)
  IN /\ At(c, "check")
     /\ IF loc # None /\ <<loc, Req(c).mode>> \in Granted
        THEN call' = [call EXCEPT ![c].stage = "locate", ![c].checked = loc]
        ELSE End(c)
     /\ UNCHANGED <<Rows, Vendor>> /\ Outside

\* build_ctx, the location, looked up again; without one there is no role.
Locate(c) ==
  LET loc == IF Req(c).op = "delta" THEN None ELSE FindByPathPrefix(view, Req(c).url)
  IN /\ At(c, "locate")
     /\ call' = [call EXCEPT ![c].stage = IF loc = None THEN "cache" ELSE "credential",
                             ![c].loc = loc, ![c].cred = IF loc = None THEN None ELSE view.locs[loc].cred]
     /\ UNCHANGED <<Rows, Vendor>> /\ Outside

\* build_ctx, the credential; a location whose credential is gone ends the call.
ReadCredential(c) ==
  LET row == view.creds[call[c].cred]
  IN /\ At(c, "credential")
     /\ IF row = None THEN End(c)
        ELSE call' = [call EXCEPT ![c].stage = "cache", ![c].role = row.role]
     /\ UNCHANGED <<Rows, Vendor>> /\ Outside

\* Mutants: one of the three is left out.
KeyWithoutRole(c) == <<None, Req(c).url, Req(c).mode>>

KeyWithoutMode(c) == <<call[c].role, Req(c).url, "Read">>

\* make_cache_key.
CacheKey(c) == <<call[c].role, Req(c).url, Req(c).mode>>

\* Mutant: the buffer is subtracted here too.
UsableTwice(e) == e.until > now + Buffer

\* Whether an entry of the cache is still good.
Usable(e) == e.until > now

Fresh(key) == {e \in cache : e.key = key /\ Usable(e)}

\* vend: the entry if it is good, else AssumeRole, which needs a role.
LookInCache(c) ==
  /\ At(c, "cache")
  /\ \/ \E e \in Fresh(CacheKey(c)) :
          call' = [call EXCEPT ![c].stage = "answer", ![c].got = e.session, ![c].looked = now, ![c].hit = TRUE]
     \/ /\ Fresh(CacheKey(c)) = {} /\ call[c].role # None
        /\ call' = [call EXCEPT ![c].stage = "sts", ![c].looked = now]
     \/ Fresh(CacheKey(c)) = {} /\ call[c].role = None /\ End(c)
  /\ UNCHANGED <<Rows, Vendor>> /\ Outside

\* AwsCredentialVendor::vend: STS answers, and the path is presigned with what
\* it answered; or it refuses.
AssumeRole(c) ==
  /\ At(c, "sts")
  /\ \/ \E life \in Lives :
          call' = [call EXCEPT ![c].stage = "insert",
                               ![c].got = [role |-> call[c].role, url |-> Req(c).url, mode |-> Req(c).mode,
                                           expires |-> now + life, kept |-> FALSE]]
     \/ End(c)
  /\ UNCHANGED <<Rows, Vendor>> /\ Outside

\* By the clock of this process.
Remaining(session) == session.expires - (now + skew)

\* parse_expiry_ttl has no answer for a session that is near its end, or past it.
NearExpiry(session) == Remaining(session) <= Buffer

\* Mutant: to the very end.
TtlWithoutBuffer(session) == IF NearExpiry(session) THEN Default ELSE Remaining(session)

\* vend: where there is no answer, 55 minutes.
Ttl(session) == IF NearExpiry(session) THEN Default ELSE Remaining(session) - Buffer

\* What is in the cache under the key is replaced, whatever it is.
Insert(c) ==
  LET key == CacheKey(c)
      session == [call[c].got EXCEPT !.kept = NearExpiry(call[c].got)]
      until == now + Ttl(session)
  IN /\ At(c, "insert")
     /\ cache' = {e \in cache : e.key # key} \cup {[key |-> key, session |-> session, until |-> until]}
     /\ asked' = asked \cup {[key |-> key, by |-> call[c].n, looked |-> call[c].looked,
                              until |-> until, epoch |-> epoch]}
     /\ call' = [call EXCEPT ![c].stage = "answer", ![c].got = session]
     /\ UNCHANGED Rows /\ Outside

Answer(c) ==
  /\ At(c, "answer")
  /\ End(c)
  /\ UNCHANGED <<Rows, Vendor>> /\ Outside

-----------------------------------------------------------------------------

\* Time goes by at any point.
Tick ==
  /\ now < MaxTime
  /\ now' = now + 1
  /\ UNCHANGED <<Rows, Vendor, call, begun, faults, skew, epoch, met>>

\* This process is stopped and started again: the cache and its calls are gone,
\* and the snapshot is built from the log.
Restart ==
  /\ faults < MaxFaults
  /\ faults' = faults + 1
  /\ epoch' = epoch + 1
  /\ cache' = {}
  /\ view' = db /\ lag' = 0
  /\ call' = [c \in Client |-> IF c \in Elsewhere /\ Administers(c) THEN call[c] ELSE Idle]
  /\ UNCHANGED <<db, used, begun, now, skew, met, asked>>

Vend(c) ==
  CheckLocation(c) \/ Locate(c) \/ ReadCredential(c) \/ LookInCache(c) \/ AssumeRole(c) \/ Insert(c) \/ Answer(c)

Next ==
  \/ \E c \in Client : Begin(c) \/ Look(c) \/ Refuse(c) \/ Write(c) \/ Vend(c)
  \/ CatchUp \/ Tick \/ Restart

Spec == Init /\ [][Next]_vars

-----------------------------------------------------------------------------
(* Properties                                                              *)

Call == [n : Ordinal, req : Requests,
         stage : {"check", "locate", "credential", "cache", "sts", "insert", "answer", "look", "write"},
         checked : Id \cup {None}, loc : Id \cup {None}, cred : Id \cup {None}, role : Role \cup {None},
         got : Session \cup {None}, looked : 0..MaxTime, hit : BOOLEAN,
         roles : SUBSET (Role \cup {None}), moved : Nat]

\* The types, one of which says that nothing is cached without a role.
TypeOK ==
  /\ {db, view} \subseteq Database /\ lag \in Nat
  /\ used \subseteq Id
  /\ begun \in 0..MaxCalls /\ faults \in 0..MaxFaults
  /\ now \in 0..MaxTime /\ skew \in Skews /\ epoch = faults
  /\ \A c \in Client : call[c] = Idle \/ call[c] \in Call
  /\ \A e \in cache : e.key \in Key /\ e.session \in Session /\ e.until \in Nat
  /\ met \in SUBSET SUBSET Ordinal

Answers == {c \in Client : At(c, "answer")}

\* The cache keeps apart what differs: a request gets a session under the role
\* its location gave it, and a presigned URL for its own path and operation.
ServedAsAsked ==
  \A c \in Answers :
    call[c].got.role = call[c].role /\ call[c].got.url = Req(c).url /\ call[c].got.mode = Req(c).mode

\* Whatever the cache still holds: the role that is handed out was configured
\* for the path in a snapshot this process had during the call (not before a
\* change of role it knew of, not after a drop of the credential it knew of).
\* Location and credential are read one after the other, so that two commits
\* seen in one call can mix; without any, the location whose privilege was
\* checked is the one whose role is used.
RoleWasConfigured ==
  \A c \in Answers :
    /\ call[c].got.role \in call[c].roles \/ call[c].moved >= 2
    /\ Req(c).op = "path" /\ call[c].moved = 0 => call[c].loc = call[c].checked

\* What comes out of the cache has not expired, while the clock of the process
\* is behind by no more than the buffer, and except for what was near its end
\* already when it came from STS: that is kept for 55 minutes.
FreshWhileClockAgrees ==
  \A c \in Answers :
    call[c].hit /\ skew >= -Buffer /\ ~call[c].got.kept => call[c].got.expires > call[c].looked

\* Two requests one after the other do not both ask STS while what the first
\* one got is good, unless a third that overlapped the first replaced it.
StsAskedOnce ==
  \A v, w \in asked :
    v.key = w.key /\ v.epoch = w.epoch /\ v.by < w.by /\ {v.by, w.by} \notin met =>
      \/ w.looked >= v.until
      \/ \E x \in asked : x.key = v.key /\ {x.by, v.by} \in met

=============================================================================
