--------------------------- MODULE Vending_proofs ----------------------------
(***************************************************************************)
(* The vendor for any number of requests, roles, paths, clocks and session *)
(* lengths: its cache never mixes up what it holds, nothing it hands out   *)
(* has expired, for the clocks and sessions FreshWhileClockAgrees says,    *)
(* the role it hands out was configured in a snapshot the process had      *)
(* while the request ran, and STS is not asked again for what the cache    *)
(* still has.                                                              *)
(***************************************************************************)
EXTENDS Vending, FiniteSetTheorems, WellFoundedInduction, TLAPS

\* What TLC's TypeOK says of time, as far as it is needed here.
Clock == now \in Nat /\ skew \in Int

\* Requests in flight are records with the fields of Idle.
Shape ==
  /\ call = [c \in Client |-> call[c]]
  /\ \A c \in Client : DOMAIN call[c] = DOMAIN Idle

\* A session that a clock behind by no more than the buffer can rely on.
Reliable(session) == skew >= -Buffer /\ ~session.kept

\* An entry is under the key of what it holds and is not used for longer than
\* the session lasts.
EntryInv(e) ==
  /\ e.key = <<e.session.role, e.session.url, e.session.mode>>
  /\ e.until \in Int /\ e.session.expires \in Int
  /\ Reliable(e.session) => e.until <= e.session.expires

\* A session belongs to the request that holds it, and one from the cache was
\* good when it was taken from there.
CallInv(k) ==
  /\ k.stage \in {"insert", "answer"} =>
       k.got.role = k.role /\ k.got.url = k.req.url /\ k.got.mode = k.req.mode
  /\ k.stage = "insert" =>
       /\ k.got.expires \in Int
       /\ DOMAIN k.got = {"role", "url", "mode", "expires", "kept"}
  /\ k.hit => k.stage = "answer" /\ (Reliable(k.got) => k.got.expires > k.looked)
  /\ k.hit \in BOOLEAN

IInv ==
  /\ Clock /\ Shape
  /\ \A e \in cache : EntryInv(e)
  /\ \A c \in Client : CallInv(call[c])

LEMMA InitInv == Init => IInv
<1> SUFFICES ASSUME Init
             PROVE  IInv
  OBVIOUS
<1>1. Clock
  BY VendingAssumption DEF Init, Clock
<1>2. Shape
  BY DEF Init, Shape
<1>3. \A c \in Client : CallInv(call[c])
  BY DEF Init, CallInv, Idle
<1>4. \A e \in cache : EntryInv(e)
  BY DEF Init
<1> QED BY <1>1, <1>2, <1>3, <1>4 DEF IInv

\* One request moves on, the vendor and the clocks stay as they are.
LEMMA OneMoves ==
  ASSUME IInv, NEW c \in Client, NEW k,
         DOMAIN k = DOMAIN Idle, CallInv(k),
         call' = [call EXCEPT ![c] = k],
         UNCHANGED <<cache, now, skew>>
  PROVE  IInv'
<1>1. Shape'
  BY DEF IInv, Shape
<1>2. \A d \in Client : CallInv(call[d])'
  <2> SUFFICES ASSUME NEW d \in Client
               PROVE  CallInv(call[d])'
    OBVIOUS
  <2>1. call'[d] = k \/ call'[d] = call[d]
    BY DEF IInv, Shape
  <2>2. CallInv(call[d])
    BY DEF IInv
  <2> QED BY <2>1, <2>2 DEF CallInv, Reliable
<1>3. \A e \in cache' : EntryInv(e)'
  BY DEF IInv, EntryInv, Reliable
<1> QED BY <1>1, <1>2, <1>3 DEF IInv, Clock

LEMMA IdleInv == DOMAIN Idle = DOMAIN Idle /\ CallInv(Idle)
BY DEF CallInv, Idle

LEMMA EndInv ==
  ASSUME IInv, NEW c \in Client, End(c), UNCHANGED <<cache, now, skew>>
  PROVE  IInv'
BY IdleInv, OneMoves DEF End

LEMMA BeginInv ==
  ASSUME IInv, NEW c \in Client, Begin(c)
  PROVE  IInv'
<1>1. PICK req \in Requests :
        call' = [call EXCEPT ![c] =
                   [Idle EXCEPT !.n = begun + 1, !.req = req, !.stage = FirstStage(req),
                                !.roles = IF req.op \in Vends THEN RolesFor(view, req.url) ELSE {}]]
  BY DEF Begin
<1> DEFINE k == [Idle EXCEPT !.n = begun + 1, !.req = req, !.stage = FirstStage(req),
                             !.roles = IF req.op \in Vends THEN RolesFor(view, req.url) ELSE {}]
<1>2. DOMAIN k = DOMAIN Idle
  BY DEF Idle
<1>3. CallInv(k)
  BY DEF CallInv, Idle, FirstStage
<1>4. UNCHANGED <<cache, now, skew>>
  BY DEF Begin, Vendor
<1> HIDE DEF k
<1> QED BY <1>1, <1>2, <1>3, <1>4, OneMoves DEF k

\* A step that only takes a request to a stage without a session.
LEMMA ReadInv ==
  ASSUME IInv, NEW c \in Client, NEW k,
         DOMAIN k = DOMAIN Idle, k.hit = FALSE,
         k.stage \notin {"insert", "answer"},
         call' = [call EXCEPT ![c] = k], UNCHANGED <<cache, now, skew>>
  PROVE  IInv'
BY OneMoves DEF CallInv

\* Before the answer nothing has come from the cache.
LEMMA NotHit ==
  ASSUME IInv, NEW c \in Client, call[c].stage # "answer"
  PROVE  call[c].hit = FALSE
BY DEF IInv, CallInv

LEMMA LookInv ==
  ASSUME IInv, NEW c \in Client, Look(c)
  PROVE  IInv'
<1> DEFINE req == Req(c)
           loc == Named(Snap(c).locs, req.name)
           cred == Named(Snap(c).creds, IF req.op \in {"newLocation", "moveLocation"} THEN req.cred ELSE req.name)
           k == [call[c] EXCEPT !.stage = "write", !.loc = loc, !.cred = cred]
<1>1. UNCHANGED <<cache, now, skew>> /\ call[c].hit = FALSE
  BY NotHit DEF Look, At, Vendor, Outside
<1>2. End(c) \/ call' = [call EXCEPT ![c] = k]
  BY DEF Look
<1>3. DOMAIN k = DOMAIN Idle /\ k.hit = FALSE /\ k.stage = "write"
  BY <1>1 DEF IInv, Shape, Idle
<1> HIDE DEF k
<1> QED BY <1>1, <1>2, <1>3, EndInv, ReadInv

LEMMA CheckLocationInv ==
  ASSUME IInv, NEW c \in Client, CheckLocation(c)
  PROVE  IInv'
<1> DEFINE k == [call[c] EXCEPT !.stage = "locate", !.checked = FindByPathPrefix(view, Req(c).url)]
<1>1. UNCHANGED <<cache, now, skew>> /\ call[c].hit = FALSE
  BY NotHit DEF CheckLocation, At, Vendor, Outside
<1>2. End(c) \/ call' = [call EXCEPT ![c] = k]
  BY DEF CheckLocation
<1>3. DOMAIN k = DOMAIN Idle /\ k.hit = FALSE /\ k.stage = "locate"
  BY <1>1 DEF IInv, Shape, Idle
<1> HIDE DEF k
<1> QED BY <1>1, <1>2, <1>3, EndInv, ReadInv

LEMMA LocateInv ==
  ASSUME IInv, NEW c \in Client, Locate(c)
  PROVE  IInv'
<1> DEFINE loc == IF Req(c).op = "delta" THEN None ELSE FindByPathPrefix(view, Req(c).url)
           k == [call[c] EXCEPT !.stage = IF loc = None THEN "cache" ELSE "credential",
                                !.loc = loc, !.cred = IF loc = None THEN None ELSE view.locs[loc].cred]
<1>1. UNCHANGED <<cache, now, skew>> /\ call[c].hit = FALSE
  BY NotHit DEF Locate, At, Vendor, Outside
<1>2. call' = [call EXCEPT ![c] = k]
  BY DEF Locate
<1>3. DOMAIN k = DOMAIN Idle /\ k.hit = FALSE /\ k.stage \in {"cache", "credential"}
  BY <1>1 DEF IInv, Shape, Idle
<1> HIDE DEF k
<1> QED BY <1>1, <1>2, <1>3, ReadInv

LEMMA ReadCredentialInv ==
  ASSUME IInv, NEW c \in Client, ReadCredential(c)
  PROVE  IInv'
<1> DEFINE k == [call[c] EXCEPT !.stage = "cache", !.role = view.creds[call[c].cred].role]
<1>1. UNCHANGED <<cache, now, skew>> /\ call[c].hit = FALSE
  BY NotHit DEF ReadCredential, At, Vendor, Outside
<1>2. End(c) \/ call' = [call EXCEPT ![c] = k]
  BY DEF ReadCredential
<1>3. DOMAIN k = DOMAIN Idle /\ k.hit = FALSE /\ k.stage = "cache"
  BY <1>1 DEF IInv, Shape, Idle
<1> HIDE DEF k
<1> QED BY <1>1, <1>2, <1>3, EndInv, ReadInv

\* A change of the rows: the other requests remember it, and keep the rest.
\* Rows change under the requests.
LEMMA SeeChangeInv ==
  ASSUME IInv, NEW over, NEW d, NEW n, SeeChange(over, d, n), UNCHANGED <<cache, now, skew>>
  PROVE  IInv'
<1> DEFINE Seen(e) == [call[e] EXCEPT
                         !.moved = @ + n,
                         !.roles = @ \cup IF Req(e).op \in Vends THEN RolesFor(d, Req(e).url) ELSE {}]
<1>1. call' = [e \in Client |-> IF e \in over \/ At(e, "idle") THEN Idle ELSE Seen(e)]
  BY DEF SeeChange
<1>2. \A e \in Client : DOMAIN Seen(e) = DOMAIN Idle
  BY DEF IInv, Shape, Idle
<1>3. \A e \in Client : CallInv(Seen(e))
  <2> SUFFICES ASSUME NEW e \in Client
               PROVE  CallInv(Seen(e))
    OBVIOUS
  <2>1. \A f \in {"stage", "got", "role", "req", "hit", "looked"} : Seen(e)[f] = call[e][f]
    BY DEF IInv, Shape, Idle
  <2>2. CallInv(call[e])
    BY DEF IInv
  <2> HIDE DEF Seen
  <2> QED BY <2>1, <2>2 DEF CallInv
<1> HIDE DEF Seen
<1>4. Shape'
  BY <1>1, <1>2 DEF Shape
<1>5. \A e \in Client : CallInv(call[e])'
  BY <1>1, <1>3, IdleInv DEF CallInv, Reliable
<1>6. \A e \in cache' : EntryInv(e)'
  BY DEF IInv, EntryInv, Reliable
<1> QED BY <1>4, <1>5, <1>6 DEF IInv, Clock

LEMMA WriteInv ==
  ASSUME IInv, NEW c \in Client, Write(c)
  PROVE  IInv'
BY EndInv, SeeChangeInv DEF Write, Vendor, Outside

LEMMA RefuseInv ==
  ASSUME IInv, NEW c \in Client, Refuse(c)
  PROVE  IInv'
BY EndInv DEF Refuse, Vendor, Outside

LEMMA CatchUpInv ==
  ASSUME IInv, CatchUp
  PROVE  IInv'
BY SeeChangeInv DEF CatchUp, Vendor, Outside

\* An entry that is still usable is not past the end of its session.
LEMMA LookInCacheInv ==
  ASSUME IInv, NEW c \in Client, LookInCache(c)
  PROVE  IInv'
<1>1. UNCHANGED <<cache, now, skew>> /\ call[c].hit = FALSE
  BY NotHit DEF LookInCache, At, Vendor, Outside
<1>2. ASSUME NEW e \in Fresh(CacheKey(c)),
             call' = [call EXCEPT ![c].stage = "answer", ![c].got = e.session, ![c].looked = now, ![c].hit = TRUE]
      PROVE  IInv'
  <2> DEFINE k == [call[c] EXCEPT !.stage = "answer", !.got = e.session, !.looked = now, !.hit = TRUE]
  <2>1. /\ DOMAIN k = DOMAIN Idle
        /\ k.stage = "answer" /\ k.got = e.session /\ k.looked = now /\ k.hit = TRUE
        /\ k.role = call[c].role /\ k.req = call[c].req
    BY DEF IInv, Shape, Idle
  <2>2. call' = [call EXCEPT ![c] = k]
    BY <1>2
  <2> HIDE DEF k
  <2>3. e.key = <<call[c].role, call[c].req.url, call[c].req.mode>> /\ e.until > now /\ EntryInv(e)
    BY DEF Fresh, CacheKey, Usable, Req, IInv
  <2>4. Reliable(e.session) => e.session.expires > now
    BY <2>3 DEF EntryInv, IInv, Clock
  <2>a. k.got.role = k.role /\ k.got.url = k.req.url /\ k.got.mode = k.req.mode
    BY <2>1, <2>3 DEF EntryInv
  <2>5. CallInv(k)
    BY <2>1, <2>4, <2>a DEF CallInv
  <2> QED BY <1>1, <2>1, <2>2, <2>5, OneMoves
<1>3. CASE call' = [call EXCEPT ![c].stage = "sts", ![c].looked = now]
  <2> DEFINE k == [call[c] EXCEPT !.stage = "sts", !.looked = now]
  <2>1. DOMAIN k = DOMAIN Idle /\ k.hit = FALSE /\ k.stage = "sts"
    BY <1>1 DEF IInv, Shape, Idle
  <2>2. call' = [call EXCEPT ![c] = k]
    BY <1>3
  <2> HIDE DEF k
  <2> QED BY <1>1, <2>1, <2>2, ReadInv
<1>4. CASE End(c)
  BY <1>1, <1>4, EndInv
<1> QED BY <1>2, <1>3, <1>4 DEF LookInCache

LEMMA AssumeRoleInv ==
  ASSUME IInv, NEW c \in Client, AssumeRole(c)
  PROVE  IInv'
<1>1. UNCHANGED <<cache, now, skew>> /\ call[c].hit = FALSE
  BY NotHit DEF AssumeRole, At, Vendor, Outside
<1>2. ASSUME NEW life \in Lives,
             call' = [call EXCEPT ![c].stage = "insert",
                                  ![c].got = [role |-> call[c].role, url |-> Req(c).url, mode |-> Req(c).mode,
                                              expires |-> now + life, kept |-> FALSE]]
      PROVE  IInv'
  <2> DEFINE got == [role |-> call[c].role, url |-> Req(c).url, mode |-> Req(c).mode,
                     expires |-> now + life, kept |-> FALSE]
             k == [call[c] EXCEPT !.stage = "insert", !.got = got]
  <2>1. /\ DOMAIN k = DOMAIN Idle
        /\ k.stage = "insert" /\ k.got = got /\ k.hit = FALSE
        /\ k.role = call[c].role /\ k.req = call[c].req
    BY <1>1 DEF IInv, Shape, Idle
  <2>2. call' = [call EXCEPT ![c] = k]
    BY <1>2
  <2> HIDE DEF k
  <2>3. now + life \in Int
    BY VendingAssumption DEF IInv, Clock
  <2>4. /\ k.got.role = k.role /\ k.got.url = k.req.url /\ k.got.mode = k.req.mode
        /\ k.got.expires \in Int
    BY <2>1, <2>3 DEF Req
  <2>a. DOMAIN k.got = {"role", "url", "mode", "expires", "kept"}
    BY <2>1
  <2>5. CallInv(k)
    BY <2>1, <2>4, <2>a DEF CallInv
  <2> QED BY <1>1, <2>1, <2>2, <2>5, OneMoves
<1>3. CASE End(c)
  BY <1>1, <1>3, EndInv
<1> QED BY <1>2, <1>3 DEF AssumeRole

\* The new entry is used until the buffer before its session's end, by a clock
\* that may be behind by the buffer.
LEMMA InsertInv ==
  ASSUME IInv, NEW c \in Client, Insert(c)
  PROVE  IInv'
<1> DEFINE session == [call[c].got EXCEPT !.kept = NearExpiry(call[c].got)]
           until == now + Ttl(session)
           entry == [key |-> CacheKey(c), session |-> session, until |-> until]
           k == [call[c] EXCEPT !.stage = "answer", !.got = session]
<1>1. /\ cache' = {e \in cache : e.key # CacheKey(c)} \cup {entry}
      /\ call' = [call EXCEPT ![c] = k]
      /\ call[c].stage = "insert" /\ UNCHANGED <<now, skew>>
  BY DEF Insert, At, Outside
<1>2. call[c].hit = FALSE /\ CallInv(call[c])
  BY <1>1, NotHit DEF IInv
<1>3. /\ session.role = call[c].role /\ session.url = call[c].req.url /\ session.mode = call[c].req.mode
      /\ session.expires \in Int /\ session.expires = call[c].got.expires
      /\ session.kept = NearExpiry(call[c].got)
  BY <1>1, <1>2 DEF CallInv
<1>4. NearExpiry(session) = session.kept
  BY <1>3 DEF NearExpiry, Remaining
<1> HIDE DEF session
<1>a. Buffer \in Nat /\ Default \in Nat /\ now \in Nat /\ skew \in Int
  BY VendingAssumption DEF IInv, Clock
<1>b. Ttl(session) \in Int /\ (~session.kept => Ttl(session) = session.expires - (now + skew) - Buffer)
  <2>1. Remaining(session) \in Int /\ Remaining(session) = session.expires - (now + skew)
    BY <1>3, <1>a DEF Remaining
  <2>2. CASE session.kept
    <3>1. Ttl(session) = Default
      BY <1>4, <2>2 DEF Ttl
    <3> QED BY <1>a, <2>2, <3>1
  <2>3. CASE ~session.kept
    <3>1. Ttl(session) = Remaining(session) - Buffer
      BY <1>4, <2>3 DEF Ttl
    <3> QED BY <1>a, <2>1, <3>1
  <2> QED BY <2>2, <2>3
<1> HIDE DEF until
<1>c. until = now + Ttl(session)
  BY DEF until
<1>5. until \in Int /\ (Reliable(session) => until <= session.expires)
  BY <1>3, <1>a, <1>b, <1>c DEF Reliable
<1> HIDE DEF until
<1>6. EntryInv(entry)
  BY <1>3, <1>5 DEF EntryInv, CacheKey, Req
<1> HIDE DEF entry
<1>7. \A e \in cache' : EntryInv(e)'
  BY <1>1, <1>6 DEF IInv, EntryInv, Reliable
<1>8. /\ DOMAIN k = DOMAIN Idle
      /\ k.stage = "answer" /\ k.got = session /\ k.hit = FALSE
      /\ k.role = call[c].role /\ k.req = call[c].req
  BY <1>2 DEF IInv, Shape, Idle
<1> HIDE DEF k
<1>9. CallInv(k)
  BY <1>3, <1>8 DEF CallInv
<1>10. Shape'
  BY <1>1, <1>8 DEF IInv, Shape
<1>11. \A d \in Client : CallInv(call[d])'
  <2> SUFFICES ASSUME NEW d \in Client
               PROVE  CallInv(call[d])'
    OBVIOUS
  <2>1. call'[d] = k \/ call'[d] = call[d]
    BY <1>1 DEF IInv, Shape
  <2>2. CallInv(call[d])
    BY DEF IInv
  <2> QED BY <1>1, <1>9, <2>1, <2>2 DEF CallInv, Reliable
<1> QED BY <1>1, <1>7, <1>10, <1>11 DEF IInv, Clock

LEMMA TickInv ==
  ASSUME IInv, Tick
  PROVE  IInv'
BY DEF IInv, Tick, Vendor, Clock, Shape, CallInv, EntryInv, Reliable

LEMMA RestartInv ==
  ASSUME IInv, Restart
  PROVE  IInv'
<1>1. \A c \in Client : call'[c] = Idle \/ call'[c] = call[c]
  BY DEF Restart
<1>2. Shape'
  BY <1>1 DEF Restart, IInv, Shape
<1>3. \A c \in Client : CallInv(call[c])'
  BY <1>1, IdleInv DEF IInv, CallInv, Reliable, Restart
<1> QED BY <1>2, <1>3 DEF IInv, Restart, Clock

LEMMA NextInv == IInv /\ [Next]_vars => IInv'
<1> SUFFICES ASSUME IInv, [Next]_vars
             PROVE  IInv'
  OBVIOUS
<1>1. ASSUME NEW c \in Client, Begin(c) \/ Look(c) \/ Refuse(c) \/ Write(c) \/ Vend(c)
      PROVE  IInv'
  <2>1. CASE Answer(c)
    BY <2>1, EndInv DEF Answer, Vendor, Outside
  <2> QED BY <1>1, <2>1, BeginInv, LookInv, RefuseInv, WriteInv, CheckLocationInv, LocateInv, ReadCredentialInv,
             LookInCacheInv, AssumeRoleInv, InsertInv DEF Vend
<1>2. CASE UNCHANGED vars
  BY <1>2 DEF vars, IInv, Clock, Shape, CallInv, EntryInv, Reliable
<1> QED BY <1>1, <1>2, CatchUpInv, TickInv, RestartInv DEF Next

LEMMA Safety == Spec => []IInv
<1> QED BY InitInv, NextInv, PTL DEF Spec

\* Whatever is in the cache: a request is answered with a session under its own
\* role and a URL for its own path and operation (make_cache_key).
THEOREM NeverMixed == Spec => []ServedAsAsked
<1>1. IInv => ServedAsAsked
  BY DEF IInv, CallInv, ServedAsAsked, Answers, At, Req
<1> QED BY <1>1, Safety, PTL

\* For every clock that is not behind by more than the buffer: what comes from
\* the cache is good, unless the session was near its end when it came.  Those
\* are kept for 55 minutes, however soon they end, and nothing is said of them
\* (vend, parse_expiry_ttl).
THEOREM FreshUnlessKept == Spec => []FreshWhileClockAgrees
<1>1. IInv => FreshWhileClockAgrees
  BY DEF IInv, CallInv, Reliable, FreshWhileClockAgrees, Answers
<1> QED BY <1>1, Safety, PTL

-----------------------------------------------------------------------------
(* The types                                                               *)

LEMMA IdIs == Id \subseteq Nat /\ None \notin Id
BY VendingAssumption DEF Id

LEMMA NamedIs ==
  ASSUME NEW rows, NEW name, Named(rows, name) # None
  PROVE  Named(rows, name) \in Id
BY DEF Named, LiveIn

\* Of any numbers there is a least one.
LEMMA LeastOne ==
  ASSUME NEW S, S \subseteq Nat, S # {}
  PROVE  \E i \in S : \A j \in S : i <= j
<1> DEFINE Less == {ss \in Nat \X Nat : ss[1] < ss[2]}
<1>1. IsWellFoundedOn(Less, Nat)
  BY NatLessThanWellFounded DEF OpToRel
<1>2. PICK i \in S : \A j \in S : ~(<<j, i>> \in Less)
  <2> HIDE DEF Less
  <2> QED BY <1>1, WFMin
<1>3. \A j \in S : ~(j < i)
  BY <1>2
<1> QED BY <1>3

\* Among the locations that cover a path there is one to choose.
LEMMA FoundCovers ==
  ASSUME NEW d \in Database, NEW path \in Url, FindByPathPrefix(d, path) # None
  PROVE  FindByPathPrefix(d, path) \in Covering(d, path)
<1> DEFINE hits == Covering(d, path)
           Gap(i) == Len(path) - Len(d.locs[i].url)
           longest == {i \in hits : \A j \in hits : Len(d.locs[j].url) <= Len(d.locs[i].url)}
<1>1. hits # {} /\ FindByPathPrefix(d, path) = CHOOSE i \in longest : \A j \in longest : i <= j
  BY DEF FindByPathPrefix
<1>2. hits \subseteq Id
  BY DEF Covering, LiveIn
<1>3. \A i \in hits : Len(d.locs[i].url) \in Nat /\ Len(path) \in Nat /\ Gap(i) \in Nat
  <2> SUFFICES ASSUME NEW i \in hits
               PROVE  Len(d.locs[i].url) \in Nat /\ Len(path) \in Nat /\ Gap(i) \in Nat
    OBVIOUS
  <2>1. d.locs[i] \in Location /\ Covers(d.locs[i].url, path)
    BY DEF Covering, LiveIn, Database
  <2>2. d.locs[i].url \in Seq(Nat) /\ path \in Seq(Nat)
    BY <2>1, VendingAssumption DEF Location
  <2> QED BY <2>1, <2>2 DEF Covers
<1>4. PICK g \in {Gap(i) : i \in hits} : \A h \in {Gap(i) : i \in hits} : g <= h
  <2>1. {Gap(i) : i \in hits} \subseteq Nat /\ {Gap(i) : i \in hits} # {}
    BY <1>1, <1>3
  <2> HIDE DEF Gap
  <2> QED BY <2>1, LeastOne
<1>5. PICK i \in hits : g = Gap(i)
  OBVIOUS
<1>6. \A j \in hits : Len(d.locs[j].url) <= Len(d.locs[i].url)
  <2> SUFFICES ASSUME NEW j \in hits
               PROVE  Len(d.locs[j].url) <= Len(d.locs[i].url)
    OBVIOUS
  <2>1. Gap(i) <= Gap(j)
    BY <1>4, <1>5
  <2> QED BY <2>1, <1>3
<1>7. longest # {} /\ longest \subseteq Nat
  BY <1>2, <1>6, IdIs
<1>8. \E m \in longest : \A j \in longest : m <= j
  BY <1>7, LeastOne
<1>9. FindByPathPrefix(d, path) \in longest
  BY <1>1, <1>8
<1> QED BY <1>9

LEMMA FoundIs ==
  ASSUME NEW d \in Database, NEW path \in Url, NEW loc, loc = FindByPathPrefix(d, path), loc # None
  PROVE  loc \in Id /\ d.locs[loc] \in Location /\ d.locs[loc].cred \in Id
BY FoundCovers DEF Covering, LiveIn, Database, Location

LEMMA RolesForIs ==
  ASSUME NEW d \in Database, NEW path \in Url
  PROVE  RolesFor(d, path) \subseteq Role \cup {None}
BY FoundIs DEF RolesFor, Database, Credential

\* What a request has by its stage.
StageOK(k) ==
  /\ k.stage \in {"look", "write"} <=> k.req.op \notin Vends
  /\ k.stage = "write" =>
       /\ k.req.op \in {"moveLocation", "dropLocation"} => k.loc \in Id
       /\ k.req.op \notin {"newCredential", "dropLocation"} => k.cred \in Id
  /\ k.stage = "credential" => k.loc \in Id /\ k.cred \in Id
  /\ k.stage \in {"sts", "insert", "answer"} => k.role \in Role
  /\ k.stage \in {"insert", "answer"} => k.got \in Session

Busy(k) == k \in Call /\ StageOK(k)

\* TypeOK without its calls.
Settled ==
  /\ db \in Database /\ view \in Database /\ lag \in Nat
  /\ used \subseteq Id
  /\ begun \in 0..MaxCalls /\ faults \in 0..MaxFaults
  /\ now \in 0..MaxTime /\ skew \in Skews /\ epoch = faults
  /\ \A e \in cache : e.key \in Key /\ e.session \in Session /\ e.until \in Nat
  /\ met \in SUBSET SUBSET Ordinal

TInv == Shape /\ Settled /\ \A c \in Client : call[c] = Idle \/ Busy(call[c])

LEMMA TInvTypes == TInv => TypeOK
BY DEF TInv, Settled, Busy, TypeOK

LEMMA InitTypes == Init => TInv
<1> SUFFICES ASSUME Init
             PROVE  TInv
  OBVIOUS
<1>1. used \subseteq Id
  BY DEF Init
<1>2. Shape
  BY DEF Init, Shape
<1>3. Settled
  BY <1>1, VendingAssumption DEF Init, Settled
<1> QED BY <1>2, <1>3 DEF Init, TInv
Same == UNCHANGED <<db, view, lag, used, begun, faults, cache, now, skew, epoch, met>>

LEMMA OneTyped ==
  ASSUME TInv, NEW c \in Client, NEW k, k = Idle \/ Busy(k),
         call' = [call EXCEPT ![c] = k], Settled'
  PROVE  TInv'
<1>1. DOMAIN k = DOMAIN Idle
  BY DEF Busy, Call, Idle
<1>2. Shape'
  BY <1>1 DEF TInv, Shape
<1>3. \A d \in Client : call'[d] = k \/ call'[d] = call[d]
  BY DEF TInv, Shape
<1>4. \A d \in Client : call'[d] = Idle \/ Busy(call'[d])
  BY <1>3 DEF TInv
<1> QED BY <1>2, <1>4 DEF TInv, Busy, StageOK

LEMMA SameSettled == ASSUME Settled, Same PROVE Settled'
BY DEF Settled, Same

LEMMA EndTyped ==
  ASSUME TInv, NEW c \in Client, End(c), Same
  PROVE  TInv'
BY OneTyped, SameSettled DEF End, TInv

\* A request that is under way.
LEMMA AtBusy ==
  ASSUME TInv, NEW c \in Client, ~At(c, "idle")
  PROVE  /\ Busy(call[c]) /\ call[c] \in Call /\ StageOK(call[c])
         /\ Req(c) \in Requests /\ Req(c) \in Request
         /\ Req(c).op \in Vends => Req(c).url \in Url /\ Req(c).mode \in Op
<1>1. call[c] # Idle
  BY DEF At, Idle
<1>2. Busy(call[c]) /\ call[c] \in Call /\ StageOK(call[c])
  BY <1>1 DEF TInv, Busy
<1>3. Req(c) \in Requests /\ Req(c) \in Request
  BY <1>2, VendingAssumption DEF Call, Req
<1> QED BY <1>2, <1>3, VendingAssumption

\* What a request begins as has the types of a request.
Started(n, req, stage, roles) == [Idle EXCEPT !.n = n, !.req = req, !.stage = stage, !.roles = roles]

LEMMA IdleWith ==
  ASSUME NEW n \in Ordinal, NEW req \in Requests, NEW stage \in {"check", "locate", "look"},
         NEW roles \in SUBSET (Role \cup {None}), MaxTime \in Nat,
         NEW k, k = Started(n, req, stage, roles)
  PROVE  k \in Call /\ k.stage = stage /\ k.req = req /\ k.n = n /\ k.roles = roles /\ k.moved = 0
<1> DEFINE S == [n : {0} \cup Ordinal, req : {None} \cup Requests,
                 stage : {"idle", "check", "locate", "look"}, checked : {None}, loc : {None},
                 cred : {None}, role : {None}, got : {None}, looked : {0}, hit : {FALSE},
                 roles : SUBSET (Role \cup {None}), moved : {0}]
<1>1. Idle \in S
  BY DEF Idle
<1>2. k = [Idle EXCEPT !.n = n, !.req = req, !.stage = stage, !.roles = roles]
  BY DEF Started
<1>3. ASSUME NEW x \in S, k = [x EXCEPT !.n = n, !.req = req, !.stage = stage, !.roles = roles]
      PROVE  k \in Call /\ k.stage = stage /\ k.req = req /\ k.n = n /\ k.roles = roles /\ k.moved = 0
  <2>1. /\ k.n = n /\ k.req = req /\ k.stage = stage /\ k.roles = roles
        /\ k.checked = x.checked /\ k.loc = x.loc /\ k.cred = x.cred /\ k.role = x.role
        /\ k.got = x.got /\ k.looked = x.looked /\ k.hit = x.hit /\ k.moved = x.moved
        /\ DOMAIN k = DOMAIN x
    BY <1>3
  <2>2. k = [f \in DOMAIN x |-> k[f]]
    BY <1>3
  <2>3. DOMAIN x = {"n", "req", "stage", "checked", "loc", "cred", "role", "got", "looked", "hit", "roles", "moved"}
    OBVIOUS
  <2>4. /\ x.checked = None /\ x.loc = None /\ x.cred = None /\ x.role = None /\ x.got = None
        /\ x.looked = 0 /\ x.hit = FALSE /\ x.moved = 0
    OBVIOUS
  <2> HIDE DEF S
  <2>5. /\ k.checked \in Id \cup {None} /\ k.loc \in Id \cup {None} /\ k.cred \in Id \cup {None}
        /\ k.role \in Role \cup {None} /\ k.got \in Session \cup {None}
        /\ k.looked \in 0..MaxTime /\ k.moved \in Nat /\ k.moved = 0
    BY <2>1, <2>4
  <2>a. k.hit \in BOOLEAN
    BY <2>1, <2>4
  <2>6. k \in Call
    BY <2>1, <2>2, <2>3, <2>5, <2>a DEF Call
  <2> QED BY <2>1, <2>5, <2>6
<1> HIDE DEF S
<1> QED BY <1>1, <1>2, <1>3

LEMMA BeginTyped ==
  ASSUME TInv, NEW c \in Client, Begin(c)
  PROVE  TInv'
<1>1. PICK req \in Requests :
        call' = [call EXCEPT ![c] =
                   [Idle EXCEPT !.n = begun + 1, !.req = req, !.stage = FirstStage(req),
                                !.roles = IF req.op \in Vends THEN RolesFor(view, req.url) ELSE {}]]
  BY DEF Begin
<1> DEFINE roles == IF req.op \in Vends THEN RolesFor(view, req.url) ELSE {}
           k == [Idle EXCEPT !.n = begun + 1, !.req = req, !.stage = FirstStage(req), !.roles = roles]
<1>2. begun \in Nat /\ MaxCalls \in Nat /\ begun < MaxCalls /\ MaxTime \in Nat
  BY VendingAssumption DEF Begin, TInv, Settled
<1>3. roles \subseteq Role \cup {None}
  BY RolesForIs, VendingAssumption DEF TInv, Settled
<1>4. req.op \in Vends => req.url \in Url
  BY VendingAssumption
<1>5. FirstStage(req) \in {"check", "locate", "look"} /\ (FirstStage(req) = "look" <=> req.op \notin Vends)
  BY DEF FirstStage, Vends
<1> HIDE DEF roles
<1>6. begun + 1 \in Ordinal /\ MaxTime \in Nat
  BY <1>2 DEF Ordinal
<1>7. k \in Call /\ k.stage = FirstStage(req) /\ k.req = req
  <2>1. roles \in SUBSET (Role \cup {None})
    BY <1>3
  <2>2. k = Started(begun + 1, req, FirstStage(req), roles)
    BY DEF Started
  <2> HIDE DEF k
  <2> QED BY <1>5, <1>6, <2>1, <2>2, IdleWith
<1> HIDE DEF k
<1>8. StageOK(k)
  BY <1>5, <1>7 DEF StageOK
<1>9. met' \in SUBSET SUBSET Ordinal
  <2>1. \A d \in Client : ~At(d, "idle") => call[d].n \in Ordinal
    BY AtBusy DEF Call
  <2>2. begun + 1 \in Ordinal
    BY <1>2 DEF Ordinal
  <2>3. met' = met \cup {{call[d].n, begun + 1} : d \in {e \in Client : ~At(e, "idle")}}
    BY DEF Begin
  <2> QED BY <2>1, <2>2, <2>3 DEF TInv, Settled
<1>10. Settled'
  <2>1. begun' \in 0..MaxCalls
    BY <1>2 DEF Begin
  <2>2. UNCHANGED <<db, view, lag, used, cache, faults, now, skew, epoch>>
    BY DEF Begin, Rows, Vendor
  <2> QED BY <1>9, <2>1, <2>2 DEF TInv, Settled
<1> QED BY <1>1, <1>7, <1>8, <1>10, OneTyped DEF k, Busy, roles

LEMMA OutsideSame == ASSUME Outside, UNCHANGED <<Rows, Vendor>> PROVE Same
BY DEF Outside, Same, Rows, Vendor

LEMMA LookTyped ==
  ASSUME TInv, NEW c \in Client, Look(c)
  PROVE  TInv'
<1> DEFINE req == Req(c)
           loc == Named(Snap(c).locs, req.name)
           cred == Named(Snap(c).creds, IF req.op \in {"newLocation", "moveLocation"} THEN req.cred ELSE req.name)
           k == [call[c] EXCEPT !.stage = "write", !.loc = loc, !.cred = cred]
           missing == \/ req.op \in {"moveLocation", "dropLocation"} /\ loc = None
                      \/ req.op \notin {"newCredential", "dropLocation"} /\ cred = None
<1>1. call[c].stage = "look" /\ Same /\ (IF missing THEN End(c) ELSE call' = [call EXCEPT ![c] = k])
  BY OutsideSame DEF Look, At
<1>2. Busy(call[c]) /\ call[c] \in Call /\ StageOK(call[c])
  BY <1>1, AtBusy DEF At
<1>3. loc \in Id \cup {None} /\ cred \in Id \cup {None}
  BY NamedIs
<1> HIDE DEF loc, cred
<1>4. CASE ~missing
  <2>1. k \in Call
    BY <1>2, <1>3 DEF Call
  <2>2. /\ k.stage = "write" /\ k.loc = loc /\ k.cred = cred /\ k.req = req
        /\ req.op \notin Vends
    BY <1>1, <1>2 DEF Call, StageOK, Req
  <2>a. req.op \in {"moveLocation", "dropLocation"} => loc \in Id
    BY <1>3, <1>4
  <2>b. req.op \notin {"newCredential", "dropLocation"} => cred \in Id
    BY <1>3, <1>4
  <2> HIDE DEF k
  <2>3. StageOK(k)
    BY <2>2, <2>a, <2>b DEF StageOK
  <2> QED BY <1>1, <1>4, <2>1, <2>3, OneTyped, SameSettled DEF Busy, TInv
<1> QED BY <1>1, <1>4, EndTyped

LEMMA CheckLocationTyped ==
  ASSUME TInv, NEW c \in Client, CheckLocation(c)
  PROVE  TInv'
<1> DEFINE loc == FindByPathPrefix(view, Req(c).url)
           k == [call[c] EXCEPT !.stage = "locate", !.checked = loc]
<1>1. call[c].stage = "check" /\ Same
  BY OutsideSame DEF CheckLocation, At
<1>2. call[c] \in Call /\ StageOK(call[c]) /\ (Req(c).op \in Vends => Req(c).url \in Url)
  BY <1>1, AtBusy DEF At
<1>3. Req(c).op \in Vends /\ Req(c).url \in Url
  BY <1>1, <1>2 DEF StageOK, Req
<1>4. CASE loc # None /\ call' = [call EXCEPT ![c] = k]
  <2>1. loc \in Id
    BY <1>3, <1>4, FoundIs DEF TInv, Settled
  <2> HIDE DEF loc
  <2>2. k \in Call
    BY <1>2, <2>1 DEF Call
  <2>3. k.stage = "locate" /\ k.req = Req(c)
    BY <1>2 DEF Call, Req
  <2> HIDE DEF k
  <2>4. StageOK(k)
    BY <1>3, <2>3 DEF StageOK
  <2> QED BY <1>1, <1>4, <2>2, <2>4, OneTyped, SameSettled DEF Busy, TInv
<1>5. End(c) \/ (loc # None /\ call' = [call EXCEPT ![c] = k])
  BY DEF CheckLocation
<1> QED BY <1>1, <1>4, <1>5, EndTyped

LEMMA LocateTyped ==
  ASSUME TInv, NEW c \in Client, Locate(c)
  PROVE  TInv'
<1> DEFINE loc == IF Req(c).op = "delta" THEN None ELSE FindByPathPrefix(view, Req(c).url)
           stage == IF loc = None THEN "cache" ELSE "credential"
           cred == IF loc = None THEN None ELSE view.locs[loc].cred
           k == [call[c] EXCEPT !.stage = stage, !.loc = loc, !.cred = cred]
<1>1. call[c].stage = "locate" /\ Same /\ call' = [call EXCEPT ![c] = k]
  BY OutsideSame DEF Locate, At
<1>2. call[c] \in Call /\ StageOK(call[c]) /\ (Req(c).op \in Vends => Req(c).url \in Url)
  BY <1>1, AtBusy DEF At
<1>3. Req(c).op \in Vends /\ Req(c).url \in Url
  BY <1>1, <1>2 DEF StageOK, Req
<1>4. loc = None \/ (loc \in Id /\ cred \in Id)
  BY <1>3, FoundIs DEF TInv, Settled
<1>5. (stage = "cache" /\ cred = None /\ loc = None) \/ (stage = "credential" /\ loc \in Id /\ cred \in Id)
  BY <1>4, IdIs
<1> HIDE DEF loc, cred, stage
<1>6. k \in Call
  BY <1>2, <1>5 DEF Call
<1>7. k.stage = stage /\ k.req = Req(c) /\ k.loc = loc /\ k.cred = cred
  BY <1>2 DEF Call, Req
<1> HIDE DEF k
<1>8. StageOK(k)
  BY <1>3, <1>5, <1>7 DEF StageOK
<1> QED BY <1>1, <1>6, <1>8, OneTyped, SameSettled DEF Busy, TInv

LEMMA ReadCredentialTyped ==
  ASSUME TInv, NEW c \in Client, ReadCredential(c)
  PROVE  TInv'
<1> DEFINE row == view.creds[call[c].cred]
           k == [call[c] EXCEPT !.stage = "cache", !.role = row.role]
<1>1. call[c].stage = "credential" /\ Same
  BY OutsideSame DEF ReadCredential, At
<1>2. call[c] \in Call /\ StageOK(call[c])
  BY <1>1, AtBusy DEF At
<1>3. Req(c).op \in Vends /\ call[c].cred \in Id
  BY <1>1, <1>2 DEF StageOK, Req
<1>4. CASE row # None /\ call' = [call EXCEPT ![c] = k]
  <2>1. row.role \in Role \cup {None}
    BY <1>3, <1>4 DEF TInv, Settled, Database, Credential
  <2> HIDE DEF row
  <2>2. k \in Call
    BY <1>2, <2>1 DEF Call
  <2>3. k.stage = "cache" /\ k.req = Req(c)
    BY <1>2 DEF Call, Req
  <2> HIDE DEF k
  <2>4. StageOK(k)
    BY <1>3, <2>3 DEF StageOK
  <2> QED BY <1>1, <1>4, <2>2, <2>4, OneTyped, SameSettled DEF Busy, TInv
<1>5. End(c) \/ (row # None /\ call' = [call EXCEPT ![c] = k])
  BY DEF ReadCredential
<1> QED BY <1>1, <1>4, <1>5, EndTyped

LEMMA PutIs ==
  ASSUME NEW d \in Database, NEW i \in Id
  PROVE  /\ \A row \in Credential \cup {None} : PutCredential(d, i, row) \in Database
         /\ \A row \in Location \cup {None} : PutLocation(d, i, row) \in Database
<1>1. PICK creds \in [Id -> Credential \cup {None}], locs \in [Id -> Location \cup {None}] :
        d = [creds |-> creds, locs |-> locs]
  BY DEF Database
<1>2. \A row \in Credential \cup {None} : PutCredential(d, i, row) = [creds |-> [creds EXCEPT ![i] = row], locs |-> locs]
  BY <1>1 DEF PutCredential
<1>3. \A row \in Location \cup {None} : PutLocation(d, i, row) = [creds |-> creds, locs |-> [locs EXCEPT ![i] = row]]
  BY <1>1 DEF PutLocation
<1>4. \A row \in Credential \cup {None} : [creds EXCEPT ![i] = row] \in [Id -> Credential \cup {None}]
  OBVIOUS
<1>5. \A row \in Location \cup {None} : [locs EXCEPT ![i] = row] \in [Id -> Location \cup {None}]
  OBVIOUS
<1> QED BY <1>2, <1>3, <1>4, <1>5 DEF Database

\* A commit writes rows of their types.
LEMMA WrittenIs ==
  ASSUME TInv, NEW c \in Client, At(c, "write"), NEW i \in Id, Written(c, i) # None
  PROVE  Written(c, i) \in Database
<1> DEFINE d == Snap(c)
           req == Req(c)
           loc == call[c].loc
           cred == call[c].cred
<1>1. StageOK(call[c]) /\ req \in Requests /\ req \in Request /\ call[c].stage = "write" /\ call[c].req = req
  BY AtBusy DEF At, Req
<1>2. req.op \notin Vends
  BY <1>1 DEF StageOK
<1>3. /\ req.op \in {"newCredential", "setRole", "dropCredential", "newLocation", "moveLocation", "dropLocation"}
      /\ req.role \in Role \cup {None}
  BY <1>1, <1>2 DEF Request
<1>4. /\ req.op \in {"newCredential", "newLocation"} => req.name \in Name
      /\ req.op \in {"newLocation", "moveLocation"} => req.url \in Url
  BY <1>1, VendingAssumption
<1>5. /\ req.op \in {"moveLocation", "dropLocation"} => loc \in Id
      /\ req.op \notin {"newCredential", "dropLocation"} => cred \in Id
  BY <1>1 DEF StageOK
<1>7. d \in Database
  BY DEF TInv, Settled, Snap
<1> HIDE DEF d, req, loc, cred
<1>8. CASE req.op = "newCredential"
  <2>1. Written(c, i) = PutCredential(d, i, [name |-> req.name, role |-> req.role])
    BY <1>8 DEF Written, d, req
  <2>2. [name |-> req.name, role |-> req.role] \in Credential
    BY <1>3, <1>4, <1>8 DEF Credential
  <2> QED BY <1>7, <1>8, <2>1, <2>2, PutIs
<1>9. CASE req.op = "setRole"
  <2>1. d.creds[cred] # None /\ Written(c, i) = PutCredential(d, cred, [d.creds[cred] EXCEPT !.role = req.role])
    BY <1>9 DEF Written, d, req, cred
  <2>2. ASSUME d.creds[cred] # None PROVE [d.creds[cred] EXCEPT !.role = req.role] \in Credential
    <3>1. d.creds[cred] \in Credential
      BY <1>5, <1>7, <1>9, <2>2 DEF Database
    <3> QED BY <1>3, <3>1 DEF Credential
  <2> QED BY <1>5, <1>7, <1>9, <2>1, <2>2, PutIs
<1>10. CASE req.op = "dropCredential"
  <2>1. Named(d.creds, req.name) # None /\ Written(c, i) = PutCredential(d, Named(d.creds, req.name), None)
    BY <1>10 DEF Written, d, req
  <2> QED BY <1>7, <2>1, NamedIs, PutIs
<1>11. CASE req.op = "newLocation"
  <2>1. Written(c, i) = PutLocation(d, i, [name |-> req.name, url |-> req.url, cred |-> cred])
    BY <1>11 DEF Written, d, req, cred
  <2>2. [name |-> req.name, url |-> req.url, cred |-> cred] \in Location
    BY <1>4, <1>5, <1>11 DEF Location
  <2> QED BY <1>7, <1>11, <2>1, <2>2, PutIs
<1>12. CASE req.op = "moveLocation"
  <2>1. d.locs[loc] # None /\ Written(c, i) = PutLocation(d, loc, [d.locs[loc] EXCEPT !.url = req.url, !.cred = cred])
    BY <1>12 DEF Written, d, req, cred, loc
  <2>2. ASSUME d.locs[loc] # None PROVE [d.locs[loc] EXCEPT !.url = req.url, !.cred = cred] \in Location
    <3>1. d.locs[loc] \in Location
      BY <1>5, <1>7, <1>12, <2>2 DEF Database
    <3> QED BY <1>4, <1>5, <1>12, <3>1 DEF Location
  <2> QED BY <1>5, <1>7, <1>12, <2>1, <2>2, PutIs
<1>13. CASE req.op = "dropLocation"
  <2>1. Named(d.locs, req.name) # None /\ Written(c, i) = PutLocation(d, Named(d.locs, req.name), None)
    BY <1>13 DEF Written, d, req
  <2> QED BY <1>7, <2>1, NamedIs, PutIs
<1> QED BY <1>3, <1>8, <1>9, <1>10, <1>11, <1>12, <1>13

LEMMA RoleChoice ==
  ASSUME NEW d \in Database, NEW req \in Requests
  PROVE  (IF req.op \in Vends THEN RolesFor(d, req.url) ELSE {}) \subseteq Role \cup {None}
BY RolesForIs, VendingAssumption

\* What becomes of the other requests when rows change.
Noted(k, d, n) ==
  [k EXCEPT !.moved = @ + n, !.roles = @ \cup IF k.req.op \in Vends THEN RolesFor(d, k.req.url) ELSE {}]

LEMMA NotedIs ==
  ASSUME NEW d \in Database, NEW k \in Call, NEW n \in Nat
  PROVE  /\ Noted(k, d, n) \in Call
         /\ Noted(k, d, n).moved = k.moved + n
         /\ Noted(k, d, n).roles = k.roles \cup IF k.req.op \in Vends THEN RolesFor(d, k.req.url) ELSE {}
         /\ Noted(k, d, n).n = k.n /\ Noted(k, d, n).req = k.req /\ Noted(k, d, n).stage = k.stage
         /\ Noted(k, d, n).checked = k.checked /\ Noted(k, d, n).loc = k.loc /\ Noted(k, d, n).cred = k.cred
         /\ Noted(k, d, n).role = k.role /\ Noted(k, d, n).got = k.got /\ Noted(k, d, n).looked = k.looked
<1> DEFINE new == IF k.req.op \in Vends THEN RolesFor(d, k.req.url) ELSE {}
<1>1. new \subseteq Role \cup {None}
  BY RoleChoice DEF Call
<1>2. Noted(k, d, n) = [k EXCEPT !.moved = k.moved + n, !.roles = k.roles \cup new]
  BY DEF Noted, Call
<1> HIDE DEF new
<1>3. Noted(k, d, n) \in Call
  <2>1. k.moved + n \in Nat /\ k.roles \cup new \in SUBSET (Role \cup {None})
    BY <1>1 DEF Call
  <2> DEFINE moved == k.moved + n
             roles == k.roles \cup new
  <2> HIDE DEF moved, roles
  <2>2. [k EXCEPT !.moved = moved] \in Call
    BY <2>1 DEF Call, moved
  <2>3. \A l \in Call : [l EXCEPT !.roles = roles] \in Call
    BY <2>1 DEF Call, roles
  <2> QED BY <1>2, <2>2, <2>3 DEF moved, roles
<1> QED BY <1>2, <1>3 DEF Call, new

LEMMA SeeChangeIs ==
  ASSUME TInv, NEW over, NEW d, NEW n, SeeChange(over, d, n), NEW e \in Client
  PROVE  call'[e] = Idle \/ (e \notin over /\ ~At(e, "idle") /\ call'[e] = Noted(call[e], d, n))
BY DEF SeeChange, Noted, Req

LEMMA SeeChangeTyped ==
  ASSUME TInv, NEW over, NEW d \in Database, NEW n \in Nat, SeeChange(over, d, n), Settled'
  PROVE  TInv'
<1>1. \A e \in Client : call'[e] = Idle \/ Busy(call'[e])
  <2> SUFFICES ASSUME NEW e \in Client, call'[e] # Idle
               PROVE  Busy(call'[e])
    OBVIOUS
  <2>1. ~At(e, "idle") /\ call'[e] = Noted(call[e], d, n)
    BY SeeChangeIs
  <2>2. call[e] \in Call /\ StageOK(call[e])
    BY <2>1, AtBusy
  <2>3. Noted(call[e], d, n) \in Call
    BY <2>2, NotedIs
  <2>4. StageOK(Noted(call[e], d, n))
    BY <2>2, NotedIs DEF StageOK
  <2> QED BY <2>1, <2>3, <2>4 DEF Busy
<1>2. Shape'
  <2>1. call' = [e \in Client |-> call'[e]]
    BY DEF SeeChange
  <2>2. \A e \in Client : DOMAIN call'[e] = DOMAIN Idle
    BY <1>1 DEF Busy, Call, Idle
  <2> QED BY <2>1, <2>2 DEF Shape
<1> QED BY <1>1, <1>2 DEF TInv, Busy, StageOK

LEMMA RefuseTyped ==
  ASSUME TInv, NEW c \in Client, Refuse(c)
  PROVE  TInv'
BY EndTyped, OutsideSame DEF Refuse

LEMMA WriteTyped ==
  ASSUME TInv, NEW c \in Client, Write(c)
  PROVE  TInv'
<1>1. PICK i \in Id :
        /\ Written(c, i) # None
        /\ used' = IF Req(c).op \in {"newCredential", "newLocation"} THEN used \cup {i} ELSE used
        /\ db' = Written(c, i)
        /\ \/ lag' = lag + 1 /\ End(c) /\ UNCHANGED view
           \/ view' = Written(c, i) /\ SeeChange({c}, Written(c, i), 1) /\ UNCHANGED lag
  BY DEF Write
<1>2. At(c, "write") /\ UNCHANGED <<begun, faults, cache, now, skew, epoch, met>>
  BY DEF Write, Vendor, Outside
<1>3. Written(c, i) \in Database
  BY <1>1, <1>2, WrittenIs
<1>4. used' \subseteq Id
  BY <1>1 DEF TInv, Settled
<1>5. lag' \in Nat /\ view' \in Database
  BY <1>1, <1>3 DEF TInv, Settled
<1>6. Settled'
  BY <1>1, <1>2, <1>3, <1>4, <1>5 DEF TInv, Settled
<1>7. CASE End(c)
  BY <1>6, <1>7, OneTyped DEF End
<1>8. CASE SeeChange({c}, Written(c, i), 1)
  BY <1>3, <1>6, <1>8, SeeChangeTyped
<1> QED BY <1>1, <1>7, <1>8

LEMMA CatchUpTyped ==
  ASSUME TInv, CatchUp
  PROVE  TInv'
<1>1. db \in Database /\ lag \in Nat /\ SeeChange({}, db, lag)
  BY DEF CatchUp, TInv, Settled
<1>2. Settled'
  BY DEF CatchUp, TInv, Settled, Vendor, Outside
<1> QED BY <1>1, <1>2, SeeChangeTyped

\* Time does not run backwards or out of its bounds.
LEMMA TimeIs ==
  ASSUME TInv
  PROVE  now \in 0..MaxTime /\ now \in Nat /\ skew \in Int /\ MaxTime \in Nat /\ Buffer \in Nat /\ Default \in Nat
BY VendingAssumption DEF TInv, Settled

LEMMA LookInCacheTyped ==
  ASSUME TInv, NEW c \in Client, LookInCache(c)
  PROVE  TInv'
<1>1. call[c].stage = "cache" /\ Same
  BY OutsideSame DEF LookInCache, At
<1>2. call[c] \in Call /\ StageOK(call[c])
  BY <1>1, AtBusy DEF At
<1>3. Req(c).op \in Vends /\ call[c].req = Req(c)
  BY <1>1, <1>2 DEF StageOK, Req
<1>4. Settled'
  BY <1>1, SameSettled DEF TInv
<1>5. ASSUME NEW e \in Fresh(CacheKey(c)),
             call' = [call EXCEPT ![c].stage = "answer", ![c].got = e.session, ![c].looked = now, ![c].hit = TRUE]
      PROVE  TInv'
  <2> DEFINE k == [call[c] EXCEPT !.stage = "answer", !.got = e.session, !.looked = now, !.hit = TRUE]
  <2>1. call' = [call EXCEPT ![c] = k]
    BY <1>5
  <2>2. e \in cache /\ e.session \in Session /\ e.key \in Key /\ e.key = <<call[c].role, Req(c).url, Req(c).mode>>
    BY DEF Fresh, CacheKey, TInv, Settled
  <2>3. call[c].role \in Role
    BY <2>2 DEF Key
  <2>4. k \in Call
    BY <1>2, <2>2, TimeIs DEF Call
  <2>5. k.stage = "answer" /\ k.got = e.session /\ k.role = call[c].role /\ k.req = Req(c)
    BY <1>2, <1>3 DEF Call
  <2> HIDE DEF k
  <2>6. StageOK(k)
    BY <1>3, <2>2, <2>3, <2>5 DEF StageOK
  <2> QED BY <1>4, <2>1, <2>4, <2>6, OneTyped DEF Busy
<1>6. CASE call[c].role # None /\ call' = [call EXCEPT ![c].stage = "sts", ![c].looked = now]
  <2> DEFINE k == [call[c] EXCEPT !.stage = "sts", !.looked = now]
  <2>1. call' = [call EXCEPT ![c] = k]
    BY <1>6
  <2>2. k \in Call
    BY <1>2, TimeIs DEF Call
  <2>3. k.stage = "sts" /\ k.role = call[c].role /\ k.req = Req(c) /\ call[c].role \in Role
    BY <1>2, <1>3, <1>6 DEF Call
  <2> HIDE DEF k
  <2>4. StageOK(k)
    BY <1>3, <2>3 DEF StageOK
  <2> QED BY <1>4, <2>1, <2>2, <2>4, OneTyped DEF Busy
<1>7. CASE End(c)
  BY <1>1, <1>7, EndTyped
<1> QED BY <1>5, <1>6, <1>7 DEF LookInCache

LEMMA AssumeRoleTyped ==
  ASSUME TInv, NEW c \in Client, AssumeRole(c)
  PROVE  TInv'
<1>1. call[c].stage = "sts" /\ Same
  BY OutsideSame DEF AssumeRole, At
<1>2. call[c] \in Call /\ StageOK(call[c]) /\ (Req(c).op \in Vends => Req(c).url \in Url /\ Req(c).mode \in Op)
  BY <1>1, AtBusy DEF At
<1>3. Req(c).op \in Vends /\ call[c].req = Req(c) /\ call[c].role \in Role
  BY <1>1, <1>2 DEF StageOK, Req
<1>4. Settled'
  BY <1>1, SameSettled DEF TInv
<1>5. ASSUME NEW life \in Lives,
             call' = [call EXCEPT ![c].stage = "insert",
                                  ![c].got = [role |-> call[c].role, url |-> Req(c).url, mode |-> Req(c).mode,
                                              expires |-> now + life, kept |-> FALSE]]
      PROVE  TInv'
  <2> DEFINE got == [role |-> call[c].role, url |-> Req(c).url, mode |-> Req(c).mode,
                     expires |-> now + life, kept |-> FALSE]
             k == [call[c] EXCEPT !.stage = "insert", !.got = got]
  <2>1. call' = [call EXCEPT ![c] = k]
    BY <1>5
  <2>2. now + life \in Nat
    BY TimeIs, VendingAssumption
  <2>3. got \in Session
    BY <1>2, <1>3, <2>2 DEF Session
  <2> HIDE DEF got
  <2>4. k \in Call
    BY <1>2, <2>3 DEF Call
  <2>5. k.stage = "insert" /\ k.got = got /\ k.role = call[c].role /\ k.req = Req(c)
    BY <1>2, <1>3 DEF Call
  <2> HIDE DEF k
  <2>6. StageOK(k)
    BY <1>3, <2>3, <2>5 DEF StageOK
  <2> QED BY <1>4, <2>1, <2>4, <2>6, OneTyped DEF Busy
<1>6. CASE End(c)
  BY <1>1, <1>6, EndTyped
<1> QED BY <1>5, <1>6 DEF AssumeRole

\* How long an entry is used is never negative.
LEMMA TtlIs ==
  ASSUME TInv, NEW session, session.expires \in Nat
  PROVE  Ttl(session) \in Nat
<1>1. Remaining(session) \in Int
  BY TimeIs DEF Remaining
<1>2. CASE NearExpiry(session)
  BY <1>2, TimeIs DEF Ttl
<1>3. CASE ~NearExpiry(session)
  <2>1. Remaining(session) > Buffer /\ Ttl(session) = Remaining(session) - Buffer
    BY <1>1, <1>3, TimeIs DEF Ttl, NearExpiry
  <2> QED BY <1>1, <2>1, TimeIs
<1> QED BY <1>2, <1>3

LEMMA InsertTyped ==
  ASSUME TInv, NEW c \in Client, Insert(c)
  PROVE  TInv'
<1> DEFINE session == [call[c].got EXCEPT !.kept = NearExpiry(call[c].got)]
           until == now + Ttl(session)
           entry == [key |-> CacheKey(c), session |-> session, until |-> until]
           k == [call[c] EXCEPT !.stage = "answer", !.got = session]
<1>1. /\ cache' = {e \in cache : e.key # CacheKey(c)} \cup {entry}
      /\ call' = [call EXCEPT ![c] = k]
      /\ call[c].stage = "insert" /\ UNCHANGED <<db, view, lag, used, begun, faults, now, skew, epoch, met>>
  BY DEF Insert, At, Outside, Rows
<1>2. call[c] \in Call /\ StageOK(call[c]) /\ (Req(c).op \in Vends => Req(c).url \in Url /\ Req(c).mode \in Op)
  BY <1>1, AtBusy DEF At
<1>3. Req(c).op \in Vends /\ call[c].req = Req(c) /\ call[c].role \in Role /\ call[c].got \in Session
  BY <1>1, <1>2 DEF StageOK, Req
<1>4. session \in Session
  <2>1. NearExpiry(call[c].got) \in BOOLEAN
    BY DEF NearExpiry
  <2> QED BY <1>3, <2>1 DEF Session
<1>5. until \in Nat
  <2>1. session.expires \in Nat
    BY <1>4 DEF Session
  <2> HIDE DEF session
  <2> QED BY <2>1, TtlIs, TimeIs
<1> HIDE DEF session, until
<1>6. CacheKey(c) \in Key
  BY <1>2, <1>3 DEF CacheKey, Key
<1>7. Settled'
  <2>1. entry.key \in Key /\ entry.session \in Session /\ entry.until \in Nat
    BY <1>4, <1>5, <1>6
  <2> HIDE DEF entry
  <2> QED BY <1>1, <2>1 DEF TInv, Settled
<1>8. k \in Call
  BY <1>2, <1>4 DEF Call
<1>9. k.stage = "answer" /\ k.got = session /\ k.role = call[c].role /\ k.req = Req(c)
  BY <1>2, <1>3 DEF Call
<1> HIDE DEF k
<1>10. StageOK(k)
  BY <1>3, <1>4, <1>9 DEF StageOK
<1> QED BY <1>1, <1>7, <1>8, <1>10, OneTyped DEF Busy

LEMMA TickTyped ==
  ASSUME TInv, Tick
  PROVE  TInv'
<1>1. now' \in 0..MaxTime
  BY TimeIs DEF Tick
<1>2. Settled'
  BY <1>1 DEF TInv, Settled, Tick, Rows, Vendor
<1> QED BY <1>2 DEF TInv, Tick, Shape, Busy, StageOK

LEMMA RestartTyped ==
  ASSUME TInv, Restart
  PROVE  TInv'
<1>1. MaxFaults \in Nat /\ faults' \in 0..MaxFaults /\ epoch' = faults'
  BY VendingAssumption DEF Restart, TInv, Settled
<1>2. Settled'
  BY <1>1 DEF TInv, Settled, Restart
<1>3. \A c \in Client : call'[c] = Idle \/ call'[c] = call[c]
  BY DEF Restart
<1>4. Shape'
  BY <1>3 DEF TInv, Restart, Shape
<1> QED BY <1>2, <1>3, <1>4 DEF TInv, Busy, StageOK

LEMMA NextTyped == TInv /\ [Next]_vars => TInv'
<1> SUFFICES ASSUME TInv, [Next]_vars
             PROVE  TInv'
  OBVIOUS
<1>1. ASSUME NEW c \in Client, Begin(c) \/ Look(c) \/ Refuse(c) \/ Write(c) \/ Vend(c)
      PROVE  TInv'
  <2>1. CASE Answer(c)
    BY <2>1, EndTyped, OutsideSame DEF Answer
  <2> QED BY <1>1, <2>1, BeginTyped, LookTyped, RefuseTyped, WriteTyped, CheckLocationTyped, LocateTyped,
             ReadCredentialTyped, LookInCacheTyped, AssumeRoleTyped, InsertTyped DEF Vend
<1>2. CASE UNCHANGED vars
  BY <1>2 DEF vars, TInv, Settled, Shape, Busy, StageOK
<1> QED BY <1>1, <1>2, CatchUpTyped, TickTyped, RestartTyped DEF Next

LEMMA Typed == Spec => []TInv
<1> QED BY InitTypes, NextTyped, PTL DEF Spec

\* The rows, the requests and the cache have their types; nothing is cached, or
\* asked of STS, without a role (vend, make_cache_key).
THEOREM TypesHold == Spec => []TypeOK
<1> QED BY TInvTypes, Typed, PTL

-----------------------------------------------------------------------------
(* The role                                                                *)

\* What a request remembers of the snapshot's rows.  Its location and its credential are
\* those of now for as long as no row has changed; after one change the
\* credential still gives a role that was configured at some time.
RolesKnown(d, k) ==
  LET loc == FindByPathPrefix(d, k.req.url)
  IN /\ RolesFor(d, k.req.url) \subseteq k.roles
     /\ k.stage \in {"check", "locate", "credential"} => k.role = None
     /\ k.stage = "credential" /\ k.moved = 0 => k.loc = loc /\ k.cred = d.locs[k.loc].cred
     /\ k.stage = "credential" /\ k.moved = 1 => d.creds[k.cred] = None \/ d.creds[k.cred].role \in k.roles
     /\ k.stage \in {"cache", "sts", "insert", "answer"} /\ k.role # None => k.role \in k.roles \/ k.moved >= 2
     /\ k.req.op = "path" /\ k.stage # "check" /\ k.moved = 0 => k.checked = loc
     /\ k.req.op = "path" /\ k.stage \in {"credential", "cache", "sts", "insert", "answer"} /\ k.moved = 0 =>
          k.loc = k.checked

Knows(d, k) == k = Idle \/ k.req.op \notin Vends \/ RolesKnown(d, k)

\* The snapshot is the log's when it is not behind, and but for one commit when
\* it is one behind.
Behind ==
  /\ lag = 0 => view = db
  /\ lag = 1 => view.creds = db.creds \/ view.locs = db.locs

RInv == Behind /\ \A c \in Client : Knows(view, call[c])

LEMMA OneKnows ==
  ASSUME TInv, RInv, NEW c \in Client, NEW k, Knows(view, k),
         call' = [call EXCEPT ![c] = k], UNCHANGED <<db, view, lag>>
  PROVE  RInv'
<1>1. \A d \in Client : call'[d] = k \/ call'[d] = call[d]
  BY DEF TInv, Shape
<1>2. \A d \in Client : Knows(view', call'[d])
  BY <1>1 DEF RInv
<1> QED BY <1>2 DEF RInv, Behind

LEMMA EndKnows ==
  ASSUME TInv, RInv, NEW c \in Client, End(c), UNCHANGED <<db, view, lag>>
  PROVE  RInv'
BY OneKnows DEF End, Knows

\* What a request at work knows, taken apart.
LEMMA AtKnows ==
  ASSUME TInv, RInv, NEW c \in Client, ~At(c, "idle"), Req(c).op \in Vends
  PROVE  RolesKnown(view, call[c]) /\ call[c] \in Call /\ StageOK(call[c]) /\ Req(c).url \in Url /\ call[c].moved \in Nat
<1>1. call[c] # Idle
  BY DEF At, Idle
<1>2. RolesKnown(view, call[c])
  BY <1>1 DEF RInv, Knows, Req
<1>3. call[c] \in Call /\ StageOK(call[c]) /\ Req(c).url \in Url
  BY AtBusy
<1> QED BY <1>2, <1>3 DEF Call

LEMMA BeginKnows ==
  ASSUME TInv, RInv, NEW c \in Client, Begin(c)
  PROVE  RInv'
<1>1. PICK req \in Requests :
        call' = [call EXCEPT ![c] =
                   [Idle EXCEPT !.n = begun + 1, !.req = req, !.stage = FirstStage(req),
                                !.roles = IF req.op \in Vends THEN RolesFor(view, req.url) ELSE {}]]
  BY DEF Begin
<1> DEFINE roles == IF req.op \in Vends THEN RolesFor(view, req.url) ELSE {}
           k == [Idle EXCEPT !.n = begun + 1, !.req = req, !.stage = FirstStage(req), !.roles = roles]
<1>2. k.req = req /\ k.stage = FirstStage(req) /\ k.roles = roles /\ k.role = None
  BY DEF Idle
<1>3. FirstStage(req) \in {"check", "locate", "look"} /\ (req.op = "path" => FirstStage(req) = "check")
  BY DEF FirstStage
<1>4. call' = [call EXCEPT ![c] = k] /\ UNCHANGED <<db, view, lag>>
  BY <1>1 DEF Begin, Rows
<1> HIDE DEF k
<1>5. Knows(view, k)
  BY <1>2, <1>3 DEF Knows, RolesKnown
<1> QED BY <1>4, <1>5, OneKnows

LEMMA LookKnows ==
  ASSUME TInv, RInv, NEW c \in Client, Look(c)
  PROVE  RInv'
<1> DEFINE req == Req(c)
           loc == Named(Snap(c).locs, req.name)
           cred == Named(Snap(c).creds, IF req.op \in {"newLocation", "moveLocation"} THEN req.cred ELSE req.name)
           k == [call[c] EXCEPT !.stage = "write", !.loc = loc, !.cred = cred]
<1>1. call[c].stage = "look" /\ UNCHANGED <<db, view, lag>> /\ (End(c) \/ call' = [call EXCEPT ![c] = k])
  BY DEF Look, At, Rows
<1>2. call[c] \in Call /\ req.op \notin Vends
  BY <1>1, AtBusy DEF At, StageOK, Req
<1>3. k.req = req
  BY <1>2 DEF Call, Req
<1> HIDE DEF k
<1>4. Knows(view, k)
  BY <1>2, <1>3 DEF Knows
<1> QED BY <1>1, <1>4, OneKnows, EndKnows

LEMMA CheckLocationKnows ==
  ASSUME TInv, RInv, NEW c \in Client, CheckLocation(c)
  PROVE  RInv'
<1> DEFINE k == [call[c] EXCEPT !.stage = "locate", !.checked = FindByPathPrefix(view, Req(c).url)]
<1>1. call[c].stage = "check" /\ UNCHANGED <<db, view, lag>> /\ (End(c) \/ call' = [call EXCEPT ![c] = k])
  BY DEF CheckLocation, At, Rows
<1>2. call[c] \in Call /\ Req(c).op \in Vends
  BY <1>1, AtBusy DEF At, StageOK, Req
<1>3. RolesKnown(view, call[c])
  BY <1>1, <1>2, AtKnows DEF At
<1>4. /\ k.req = call[c].req /\ k.roles = call[c].roles /\ k.role = call[c].role /\ k.stage = "locate"
      /\ k.checked = FindByPathPrefix(view, call[c].req.url)
  BY <1>2 DEF Call, Req
<1> HIDE DEF k
<1>5. Knows(view, k)
  BY <1>1, <1>3, <1>4 DEF Knows, RolesKnown
<1> QED BY <1>1, <1>5, OneKnows, EndKnows

LEMMA LocateKnows ==
  ASSUME TInv, RInv, NEW c \in Client, Locate(c)
  PROVE  RInv'
<1> DEFINE loc == IF Req(c).op = "delta" THEN None ELSE FindByPathPrefix(view, Req(c).url)
           stage == IF loc = None THEN "cache" ELSE "credential"
           cred == IF loc = None THEN None ELSE view.locs[loc].cred
           k == [call[c] EXCEPT !.stage = stage, !.loc = loc, !.cred = cred]
<1>1. call[c].stage = "locate" /\ UNCHANGED <<db, view, lag>> /\ call' = [call EXCEPT ![c] = k]
  BY DEF Locate, At, Rows
<1>2. call[c] \in Call /\ Req(c).op \in Vends
  BY <1>1, AtBusy DEF At, StageOK, Req
<1>3. RolesKnown(view, call[c]) /\ Req(c).url \in Url /\ call[c].moved \in Nat
  BY <1>1, <1>2, AtKnows DEF At
<1>4. /\ k.req = call[c].req /\ k.roles = call[c].roles /\ k.role = call[c].role /\ k.stage = stage
      /\ k.loc = loc /\ k.cred = cred /\ k.moved = call[c].moved /\ k.checked = call[c].checked
  BY <1>2 DEF Call
<1>5. Req(c) = call[c].req /\ k.role = None /\ RolesFor(view, k.req.url) \subseteq k.roles
  BY <1>1, <1>3, <1>4 DEF RolesKnown, Req
<1>6. k.req.op = "path" /\ k.moved = 0 => k.loc = FindByPathPrefix(view, k.req.url) /\ k.checked = FindByPathPrefix(view, k.req.url)
  BY <1>1, <1>3, <1>4, <1>5 DEF RolesKnown
<1>7. ASSUME stage = "credential"
      PROVE  /\ k.loc = FindByPathPrefix(view, k.req.url) /\ k.cred = view.locs[k.loc].cred
             /\ view.creds[k.cred] = None \/ view.creds[k.cred].role \in k.roles
  <2>1. loc # None /\ loc = FindByPathPrefix(view, k.req.url) /\ cred = view.locs[loc].cred
    BY <1>4, <1>5, <1>7
  <2>2. view.creds[cred] # None => view.creds[cred].role \in RolesFor(view, k.req.url)
    BY <2>1 DEF RolesFor
  <2> QED BY <1>4, <1>5, <2>1, <2>2
<1>8. stage \in {"cache", "credential"}
  OBVIOUS
<1> HIDE DEF k, loc, stage, cred
<1>9. RolesKnown(view, k)
  BY <1>4, <1>5, <1>6, <1>7, <1>8 DEF RolesKnown
<1> QED BY <1>1, <1>9, OneKnows DEF Knows

LEMMA ReadCredentialKnows ==
  ASSUME TInv, RInv, NEW c \in Client, ReadCredential(c)
  PROVE  RInv'
<1> DEFINE row == view.creds[call[c].cred]
           k == [call[c] EXCEPT !.stage = "cache", !.role = row.role]
<1>1. call[c].stage = "credential" /\ UNCHANGED <<db, view, lag>>
  BY DEF ReadCredential, At, Rows
<1>2. call[c] \in Call /\ Req(c).op \in Vends /\ call[c].loc \in Id
  BY <1>1, AtBusy DEF At, StageOK, Req
<1>3. RolesKnown(view, call[c]) /\ call[c].moved \in Nat
  BY <1>1, <1>2, AtKnows DEF At
<1>4. CASE row # None /\ call' = [call EXCEPT ![c] = k]
  <2>1. /\ k.req = call[c].req /\ k.roles = call[c].roles /\ k.role = row.role /\ k.stage = "cache"
        /\ k.moved = call[c].moved /\ k.checked = call[c].checked /\ k.loc = call[c].loc
    BY <1>2 DEF Call
  <2>2. ASSUME call[c].moved = 0
        PROVE  row.role \in call[c].roles
    <3>1. call[c].loc = FindByPathPrefix(view, call[c].req.url) /\ call[c].cred = view.locs[call[c].loc].cred
      BY <1>1, <1>3, <2>2 DEF RolesKnown
    <3>2. call[c].loc # None
      BY <1>2, IdIs
    <3>3. RolesFor(view, call[c].req.url) = {row.role}
      BY <1>4, <3>1, <3>2 DEF RolesFor
    <3> QED BY <1>3, <3>3 DEF RolesKnown
  <2>3. call[c].moved = 1 => row.role \in call[c].roles
    BY <1>1, <1>3, <1>4 DEF RolesKnown
  <2>4. row.role \in call[c].roles \/ call[c].moved >= 2
    BY <1>3, <2>2, <2>3
  <2> HIDE DEF k, row
  <2>5. RolesKnown(view, k)
    BY <1>1, <1>3, <2>1, <2>4 DEF RolesKnown
  <2> QED BY <1>1, <1>4, <2>5, OneKnows DEF Knows
<1>5. End(c) \/ (row # None /\ call' = [call EXCEPT ![c] = k])
  BY DEF ReadCredential
<1> QED BY <1>1, <1>4, <1>5, EndKnows

\* The later steps leave what the request has learned of the rows.
LEMMA LaterKnows ==
  ASSUME TInv, RInv, NEW c \in Client, call[c].stage \in {"cache", "sts", "insert"}, UNCHANGED <<db, view, lag>>,
         NEW k, call' = [call EXCEPT ![c] = k],
         k.stage \in {"sts", "insert", "answer"},
         k.req = call[c].req /\ k.roles = call[c].roles /\ k.role = call[c].role /\ k.moved = call[c].moved,
         k.checked = call[c].checked /\ k.loc = call[c].loc
  PROVE  RInv'
<1>1. Req(c).op \in Vends
  BY AtBusy DEF At, StageOK, Req
<1>2. RolesKnown(view, call[c])
  BY <1>1, AtKnows DEF At
<1>3. RolesKnown(view, k)
  BY <1>2 DEF RolesKnown
<1> QED BY <1>3, OneKnows DEF Knows

LEMMA LookInCacheKnows ==
  ASSUME TInv, RInv, NEW c \in Client, LookInCache(c)
  PROVE  RInv'
<1>1. call[c].stage = "cache" /\ UNCHANGED <<db, view, lag>>
  BY DEF LookInCache, At, Rows
<1>2. call[c] \in Call
  BY <1>1, AtBusy DEF At
<1>3. ASSUME NEW e \in Fresh(CacheKey(c)),
             call' = [call EXCEPT ![c].stage = "answer", ![c].got = e.session, ![c].looked = now, ![c].hit = TRUE]
      PROVE  RInv'
  <2> DEFINE k == [call[c] EXCEPT !.stage = "answer", !.got = e.session, !.looked = now, !.hit = TRUE]
  <2>1. /\ k.stage = "answer"
        /\ k.req = call[c].req /\ k.roles = call[c].roles /\ k.role = call[c].role /\ k.moved = call[c].moved
        /\ k.checked = call[c].checked /\ k.loc = call[c].loc
    BY <1>2 DEF Call
  <2>2. call' = [call EXCEPT ![c] = k]
    BY <1>3
  <2> HIDE DEF k
  <2> QED BY <1>1, <2>1, <2>2, LaterKnows
<1>4. CASE call' = [call EXCEPT ![c].stage = "sts", ![c].looked = now]
  <2> DEFINE k == [call[c] EXCEPT !.stage = "sts", !.looked = now]
  <2>1. /\ k.stage = "sts"
        /\ k.req = call[c].req /\ k.roles = call[c].roles /\ k.role = call[c].role /\ k.moved = call[c].moved
        /\ k.checked = call[c].checked /\ k.loc = call[c].loc
    BY <1>2 DEF Call
  <2>2. call' = [call EXCEPT ![c] = k]
    BY <1>4
  <2> HIDE DEF k
  <2> QED BY <1>1, <2>1, <2>2, LaterKnows
<1> QED BY <1>1, <1>3, <1>4, EndKnows DEF LookInCache

LEMMA AssumeRoleKnows ==
  ASSUME TInv, RInv, NEW c \in Client, AssumeRole(c)
  PROVE  RInv'
<1>1. call[c].stage = "sts" /\ UNCHANGED <<db, view, lag>>
  BY DEF AssumeRole, At, Rows
<1>2. call[c] \in Call
  BY <1>1, AtBusy DEF At
<1>3. ASSUME NEW got, call' = [call EXCEPT ![c].stage = "insert", ![c].got = got]
      PROVE  RInv'
  <2> DEFINE k == [call[c] EXCEPT !.stage = "insert", !.got = got]
  <2>1. /\ k.stage = "insert"
        /\ k.req = call[c].req /\ k.roles = call[c].roles /\ k.role = call[c].role /\ k.moved = call[c].moved
        /\ k.checked = call[c].checked /\ k.loc = call[c].loc
    BY <1>2 DEF Call
  <2>2. call' = [call EXCEPT ![c] = k]
    BY <1>3
  <2> HIDE DEF k
  <2> QED BY <1>1, <2>1, <2>2, LaterKnows
<1> QED BY <1>1, <1>3, EndKnows DEF AssumeRole

LEMMA InsertKnows ==
  ASSUME TInv, RInv, NEW c \in Client, Insert(c)
  PROVE  RInv'
<1> DEFINE session == [call[c].got EXCEPT !.kept = NearExpiry(call[c].got)]
           k == [call[c] EXCEPT !.stage = "answer", !.got = session]
<1>1. call[c].stage = "insert" /\ UNCHANGED <<db, view, lag>> /\ call' = [call EXCEPT ![c] = k]
  BY DEF Insert, At, Rows
<1>2. call[c] \in Call
  BY <1>1, AtBusy DEF At
<1> HIDE DEF session
<1>3. /\ k.stage = "answer"
      /\ k.req = call[c].req /\ k.roles = call[c].roles /\ k.role = call[c].role /\ k.moved = call[c].moved
      /\ k.checked = call[c].checked /\ k.loc = call[c].loc
  BY <1>2 DEF Call
<1> HIDE DEF k
<1> QED BY <1>1, <1>3, LaterKnows

\* One commit changes credentials or locations, not both.
LEMMA WrittenOne ==
  ASSUME TInv, NEW c \in Client, At(c, "write"), NEW i \in Id, Written(c, i) # None
  PROVE  Written(c, i).creds = Snap(c).creds \/ Written(c, i).locs = Snap(c).locs
<1> DEFINE d == Snap(c)
<1>1. d = [creds |-> d.creds, locs |-> d.locs]
  BY DEF TInv, Settled, Database, Snap
<1> HIDE DEF d
<1>2. \A j, row : PutCredential(d, j, row).locs = d.locs /\ PutLocation(d, j, row).creds = d.creds
  BY <1>1 DEF PutCredential, PutLocation
<1>3. call[c].stage = "write" /\ Req(c) \in Request /\ Req(c).op \notin Vends
  BY AtBusy DEF At, StageOK, Req
<1>4. Req(c).op \in {"newCredential", "setRole", "dropCredential", "newLocation", "moveLocation", "dropLocation"}
  BY <1>3 DEF Request
<1> QED BY <1>2, <1>4 DEF Written, d

\* A change under a request: its location and credential may be those of
\* before, but then the credential's row is, or the location is of now.
LEMMA NotedKnows ==
  ASSUME TInv, NEW b \in Database, NEW d \in Database, NEW n \in Nat, n >= 1,
         n = 1 => d.creds = b.creds \/ d.locs = b.locs,
         NEW k \in Call, StageOK(k), k.req.op \in Vends, RolesKnown(b, k)
  PROVE  RolesKnown(d, Noted(k, d, n))
<1> DEFINE l == Noted(k, d, n)
<1>2. /\ l.moved = k.moved + n /\ l.roles = k.roles \cup RolesFor(d, k.req.url)
      /\ l.req = k.req /\ l.stage = k.stage /\ l.cred = k.cred /\ l.role = k.role /\ l.loc = k.loc
  BY NotedIs
<1>3. k.moved \in Nat
  BY DEF Call
<1>4. ASSUME k.stage = "credential", l.moved = 1
      PROVE  d.creds[k.cred] = None \/ d.creds[k.cred].role \in l.roles
  <2>1. k.moved = 0 /\ n = 1
    BY <1>2, <1>3, <1>4
  <2>2. k.loc = FindByPathPrefix(b, k.req.url) /\ k.cred = b.locs[k.loc].cred /\ k.loc # None
    BY <1>4, <2>1, IdIs DEF RolesKnown, StageOK
  <2>3. CASE d.creds = b.creds
    <3>1. d.creds[k.cred] # None => d.creds[k.cred].role \in RolesFor(b, k.req.url)
      BY <2>2, <2>3 DEF RolesFor
    <3> QED BY <1>2, <3>1 DEF RolesKnown
  <2>4. CASE d.locs = b.locs
    <3>1. FindByPathPrefix(d, k.req.url) = FindByPathPrefix(b, k.req.url)
      BY <2>4 DEF FindByPathPrefix, Covering
    <3>2. d.creds[k.cred] # None => d.creds[k.cred].role \in RolesFor(d, k.req.url)
      BY <2>2, <2>4, <3>1 DEF RolesFor
    <3> QED BY <1>2, <3>2
  <2> QED BY <2>1, <2>3, <2>4
<1>5. k.stage \in {"cache", "sts", "insert", "answer"} /\ k.role # None => k.role \in l.roles \/ l.moved >= 2
  BY <1>2, <1>3 DEF RolesKnown
<1>6. l.moved # 0
  BY <1>2, <1>3
<1>7. k.stage \in {"check", "locate", "credential"} => k.role = None
  BY DEF RolesKnown
<1> HIDE DEF l
<1>8. RolesFor(d, l.req.url) \subseteq l.roles
  BY <1>2
<1>9. /\ l.stage \in {"check", "locate", "credential"} => l.role = None
      /\ l.stage = "credential" /\ l.moved = 1 => d.creds[l.cred] = None \/ d.creds[l.cred].role \in l.roles
      /\ l.stage \in {"cache", "sts", "insert", "answer"} /\ l.role # None => l.role \in l.roles \/ l.moved >= 2
  BY <1>2, <1>4, <1>5, <1>7
<1>10. RolesKnown(d, l)
  BY <1>6, <1>8, <1>9 DEF RolesKnown
<1> QED BY <1>10 DEF l

LEMMA SeeChangeKnows ==
  ASSUME TInv, RInv, NEW over, NEW d \in Database, NEW n \in Nat, n >= 1, SeeChange(over, d, n),
         n = 1 => d.creds = view.creds \/ d.locs = view.locs,
         NEW e \in Client
  PROVE  Knows(d, call'[e])
<1>1. view \in Database
  BY DEF TInv, Settled
<1>2. CASE call'[e] = Idle
  BY <1>2 DEF Knows
<1>3. CASE ~At(e, "idle") /\ call'[e] = Noted(call[e], d, n)
  <2>1. call[e] \in Call /\ StageOK(call[e])
    BY <1>3, AtBusy
  <2>2. CASE Req(e).op \in Vends
    <3>1. RolesKnown(view, call[e])
      BY <1>3, <2>2, AtKnows
    <3>2. RolesKnown(d, Noted(call[e], d, n))
      BY <1>1, <2>1, <2>2, <3>1, NotedKnows DEF Req
    <3> QED BY <1>3, <3>2 DEF Knows
  <2>3. CASE Req(e).op \notin Vends
    BY <1>3, <2>1, <2>3, NotedIs DEF Knows, Req
  <2> QED BY <2>2, <2>3
<1> QED BY <1>2, <1>3, SeeChangeIs

LEMMA RefuseKnows ==
  ASSUME TInv, RInv, NEW c \in Client, Refuse(c)
  PROVE  RInv'
BY EndKnows DEF Refuse, Rows

\* A commit of this process is made on its own snapshot, which is the log's;
\* one of another replica leaves the snapshot one further behind.
LEMMA WriteKnows ==
  ASSUME TInv, RInv, NEW c \in Client, Write(c)
  PROVE  RInv'
<1>1. PICK i \in Id :
        /\ Written(c, i) # None /\ db' = Written(c, i)
        /\ \/ c \in Elsewhere /\ lag' = lag + 1 /\ End(c) /\ UNCHANGED view
           \/ /\ c \notin Elsewhere /\ lag = 0 /\ view' = Written(c, i) /\ SeeChange({c}, Written(c, i), 1)
              /\ UNCHANGED lag
  BY DEF Write
<1>2. /\ Written(c, i) \in Database /\ lag \in Nat
      /\ Written(c, i).creds = Snap(c).creds \/ Written(c, i).locs = Snap(c).locs
  BY <1>1, WrittenIs, WrittenOne DEF Write, TInv, Settled
<1>3. CASE c \in Elsewhere /\ lag' = lag + 1 /\ End(c) /\ UNCHANGED view
  <2>1. \A d \in Client : call'[d] = Idle \/ call'[d] = call[d]
    BY <1>3 DEF End, TInv, Shape
  <2>2. \A d \in Client : Knows(view', call'[d])
    BY <1>3, <2>1 DEF RInv, Knows
  <2>3. lag = 0 => view.creds = db'.creds \/ view.locs = db'.locs
    BY <1>1, <1>2, <1>3 DEF RInv, Behind, Snap
  <2>4. Behind'
    BY <1>2, <1>3, <2>3 DEF Behind
  <2> QED BY <2>2, <2>4 DEF RInv
<1>4. CASE /\ c \notin Elsewhere /\ lag = 0 /\ view' = Written(c, i) /\ SeeChange({c}, Written(c, i), 1)
           /\ UNCHANGED lag
  <2>1. Snap(c) = view
    BY <1>4 DEF Snap
  <2>2. \A e \in Client : Knows(view', call'[e])
    BY <1>2, <1>4, <2>1, SeeChangeKnows
  <2>3. Behind'
    BY <1>1, <1>4 DEF Behind
  <2> QED BY <2>2, <2>3 DEF RInv
<1> QED BY <1>1, <1>3, <1>4

LEMMA CatchUpKnows ==
  ASSUME TInv, RInv, CatchUp
  PROVE  RInv'
<1>1. /\ SeeChange({}, db, lag) /\ db \in Database /\ lag \in Nat /\ lag >= 1
      /\ view' = db /\ db' = db /\ lag' = 0
  BY DEF CatchUp, TInv, Settled
<1>2. lag = 1 => db.creds = view.creds \/ db.locs = view.locs
  BY DEF RInv, Behind
<1>3. \A e \in Client : Knows(view', call'[e])
  BY <1>1, <1>2, SeeChangeKnows
<1> QED BY <1>1, <1>3 DEF RInv, Behind

\* Only calls of another replica go on, and those vend nothing.
LEMMA RestartKnows ==
  ASSUME TInv, RInv, Restart
  PROVE  RInv'
<1>1. ASSUME NEW c \in Client
      PROVE  Knows(view', call'[c])
  <2>1. CASE call'[c] = Idle
    BY <2>1 DEF Knows
  <2>2. CASE Administers(c) /\ call'[c] = call[c]
    <3>1. call[c].req.op \notin Vends
      BY <2>2, AtBusy DEF Administers, At, StageOK
    <3> QED BY <2>2, <3>1 DEF Knows
  <2> QED BY <2>1, <2>2 DEF Restart
<1> QED BY <1>1 DEF RInv, Behind, Restart

LEMMA NextKnows == TInv /\ RInv /\ [Next]_vars => RInv'
<1> SUFFICES ASSUME TInv, RInv, [Next]_vars
             PROVE  RInv'
  OBVIOUS
<1>1. ASSUME NEW c \in Client, Begin(c) \/ Look(c) \/ Refuse(c) \/ Write(c) \/ Vend(c)
      PROVE  RInv'
  <2>1. CASE Answer(c)
    BY <2>1, EndKnows DEF Answer, Rows
  <2> QED BY <1>1, <2>1, BeginKnows, LookKnows, RefuseKnows, WriteKnows, CheckLocationKnows, LocateKnows,
             ReadCredentialKnows, LookInCacheKnows, AssumeRoleKnows, InsertKnows DEF Vend
<1>2. CASE Tick
  BY <1>2 DEF Tick, Rows, RInv, Behind, Knows, RolesKnown, RolesFor
<1>3. CASE UNCHANGED vars
  BY <1>3 DEF vars, RInv, Behind, Knows, RolesKnown, RolesFor
<1> QED BY <1>1, <1>2, <1>3, CatchUpKnows, RestartKnows DEF Next

LEMMA InitKnows == Init => RInv
BY DEF Init, RInv, Behind, Knows

\* Whatever rows change under a request, here or elsewhere, and whatever the
\* cache holds: the role it is answered with was configured for its path in a
\* snapshot this process had during the call, unless two changes mixed; and
\* without a change the location whose privilege was checked is the one whose
\* role is used (path_credentials, build_ctx, vend, Store::catch_up).
THEOREM RoleIsConfigured == Spec => []RoleWasConfigured
<1>1. TInv /\ RInv /\ IInv => RoleWasConfigured
  <2> SUFFICES ASSUME TInv, RInv, IInv, NEW c \in Client, At(c, "answer")
               PROVE  /\ call[c].got.role \in call[c].roles \/ call[c].moved >= 2
                      /\ Req(c).op = "path" /\ call[c].moved = 0 => call[c].loc = call[c].checked
    BY DEF RoleWasConfigured, Answers
  <2>1. call[c].stage = "answer" /\ Req(c).op \in Vends /\ call[c].role # None
    BY AtBusy, VendingAssumption DEF At, StageOK, Req
  <2>2. RolesKnown(view, call[c])
    BY <2>1, AtKnows DEF At
  <2>3. call[c].got.role = call[c].role
    BY <2>1 DEF IInv, CallInv
  <2> QED BY <2>1, <2>2, <2>3 DEF RolesKnown, Req
<1> QED BY <1>1, InitKnows, NextKnows, Typed, Safety, PTL DEF Spec

-----------------------------------------------------------------------------
(* What STS was asked for                                                  *)

\* A later request for the same, at the same time as the one that asked, puts
\* its own session in the place of the first one's.
Excused(v) == \E x \in asked : x.key = v.key /\ {x.by, v.by} \in met

KeyOf(k) == <<k.role, k.req.url, k.req.mode>>

\* A request under way overlaps all that began after it, has not inserted
\* anything before its answer, and when it asks STS, what earlier requests got
\* for the same key was past its use when it looked.
AskingOK(k) ==
  /\ k.n \in 1..begun /\ k.looked \in 0..now
  /\ \A n \in (k.n + 1)..begun : {k.n, n} \in met
  /\ \A v \in asked : v.by = k.n => k.stage = "answer"
  /\ \A v \in asked :
       /\ k.stage \in {"sts", "insert"} /\ v.epoch = epoch /\ v.key = KeyOf(k)
       /\ v.by < k.n /\ {v.by, k.n} \notin met
       => Excused(v) \/ v.until <= k.looked

Asked(v) == v.by \in 1..begun /\ v.until \in Nat /\ v.looked \in 0..now /\ v.epoch \in 0..epoch

\* What was asked for is in the cache, unless it was replaced or is past its use.
Remembered(v) ==
  v.epoch = epoch => Excused(v) \/ v.until <= now \/ \E e \in cache : e.key = v.key /\ e.until = v.until

AInv ==
  /\ \A c \in Client : call[c] = Idle \/ AskingOK(call[c])
  /\ \A c, d \in Client : call[c] # Idle /\ call[d] # Idle /\ call[c].n = call[d].n => c = d
  /\ \A v \in asked : Asked(v) /\ Remembered(v)
  /\ StsAskedOnce

LEMMA Counts ==
  ASSUME TInv
  PROVE  begun \in Nat /\ MaxCalls \in Nat /\ now \in Nat /\ epoch \in Nat
BY VendingAssumption DEF TInv, Settled

LEMMA InitAsked == Init => AInv
BY DEF Init, AInv, StsAskedOnce

LEMMA SameAsking ==
  ASSUME UNCHANGED <<begun, met, asked, now, epoch>>, NEW d, AskingOK(call'[d])
  PROVE  AskingOK(call[d])'
BY DEF AskingOK, Excused, KeyOf

LEMMA OneAsks ==
  ASSUME TInv, AInv, NEW c \in Client, NEW k,
         k = Idle \/ (call[c] # Idle /\ k.n = call[c].n /\ AskingOK(k)),
         call' = [call EXCEPT ![c] = k], UNCHANGED <<begun, met, asked, cache, now, epoch>>
  PROVE  AInv'
<1>1. \A d \in Client : (d = c /\ call'[d] = k) \/ (d # c /\ call'[d] = call[d])
  BY DEF TInv, Shape
<1>2. \A d \in Client : call'[d] = Idle \/ (call[d] # Idle /\ call'[d].n = call[d].n)
  BY <1>1
<1>3. \A d \in Client : call'[d] = Idle \/ AskingOK(call'[d])
  BY <1>1 DEF AInv
<1>4. \A d \in Client : (call[d] = Idle \/ AskingOK(call[d]))'
  <2> SUFFICES ASSUME NEW d \in Client, call'[d] # Idle
               PROVE  AskingOK(call[d])'
    OBVIOUS
  <2>1. AskingOK(call'[d])
    BY <1>3
  <2> QED BY <2>1, SameAsking
<1>5. \A d, e \in Client : call'[d] # Idle /\ call'[e] # Idle /\ call'[d].n = call'[e].n => d = e
  BY <1>2 DEF AInv
<1>6. \A v \in asked' : (Asked(v) /\ Remembered(v))'
  BY DEF AInv, Asked, Remembered, Excused
<1>7. StsAskedOnce'
  BY DEF AInv, StsAskedOnce
<1> QED BY <1>4, <1>5, <1>6, <1>7 DEF AInv

LEMMA EndAsks ==
  ASSUME TInv, AInv, NEW c \in Client, End(c), Outside, UNCHANGED <<Rows, Vendor>>
  PROVE  AInv'
BY OneAsks DEF End, Outside, Vendor

\* A step to a stage that asks STS nothing.
LEMMA OtherAsks ==
  ASSUME TInv, AInv, NEW c \in Client, ~At(c, "idle"), NEW k,
         k.n = call[c].n, k.looked = call[c].looked \/ k.looked = now,
         k.stage \notin {"sts", "insert"}, call[c].stage = "answer" => k.stage = "answer",
         call' = [call EXCEPT ![c] = k], UNCHANGED <<begun, met, asked, cache, now, epoch>>
  PROVE  AInv'
<1>1. call[c] # Idle
  BY DEF At, Idle
<1>2. AskingOK(call[c])
  BY <1>1 DEF AInv
<1>3. now \in 0..now
  BY Counts
<1>4. AskingOK(k)
  BY <1>2, <1>3 DEF AskingOK
<1> QED BY <1>1, <1>4, OneAsks

LEMMA ReadsAsk ==
  ASSUME TInv, AInv, NEW c \in Client, Look(c) \/ CheckLocation(c) \/ Locate(c) \/ ReadCredential(c)
  PROVE  AInv'
<1>1. /\ call[c].stage \in {"look", "check", "locate", "credential"}
      /\ UNCHANGED <<begun, met, asked, cache, now, epoch>> /\ Outside /\ UNCHANGED <<Rows, Vendor>>
  BY DEF Look, CheckLocation, Locate, ReadCredential, At, Outside, Vendor
<1>2. call[c] \in Call /\ ~At(c, "idle")
  BY <1>1, AtBusy DEF At
<1>3. ASSUME NEW k, call' = [call EXCEPT ![c] = k], k.n = call[c].n, k.looked = call[c].looked,
             k.stage \in {"write", "locate", "credential", "cache"}
      PROVE  AInv'
  BY <1>1, <1>2, <1>3, OtherAsks
<1>4. CASE Look(c)
  <2> DEFINE loc == Named(Snap(c).locs, Req(c).name)
             cred == Named(Snap(c).creds, IF Req(c).op \in {"newLocation", "moveLocation"} THEN Req(c).cred ELSE Req(c).name)
             k == [call[c] EXCEPT !.stage = "write", !.loc = loc, !.cred = cred]
  <2>1. End(c) \/ call' = [call EXCEPT ![c] = k]
    BY <1>4 DEF Look
  <2> HIDE DEF loc, cred
  <2>2. k.n = call[c].n /\ k.looked = call[c].looked /\ k.stage = "write"
    BY <1>2 DEF Call
  <2> HIDE DEF k
  <2> QED BY <1>1, <1>3, <2>1, <2>2, EndAsks
<1>5. CASE CheckLocation(c)
  <2> DEFINE loc == FindByPathPrefix(view, Req(c).url)
             k == [call[c] EXCEPT !.stage = "locate", !.checked = loc]
  <2>1. End(c) \/ call' = [call EXCEPT ![c] = k]
    BY <1>5 DEF CheckLocation
  <2> HIDE DEF loc
  <2>2. k.n = call[c].n /\ k.looked = call[c].looked /\ k.stage = "locate"
    BY <1>2 DEF Call
  <2> HIDE DEF k
  <2> QED BY <1>1, <1>3, <2>1, <2>2, EndAsks
<1>6. CASE Locate(c)
  <2> DEFINE loc == IF Req(c).op = "delta" THEN None ELSE FindByPathPrefix(view, Req(c).url)
             stage == IF loc = None THEN "cache" ELSE "credential"
             cred == IF loc = None THEN None ELSE view.locs[loc].cred
             k == [call[c] EXCEPT !.stage = stage, !.loc = loc, !.cred = cred]
  <2>1. call' = [call EXCEPT ![c] = k] /\ stage \in {"cache", "credential"}
    BY <1>6 DEF Locate
  <2> HIDE DEF loc, stage, cred
  <2>2. k.n = call[c].n /\ k.looked = call[c].looked /\ k.stage = stage
    BY <1>2 DEF Call
  <2> HIDE DEF k
  <2> QED BY <1>3, <2>1, <2>2
<1>7. CASE ReadCredential(c)
  <2> DEFINE role == view.creds[call[c].cred].role
             k == [call[c] EXCEPT !.stage = "cache", !.role = role]
  <2>1. End(c) \/ call' = [call EXCEPT ![c] = k]
    BY <1>7 DEF ReadCredential
  <2> HIDE DEF role
  <2>2. k.n = call[c].n /\ k.looked = call[c].looked /\ k.stage = "cache"
    BY <1>2 DEF Call
  <2> HIDE DEF k
  <2> QED BY <1>1, <1>3, <2>1, <2>2, EndAsks
<1> QED BY <1>4, <1>5, <1>6, <1>7

\* STS is asked when what others got is past its use, or was replaced.
LEMMA LookInCacheAsks ==
  ASSUME TInv, AInv, NEW c \in Client, LookInCache(c)
  PROVE  AInv'
<1>1. /\ call[c].stage = "cache" /\ ~At(c, "idle")
      /\ UNCHANGED <<begun, met, asked, cache, now, epoch>> /\ Outside /\ UNCHANGED <<Rows, Vendor>>
  BY DEF LookInCache, At, Outside, Vendor
<1>2. call[c] \in Call /\ call[c] # Idle
  BY <1>1, AtBusy DEF At, Idle
<1>3. ASSUME NEW e \in Fresh(CacheKey(c)),
             call' = [call EXCEPT ![c].stage = "answer", ![c].got = e.session, ![c].looked = now, ![c].hit = TRUE]
      PROVE  AInv'
  <2> DEFINE k == [call[c] EXCEPT !.stage = "answer", !.got = e.session, !.looked = now, !.hit = TRUE]
  <2>1. k.n = call[c].n /\ k.looked = now /\ k.stage = "answer"
    BY <1>2 DEF Call
  <2>2. call' = [call EXCEPT ![c] = k]
    BY <1>3
  <2> HIDE DEF k
  <2> QED BY <1>1, <2>1, <2>2, OtherAsks
<1>4. CASE Fresh(CacheKey(c)) = {} /\ call' = [call EXCEPT ![c].stage = "sts", ![c].looked = now]
  <2> DEFINE k == [call[c] EXCEPT !.stage = "sts", !.looked = now]
  <2>1. k.n = call[c].n /\ k.looked = now /\ k.stage = "sts" /\ KeyOf(k) = CacheKey(c)
    BY <1>2 DEF Call, KeyOf, CacheKey, Req
  <2>2. call' = [call EXCEPT ![c] = k]
    BY <1>4
  <2> HIDE DEF k
  <2>3. ASSUME NEW v \in asked, v.epoch = epoch, v.key = KeyOf(k)
        PROVE  Excused(v) \/ v.until <= k.looked
    <3>1. \A e \in cache : e.key = v.key => ~(e.until > now)
      BY <1>4, <2>1, <2>3 DEF Fresh, Usable
    <3>2. v.until \in Nat /\ now \in Nat /\ (Excused(v) \/ v.until <= now \/ \E e \in cache : e.key = v.key /\ e.until = v.until)
      BY <2>3, Counts DEF AInv, Asked, Remembered
    <3> QED BY <2>1, <3>1, <3>2
  <2>4. AskingOK(call[c])
    BY <1>2 DEF AInv
  <2>5. now \in 0..now
    BY Counts
  <2>6. AskingOK(k)
    BY <1>1, <2>1, <2>3, <2>4, <2>5 DEF AskingOK
  <2> QED BY <1>1, <1>2, <2>1, <2>2, <2>6, OneAsks
<1>5. CASE End(c)
  BY <1>1, <1>5, EndAsks
<1> QED BY <1>3, <1>4, <1>5 DEF LookInCache

LEMMA AssumeRoleAsks ==
  ASSUME TInv, AInv, NEW c \in Client, AssumeRole(c)
  PROVE  AInv'
<1>1. /\ call[c].stage = "sts" /\ ~At(c, "idle")
      /\ UNCHANGED <<begun, met, asked, cache, now, epoch>> /\ Outside /\ UNCHANGED <<Rows, Vendor>>
  BY DEF AssumeRole, At, Outside, Vendor
<1>2. call[c] \in Call /\ call[c] # Idle
  BY <1>1, AtBusy DEF At, Idle
<1>3. ASSUME NEW got, call' = [call EXCEPT ![c].stage = "insert", ![c].got = got]
      PROVE  AInv'
  <2> DEFINE k == [call[c] EXCEPT !.stage = "insert", !.got = got]
  <2>1. k.n = call[c].n /\ k.looked = call[c].looked /\ k.stage = "insert" /\ KeyOf(k) = KeyOf(call[c])
    BY <1>2 DEF Call, KeyOf
  <2>2. call' = [call EXCEPT ![c] = k]
    BY <1>3
  <2> HIDE DEF k
  <2>3. AskingOK(call[c])
    BY <1>2 DEF AInv
  <2>4. AskingOK(k)
    BY <1>1, <2>1, <2>3 DEF AskingOK
  <2> QED BY <1>1, <1>2, <2>1, <2>2, <2>4, OneAsks
<1> QED BY <1>1, <1>3, EndAsks DEF AssumeRole

\* A request begins: it overlaps all that are under way, and nothing was asked
\* in its name yet.
LEMMA BeginAsks ==
  ASSUME TInv, AInv, NEW c \in Client, Begin(c)
  PROVE  AInv'
<1>1. PICK req \in Requests :
        call' = [call EXCEPT ![c] =
                   [Idle EXCEPT !.n = begun + 1, !.req = req, !.stage = FirstStage(req),
                                !.roles = IF req.op \in Vends THEN RolesFor(view, req.url) ELSE {}]]
  BY DEF Begin
<1>a. PICK k : k = [Idle EXCEPT !.n = begun + 1, !.req = req, !.stage = FirstStage(req),
                                !.roles = IF req.op \in Vends THEN RolesFor(view, req.url) ELSE {}]
  OBVIOUS
<1>2. k.n = begun + 1 /\ k.looked = 0 /\ k.stage \in {"check", "locate", "look"}
  BY <1>a DEF Idle, FirstStage
<1>3. /\ call' = [call EXCEPT ![c] = k] /\ At(c, "idle") /\ begun' = begun + 1
      /\ met' = met \cup {{call[d].n, begun + 1} : d \in {e \in Client : ~At(e, "idle")}}
      /\ UNCHANGED <<asked, cache, now, epoch>>
  BY <1>1, <1>a DEF Begin, Vendor
<1>4. begun \in Nat /\ now \in Nat /\ epoch \in Nat
  BY Counts
<1>5. \A d \in Client : (d = c /\ call'[d] = k) \/ (d # c /\ call'[d] = call[d])
  BY <1>3 DEF TInv, Shape
<1>6. \A v : Excused(v) => Excused(v)'
  BY <1>3 DEF Excused
<1>7. AskingOK(k)'
  <2>1. \A v \in asked : v.by \in 1..begun
    BY DEF AInv, Asked
  <2>2. k.n \in 1..begun' /\ k.looked \in 0..now'
    BY <1>2, <1>3, <1>4
  <2>3. (k.n + 1)..begun' = {}
    BY <1>2, <1>3, <1>4
  <2>4. \A v \in asked : v.by # k.n
    BY <1>2, <1>4, <2>1
  <2> QED BY <1>2, <1>3, <2>2, <2>3, <2>4 DEF AskingOK
<1>8. ASSUME NEW d \in Client, d # c, call[d] # Idle
      PROVE  AskingOK(call[d])' /\ call'[d].n # k.n
  <2>1. AskingOK(call[d]) /\ call'[d] = call[d]
    BY <1>5, <1>8 DEF AInv
  <2>2. ~At(d, "idle") /\ call[d].n \in 1..begun
    BY <1>8, <2>1 DEF TInv, Busy, Call, At, AskingOK
  <2>3. {call[d].n, begun + 1} \in met'
    BY <1>3, <2>2
  <2>4. \A n \in (call[d].n + 1)..begun' : n \in (call[d].n + 1)..begun \/ n = begun + 1
    BY <1>3, <1>4, <2>2
  <2>5. \A n \in (call[d].n + 1)..begun' : {call[d].n, n} \in met'
    BY <1>3, <2>1, <2>3, <2>4 DEF AskingOK
  <2>6. call[d].n \in 1..begun'
    BY <1>3, <1>4, <2>2
  <2>7. \A v \in asked :
          /\ call[d].stage \in {"sts", "insert"} /\ v.epoch = epoch /\ v.key = KeyOf(call[d])
          /\ v.by < call[d].n /\ {v.by, call[d].n} \notin met'
          => Excused(v)' \/ v.until <= call[d].looked
    BY <1>3, <1>6, <2>1 DEF AskingOK
  <2>8. AskingOK(call[d])'
    BY <1>3, <2>1, <2>5, <2>6, <2>7 DEF AskingOK, KeyOf
  <2> QED BY <1>2, <1>4, <2>1, <2>2, <2>8
<1>9. \A d \in Client : (call[d] = Idle \/ AskingOK(call[d]))'
  BY <1>5, <1>7, <1>8 DEF AskingOK, KeyOf
<1>10. \A d, e \in Client : call'[d] # Idle /\ call'[e] # Idle /\ call'[d].n = call'[e].n => d = e
  BY <1>5, <1>8 DEF AInv
<1>11. \A v \in asked' : (Asked(v) /\ Remembered(v))'
  <2> SUFFICES ASSUME NEW v \in asked
               PROVE  Asked(v)' /\ Remembered(v)'
    BY <1>3
  <2>1. Asked(v) /\ Remembered(v)
    BY DEF AInv
  <2>2. Asked(v)'
    BY <1>3, <1>4, <2>1 DEF Asked
  <2> QED BY <1>3, <1>6, <2>1, <2>2 DEF Remembered
<1>12. StsAskedOnce'
  <2> SUFFICES ASSUME NEW v \in asked, NEW w \in asked,
                      v.key = w.key /\ v.epoch = w.epoch /\ v.by < w.by /\ {v.by, w.by} \notin met'
               PROVE  w.looked >= v.until \/ Excused(v)'
    BY <1>3 DEF StsAskedOnce, Excused
  <2>1. w.looked >= v.until \/ Excused(v)
    BY <1>3 DEF AInv, StsAskedOnce, Excused
  <2> QED BY <1>6, <2>1
<1> QED BY <1>9, <1>10, <1>11, <1>12 DEF AInv

LEMMA SeeChangeAsks ==
  ASSUME TInv, AInv, NEW over, NEW d \in Database, NEW n \in Nat, SeeChange(over, d, n),
         UNCHANGED <<begun, met, asked, cache, now, epoch>>
  PROVE  AInv'
<1>1. ASSUME NEW e \in Client, call'[e] # Idle
      PROVE  /\ call[e] # Idle /\ call'[e].n = call[e].n /\ call'[e].stage = call[e].stage
             /\ call'[e].looked = call[e].looked /\ KeyOf(call'[e]) = KeyOf(call[e])
  <2>1. ~At(e, "idle") /\ call'[e] = Noted(call[e], d, n)
    BY <1>1, SeeChangeIs
  <2>2. call[e] \in Call /\ call[e] # Idle
    BY <2>1, AtBusy DEF At, Idle
  <2> QED BY <2>1, <2>2, NotedIs DEF KeyOf
<1>2. \A e \in Client : (call[e] = Idle \/ AskingOK(call[e]))'
  <2> SUFFICES ASSUME NEW e \in Client, call'[e] # Idle
               PROVE  AskingOK(call[e])'
    OBVIOUS
  <2>1. AskingOK(call[e])
    BY <1>1 DEF AInv
  <2>2. AskingOK(call'[e])
    BY <1>1, <2>1 DEF AskingOK
  <2> QED BY <2>2 DEF AskingOK, Excused, KeyOf
<1>3. \A e, f \in Client : call'[e] # Idle /\ call'[f] # Idle /\ call'[e].n = call'[f].n => e = f
  BY <1>1 DEF AInv
<1>4. \A v \in asked' : (Asked(v) /\ Remembered(v))'
  BY DEF AInv, Asked, Remembered, Excused
<1>5. StsAskedOnce'
  BY DEF AInv, StsAskedOnce
<1> QED BY <1>2, <1>3, <1>4, <1>5 DEF AInv

LEMMA RefuseAsks ==
  ASSUME TInv, AInv, NEW c \in Client, Refuse(c)
  PROVE  AInv'
BY EndAsks DEF Refuse

LEMMA WriteAsks ==
  ASSUME TInv, AInv, NEW c \in Client, Write(c)
  PROVE  AInv'
<1>1. UNCHANGED <<begun, met, asked, cache, now, epoch>> /\ At(c, "write")
  BY DEF Write, Vendor, Outside
<1>2. PICK i \in Id : Written(c, i) # None /\ (End(c) \/ SeeChange({c}, Written(c, i), 1))
  BY DEF Write
<1>3. CASE End(c)
  BY <1>1, <1>3, OneAsks DEF End
<1>4. CASE SeeChange({c}, Written(c, i), 1)
  <2>1. Written(c, i) \in Database
    BY <1>1, <1>2, WrittenIs
  <2> QED BY <1>1, <1>4, <2>1, SeeChangeAsks
<1> QED BY <1>2, <1>3, <1>4

LEMMA CatchUpAsks ==
  ASSUME TInv, AInv, CatchUp
  PROVE  AInv'
<1>1. SeeChange({}, db, lag) /\ db \in Database /\ lag \in Nat
  BY DEF CatchUp, TInv, Settled
<1>2. UNCHANGED <<begun, met, asked, cache, now, epoch>>
  BY DEF CatchUp, Vendor, Outside
<1> QED BY <1>1, <1>2, SeeChangeAsks

\* The entry of one that asked is only replaced by one that overlapped it, or
\* when it was past its use.
LEMMA InsertAsks ==
  ASSUME TInv, AInv, NEW c \in Client, Insert(c)
  PROVE  AInv'
<1>a. PICK session : session = [call[c].got EXCEPT !.kept = NearExpiry(call[c].got)]
  OBVIOUS
<1>b. PICK until : until = now + Ttl(session)
  OBVIOUS
<1>c. PICK key : key = CacheKey(c)
  OBVIOUS
<1>d. PICK entry : entry = [key |-> key, session |-> session, until |-> until]
  OBVIOUS
<1>e. PICK new : new = [key |-> key, by |-> call[c].n, looked |-> call[c].looked, until |-> until, epoch |-> epoch]
  OBVIOUS
<1>f. PICK k : k = [call[c] EXCEPT !.stage = "answer", !.got = session]
  OBVIOUS
<1>1. /\ cache' = {e \in cache : e.key # key} \cup {entry}
      /\ asked' = asked \cup {new}
      /\ call' = [call EXCEPT ![c] = k]
      /\ call[c].stage = "insert" /\ UNCHANGED <<begun, met, now, epoch>>
  BY <1>a, <1>b, <1>c, <1>d, <1>e, <1>f DEF Insert, At, Outside
<1>2. call[c] \in Call /\ StageOK(call[c]) /\ call[c] # Idle /\ AskingOK(call[c])
  BY <1>1, AtBusy DEF At, AInv, Idle
<1>3. until \in Nat
  <2>1. call[c].got \in Session
    BY <1>1, <1>2 DEF StageOK
  <2>2. session.expires \in Nat
    BY <1>a, <2>1 DEF Session
  <2> QED BY <1>b, <2>2, TtlIs, TimeIs
<1>4. k.n = call[c].n /\ k.looked = call[c].looked /\ k.stage = "answer"
  BY <1>2, <1>f DEF Call
<1>5. /\ new.key = key /\ new.by = call[c].n /\ new.looked = call[c].looked /\ new.until = until
      /\ new.epoch = epoch /\ entry.key = key /\ entry.until = until
  BY <1>d, <1>e
<1>6. key = KeyOf(call[c])
  BY <1>c DEF CacheKey, KeyOf, Req
<1>7. begun \in Nat /\ now \in Nat /\ epoch \in Nat /\ call[c].n \in 1..begun /\ call[c].looked \in 0..now
  BY <1>2, Counts DEF AskingOK
<1>8. \A d \in Client : (d = c /\ call'[d] = k) \/ (d # c /\ call'[d] = call[d])
  BY <1>1 DEF TInv, Shape
<1>9. \A v : Excused(v) => Excused(v)'
  BY <1>1 DEF Excused
\* Whoever asked earlier for the same.
<1>10. ASSUME NEW v \in asked, v.epoch = epoch, v.key = key
       PROVE  {v.by, call[c].n} \in met \/ (v.by < call[c].n /\ (Excused(v) \/ v.until <= call[c].looked))
  <2>1. v.by \in 1..begun /\ v.by # call[c].n
    BY <1>1, <1>2 DEF AInv, Asked, AskingOK
  <2>2. CASE v.by > call[c].n
    <3>1. v.by \in (call[c].n + 1)..begun
      BY <1>7, <2>1, <2>2
    <3>2. {call[c].n, v.by} \in met /\ {call[c].n, v.by} = {v.by, call[c].n}
      BY <1>2, <3>1 DEF AskingOK
    <3> QED BY <3>2
  <2>3. CASE v.by < call[c].n
    BY <1>1, <1>2, <1>6, <1>10, <2>3 DEF AskingOK
  <2> QED BY <1>7, <2>1, <2>2, <2>3
<1>11. ASSUME NEW v \in asked
       PROVE  Asked(v)' /\ Remembered(v)'
  <2>1. Asked(v) /\ Remembered(v)
    BY DEF AInv
  <2>2. Asked(v)'
    BY <1>1, <2>1 DEF Asked
  <2>3. ASSUME v.epoch = epoch, NEW e \in cache, e.key = v.key, e.until = v.until
        PROVE  Excused(v)' \/ v.until <= now \/ \E f \in cache' : f.key = v.key /\ f.until = v.until
    <3>1. CASE v.key # key
      BY <1>1, <2>3, <3>1
    <3>2. CASE v.key = key
      <4>1. CASE {v.by, call[c].n} \in met
        <5>1. {new.by, v.by} \in met' /\ new \in asked' /\ new.key = v.key
          <6>1. {new.by, v.by} = {v.by, call[c].n}
            BY <1>5
          <6> QED BY <1>1, <1>5, <3>2, <4>1, <6>1
        <5> QED BY <5>1 DEF Excused
      <4>2. CASE Excused(v) \/ v.until <= call[c].looked
        <5>1. v.until \in Nat
          BY <2>1 DEF Asked
        <5> QED BY <1>7, <1>9, <4>2, <5>1
      <4> QED BY <1>10, <2>3, <3>2, <4>1, <4>2
    <3> QED BY <3>1, <3>2
  <2>4. Remembered(v)'
    BY <1>1, <1>9, <2>1, <2>3 DEF Remembered
  <2> QED BY <2>2, <2>4
<1>12. Asked(new)' /\ Remembered(new)'
  <2>1. Asked(new)
    BY <1>3, <1>5, <1>7 DEF Asked
  <2>2. Asked(new)'
    BY <1>1, <2>1 DEF Asked
  <2> QED BY <1>1, <1>5, <2>2 DEF Remembered
<1>13. \A v \in asked' : (Asked(v) /\ Remembered(v))'
  BY <1>1, <1>11, <1>12
<1>14. ASSUME NEW d \in Client, d # c, call[d] # Idle
       PROVE  AskingOK(call[d])' /\ call'[d].n # k.n
  <2>1. AskingOK(call[d]) /\ call'[d] = call[d] /\ call[d].n # call[c].n /\ call[d].n \in 1..begun
    BY <1>2, <1>8, <1>14 DEF AInv, AskingOK
  <2>2. call[c].n < call[d].n => {call[c].n, call[d].n} \in met
    <3>1. call[c].n < call[d].n => call[d].n \in (call[c].n + 1)..begun
      BY <1>7, <2>1
    <3> QED BY <1>2, <3>1 DEF AskingOK
  <2>3. \A v \in asked' : v.by = call[d].n => call[d].stage = "answer"
    BY <1>1, <1>5, <2>1 DEF AskingOK
  <2>4. \A v \in asked' :
          /\ call[d].stage \in {"sts", "insert"} /\ v.epoch = epoch /\ v.key = KeyOf(call[d])
          /\ v.by < call[d].n /\ {v.by, call[d].n} \notin met
          => Excused(v)' \/ v.until <= call[d].looked
    BY <1>1, <1>5, <1>9, <2>1, <2>2 DEF AskingOK
  <2>5. AskingOK(call[d])'
    BY <1>1, <2>1, <2>3, <2>4 DEF AskingOK, KeyOf
  <2> QED BY <1>4, <2>1, <2>5
<1>15. AskingOK(k)'
  BY <1>1, <1>2, <1>4 DEF AskingOK
<1>16. \A d \in Client : (call[d] = Idle \/ AskingOK(call[d]))'
  BY <1>8, <1>14, <1>15 DEF AskingOK, KeyOf
<1>17. \A d, e \in Client : call'[d] # Idle /\ call'[e] # Idle /\ call'[d].n = call'[e].n => d = e
  BY <1>8, <1>14 DEF AInv
<1>18. StsAskedOnce'
  <2> SUFFICES ASSUME NEW v \in asked', NEW w \in asked',
                      v.key = w.key /\ v.epoch = w.epoch /\ v.by < w.by /\ {v.by, w.by} \notin met
               PROVE  w.looked >= v.until \/ Excused(v)'
    BY <1>1 DEF StsAskedOnce, Excused
  <2>1. CASE v \in asked /\ w \in asked
    <3>1. w.looked >= v.until \/ Excused(v)
      BY <2>1 DEF AInv, StsAskedOnce, Excused
    <3> QED BY <1>9, <3>1
  <2>2. CASE v \in asked /\ w = new
    <3>1. Excused(v) \/ v.until <= call[c].looked
      BY <1>5, <1>10, <2>2
    <3>2. v.until \in Nat
      BY <2>2 DEF AInv, Asked
    <3> QED BY <1>5, <1>7, <1>9, <2>2, <3>1, <3>2
  <2>3. CASE v = new /\ w \in asked
    <3>1. w.by \in 1..begun
      BY <2>3 DEF AInv, Asked
    <3>2. w.by \in (call[c].n + 1)..begun
      BY <1>5, <1>7, <2>3, <3>1
    <3> QED BY <1>2, <1>5, <2>3, <3>2 DEF AskingOK
  <2>4. CASE v = new /\ w = new
    BY <1>5, <1>7, <2>4
  <2> QED BY <1>1, <2>1, <2>2, <2>3, <2>4
<1> QED BY <1>13, <1>16, <1>17, <1>18 DEF AInv

LEMMA TickAsks ==
  ASSUME TInv, AInv, Tick
  PROVE  AInv'
<1>1. UNCHANGED <<call, begun, met, asked, cache, epoch>> /\ now' = now + 1 /\ now \in Nat
  BY Counts DEF Tick, Vendor
<1>2. \A i : i \in 0..now => i \in 0..now'
  BY <1>1
<1>3. \A c \in Client : (call[c] = Idle \/ AskingOK(call[c]))'
  BY <1>1, <1>2 DEF AInv, AskingOK, Excused, KeyOf
<1>4. ASSUME NEW v \in asked
      PROVE  Asked(v)' /\ Remembered(v)'
  <2>1. Asked(v) /\ Remembered(v)
    BY DEF AInv
  <2>2. Asked(v)'
    BY <1>1, <1>2, <2>1 DEF Asked
  <2>3. v.until <= now => v.until <= now'
    BY <1>1, <2>1 DEF Asked
  <2> QED BY <1>1, <2>1, <2>2, <2>3 DEF Remembered, Excused
<1> QED BY <1>1, <1>3, <1>4 DEF AInv, StsAskedOnce

LEMMA RestartAsks ==
  ASSUME TInv, AInv, Restart
  PROVE  AInv'
<1>1. /\ UNCHANGED <<begun, met, asked, now>> /\ epoch' = epoch + 1 /\ epoch \in Nat
      /\ \A c \in Client : call'[c] = Idle \/ call'[c] = call[c]
  BY Counts DEF Restart
<1>2. \A v \in asked : v.epoch \in 0..epoch
  BY DEF AInv, Asked
<1>3. \A v \in asked : v.epoch \in 0..epoch' /\ v.epoch # epoch'
  BY <1>1, <1>2
<1>4. \A v \in asked : Asked(v)' /\ Remembered(v)'
  BY <1>1, <1>3 DEF AInv, Asked, Remembered
<1>5. \A c \in Client : (call[c] = Idle \/ AskingOK(call[c]))'
  <2> SUFFICES ASSUME NEW c \in Client, call'[c] # Idle
               PROVE  AskingOK(call[c])'
    OBVIOUS
  <2>1. call'[c] = call[c] /\ AskingOK(call[c])
    BY <1>1 DEF AInv
  <2> QED BY <1>1, <1>3, <2>1 DEF AskingOK
<1>6. \A c, d \in Client : call'[c] # Idle /\ call'[d] # Idle /\ call'[c].n = call'[d].n => c = d
  BY <1>1 DEF AInv
<1> QED BY <1>1, <1>4, <1>5, <1>6 DEF AInv, StsAskedOnce

LEMMA NextAsks == TInv /\ AInv /\ [Next]_vars => AInv'
<1> SUFFICES ASSUME TInv, AInv, [Next]_vars
             PROVE  AInv'
  OBVIOUS
<1>1. ASSUME NEW c \in Client, Begin(c) \/ Look(c) \/ Refuse(c) \/ Write(c) \/ Vend(c)
      PROVE  AInv'
  <2>1. CASE Answer(c)
    BY <2>1, EndAsks DEF Answer
  <2> QED BY <1>1, <2>1, BeginAsks, ReadsAsk, RefuseAsks, WriteAsks, LookInCacheAsks, AssumeRoleAsks, InsertAsks DEF Vend
<1>2. CASE UNCHANGED vars
  <2>1. UNCHANGED <<call, begun, met, asked, cache, now, epoch>>
    BY <1>2 DEF vars
  <2>2. \A c \in Client : (call[c] = Idle \/ AskingOK(call[c]))'
    BY <2>1 DEF AInv, AskingOK, Excused, KeyOf
  <2> QED BY <2>1, <2>2 DEF AInv, Asked, Remembered, Excused, StsAskedOnce
<1> QED BY <1>1, <1>2, CatchUpAsks, TickAsks, RestartAsks DEF Next

\* Of two requests for the same, one after the other, the second asks STS only
\* when what the first one got is past its use, or a third one replaced it
\* (vend: look in the cache, ask, insert).
THEOREM AskedOnce == Spec => []StsAskedOnce
<1>1. AInv => StsAskedOnce
  BY DEF AInv
<1> QED BY <1>1, InitAsked, NextAsks, Typed, PTL DEF Spec

=============================================================================
