------------------------- MODULE ObjectParts_proofs -------------------------
(***************************************************************************)
(* What hangs on the rows of the catalog hierarchy: versions, columns,     *)
(* parameters, properties, owners and links.  They are written by commits  *)
(* of their own, so while a call is under way they need not agree with the *)
(* row.  The invariants say that either the call still has the step that   *)
(* makes up for it, or two calls met, or one was broken off (Broken).      *)
(* First comes what a call can lose to another one (Open) and which step   *)
(* tells whom (Apart), then the versions (VersInv), then all else          *)
(* (HangInv), with the types and the rows of Objects_proofs as premises.   *)
(***************************************************************************)
EXTENDS Objects_proofs

-----------------------------------------------------------------------------
(* What hangs on rows: who writes about what                               *)

\* Nothing changes about object i; a grant that comes to nothing is wanted no more.
Same(i) ==
  /\ touched'[i] = touched[i] /\ db'.objs[i] = db.objs[i]
  /\ (i \in db'.parts <=> i \in db.parts) /\ (i \in db'.props <=> i \in db.props) /\ (i \in db'.owners <=> i \in db.owners)
  /\ \A v : v \in VersionsOf(db', i) <=> v \in VersionsOf(db, i)
  /\ \A p : <<i, p>> \in db'.links <=> <<i, p>> \in db.links
  /\ note'[i].kind = note[i].kind /\ note'[i].made = note[i].made /\ note'[i].gone = note[i].gone
  /\ \A w \in {"parts", "props"} : w \in note'[i].wants <=> w \in note[i].wants
  /\ "owner" \in note'[i].wants => "owner" \in note[i].wants

\* The handlers promise nothing about i any more: see Disturbed.
Broken(i) == Clash(i) \/ \E x \in touched[i] : x \in cut

\* And call n has lost it, or will when it writes.
Open(n, i) == Broken(i) \/ Overlaps(n, i)

\* What the step of a call leaves alone, and whom it tells.
Apart(c) ==
  /\ met \subseteq met' /\ cut \subseteq cut'
  /\ \A i \in Id : touched[i] \subseteq touched'[i] /\ (Same(i) \/ call[c].n \in touched'[i])

LEMMA OpenStays ==
  ASSUME NEW c, Apart(c), NEW i \in Id
  PROVE  /\ Broken(i) => Broken(i)'
         /\ \A n : Open(n, i) => Open(n, i)'
<1>1. met \subseteq met' /\ cut \subseteq cut' /\ touched[i] \subseteq touched'[i]
  BY DEF Apart
<1>2. Broken(i) => Broken(i)'
  BY <1>1 DEF Broken, Clash
<1>3. ASSUME NEW n, Overlaps(n, i) PROVE Overlaps(n, i)'
  BY <1>1, <1>3 DEF Overlaps
<1> QED BY <1>2, <1>3 DEF Open

\* A call that has written about what it has lost has broken it.
LEMMA OpenBreaks ==
  ASSUME TInv, KinInv, NEW i \in Id, NEW n \in touched[i], Open(n, i)
  PROVE  Broken(i)
<1>1. CASE Overlaps(n, i)
  <2>1. PICK x \in touched[i] : {x, n} \in met
    BY <1>1 DEF Overlaps
  <2>2. n \in Ordinal
    BY DEF TInv, TypeOK
  <2>3. x # n
    BY <2>1, <2>2 DEF KinInv, NumbersOK
  <2> QED BY <2>1, <2>3 DEF Broken, Clash
<1> QED BY <1>1 DEF Open

\* What one call writes about, every other one has lost.
LEMMA OthersLose ==
  ASSUME TInv, RowsInv, NEW c \in Client, NEW d \in Client, c # d, call[c] # Idle, call[d] # Idle, Apart(c), NEW i \in Id,
         ~Same(i), NEW n, n = call[d].n
  PROVE  Open(n, i)'
<1>1. call[c].n \in touched'[i] /\ {call[c].n, n} \in met'
  BY DEF Apart, RowsInv, AllMet
<1> QED BY <1>1 DEF Open, Overlaps

\* What another call has written about, this one has lost.
LEMMA LostToOthers ==
  ASSUME TInv, RowsInv, NEW c \in Client, NEW d \in Client, c # d, call[c] # Idle, NEW i \in Id, call[d].n \in touched[i]
  PROVE  Open(call[c].n, i)
<1>1. call[d].n \in Ordinal
  BY DEF TInv, TypeOK
<1>2. call[d] # Idle
  BY <1>1, IdleCall DEF Ordinal, None
<1>3. {call[d].n, call[c].n} \in met
  BY <1>2 DEF RowsInv, AllMet
<1> QED BY <1>3 DEF Open, Overlaps

LEMMA UnwrittenApart == ASSUME Unwritten, met \subseteq met', cut \subseteq cut', NEW c PROVE (\A i \in Id : Same(i)) /\ Apart(c)
<1>1. \A i \in Id : Same(i)
  BY DEF Unwritten, Same
<1> QED BY <1>1 DEF Apart, Unwritten

LEMMA WriteApart ==
  ASSUME TInv, NEW c, NEW d, NEW ids, Write(c, d, ids), UNCHANGED <<met, cut>>, \A i \in Id \ ids : touched'[i] = touched[i] => Same(i)
  PROVE  Apart(c)
<1>1. \A i \in Id : touched[i] \subseteq touched'[i] /\ (i \in ids => call[c].n \in touched'[i])
  BY WriteTouches
<1>2. \A i \in Id \ ids : touched'[i] = touched[i]
  BY DEF Write
<1> QED BY <1>1, <1>2 DEF Apart

\* The tables that a commit leaves alone.
Others(field) ==
  /\ field # "objs" => db'.objs = db.objs
  /\ field # "parts" => db'.parts = db.parts
  /\ field # "props" => db'.props = db.props
  /\ field # "versions" => db'.versions = db.versions
  /\ field # "owners" => db'.owners = db.owners
  /\ field # "links" => db'.links = db.links

\* Commits of what hangs on rows.
LEMMA HangingDoes ==
  ASSUME TInv, NEW c \in Client
  PROVE  /\ AddParts(c) => Others("parts") /\ db'.parts = db.parts \cup {On(c)} /\ note' = note
         /\ SetProps(c) => Others("props") /\ db'.props = db.props \cup {On(c)}
         /\ LinkChild(c) => Others("links") /\ db'.links = db.links \cup {<<On(c), call[c].parent>>} /\ note' = note
         /\ DropParts(c) => Others("parts") /\ db'.parts = db.parts \ {On(c)} /\ note' = note
         /\ DropProps(c) => Others("props") /\ db'.props = db.props \ {On(c)} /\ note' = note
         /\ MarkCommitted(c) \/ StageRow(c) => Others("staging") /\ note' = note
         /\ PutVersion(c) => /\ Others("versions") /\ note' = note
                             /\ db'.versions = db.versions \cup {[model |-> On(c), number |-> call[c].number, by |-> call[c].n]}
         /\ DropVersion(c) => /\ Others("versions") /\ note' = note
                              /\ db'.versions = {v \in db.versions : v.model # On(c) \/ v.number # Req(c).to}
<1>1. db \in Database
  BY DEF TInv, TypeOK
<1> HIDE DEF Object, NoObject, Version, Id
<1>2. AddParts(c) => Others("parts") /\ db'.parts = db.parts \cup {On(c)} /\ note' = note
  BY <1>1 DEF AddParts, Write, Database, Others
<1>3. SetProps(c) => Others("props") /\ db'.props = db.props \cup {On(c)}
  BY <1>1 DEF SetProps, Write, Database, Others
<1>4. LinkChild(c) => Others("links") /\ db'.links = db.links \cup {<<On(c), call[c].parent>>} /\ note' = note
  BY <1>1 DEF LinkChild, Write, Database, Others
<1>5. DropParts(c) => Others("parts") /\ db'.parts = db.parts \ {On(c)} /\ note' = note
  BY <1>1 DEF DropParts, Write, Database, Others
<1>6. DropProps(c) => Others("props") /\ db'.props = db.props \ {On(c)} /\ note' = note
  BY <1>1 DEF DropProps, Write, Database, Others
<1>7. MarkCommitted(c) => Others("staging") /\ note' = note
  BY <1>1 DEF MarkCommitted, Write, Database, Others
<1>8. StageRow(c) => Others("staging") /\ note' = note
  BY <1>1 DEF StageRow, Write, Database, Others
<1>9. PutVersion(c) => /\ Others("versions") /\ note' = note
                       /\ db'.versions = db.versions \cup {[model |-> On(c), number |-> call[c].number, by |-> call[c].n]}
  BY <1>1 DEF PutVersion, Write, Database, Others
<1>10. DropVersion(c) => /\ Others("versions") /\ note' = note
                         /\ db'.versions = {v \in db.versions : v.model # On(c) \/ v.number # Req(c).to}
  BY <1>1 DEF DropVersion, Write, Database, Others
<1> QED BY <1>2, <1>3, <1>4, <1>5, <1>6, <1>7, <1>8, <1>9, <1>10

LEMMA PropsWanted ==
  ASSUME TInv, NEW c \in Client, SetProps(c)
  PROVE  /\ \A i \in Id \ {On(c)} : note'[i] = note[i]
         /\ \A i \in Id : /\ note'[i].kind = note[i].kind /\ note'[i].made = note[i].made /\ note'[i].gone = note[i].gone
                          /\ note'[i].wants = IF i = On(c) THEN note[i].wants \cup {"props"} ELSE note[i].wants
<1>1. On(c) \in Id
  BY AtStep DEF SetProps, Single
<1>2. note \in [Id -> Notes] /\ note[On(c)] \in Notes
  BY <1>1 DEF TInv, TypeOK
<1>3. note' = [note EXCEPT ![On(c)]["wants"] = note[On(c)].wants \cup {"props"}]
  BY DEF SetProps, Note
<1>4. note' = [note EXCEPT ![On(c)] = [note[On(c)] EXCEPT !.wants = note[On(c)].wants \cup {"props"}]]
  BY <1>1, <1>2, <1>3
<1>5. /\ \A i \in Id : i # On(c) => note'[i] = note[i]
      /\ note'[On(c)] = [note[On(c)] EXCEPT !.wants = note[On(c)].wants \cup {"props"}]
  BY <1>1, <1>2, <1>4
<1>6. /\ note'[On(c)].kind = note[On(c)].kind /\ note'[On(c)].made = note[On(c)].made /\ note'[On(c)].gone = note[On(c)].gone
      /\ note'[On(c)].wants = note[On(c)].wants \cup {"props"}
  BY <1>2, <1>5 DEF Notes
<1> QED BY <1>5, <1>6

LEMMA SetMaxDoes ==
  ASSUME TInv, NEW c \in Client, SetMax(c)
  PROVE  /\ Others("objs") /\ note' = note /\ On(c) \in Id /\ Live(db') = Live(db)
         /\ \A i \in Id \ {On(c)} : db'.objs[i] = db.objs[i]
         /\ On(c) \notin Live(db) => db'.objs = db.objs
         /\ On(c) \in Live(db) => db'.objs[On(c)] = [db.objs[On(c)] EXCEPT !.max = call[c].number]
                                  /\ db.objs[On(c)] \in Object
<1>1. On(c) \in Id /\ db \in Database /\ note' = note
  BY AtStep DEF SetMax, Single, TInv, TypeOK
<1>2. CASE On(c) \notin Live(db)
  BY <1>1, <1>2 DEF SetMax, Write, Others
<1>3. CASE On(c) \in Live(db)
  <2>1. db.objs[On(c)] \in Object
    BY <1>1, <1>3, LiveIs DEF Database
  <2>2. PICK row : row = [db.objs[On(c)] EXCEPT !.max = call[c].number]
    OBVIOUS
  <2>3. db' = [db EXCEPT !.objs[On(c)].max = call[c].number]
    BY <1>3 DEF SetMax, Write
  <2>4. db' = [db EXCEPT !.objs = [db.objs EXCEPT ![On(c)] = row]]
    BY <1>1, <2>2, <2>3 DEF Database
  <2>5. db'.objs = [db.objs EXCEPT ![On(c)] = row] /\ Others("objs")
    BY <1>1, <2>4 DEF Database, Others
  <2>6. db'.objs[On(c)] = row /\ \A i \in Id \ {On(c)} : db'.objs[i] = db.objs[i]
    BY <1>1, <2>5 DEF Database
  <2>7. Live(db') = Live(db)
    BY HangingStill DEF Still
  <2> QED BY <1>1, <1>3, <2>1, <2>2, <2>5, <2>6, <2>7
<1> QED BY <1>2, <1>3

LEMMA GrantDoes ==
  ASSUME TInv, NEW c \in Client, GrantOwner(c)
  PROVE  /\ Others("owners") /\ On(c) \in Id
         /\ \A i \in Id : /\ note'[i].kind = note[i].kind /\ note'[i].made = note[i].made /\ note'[i].gone = note[i].gone
                          /\ i # On(c) => note'[i].wants = note[i].wants
         /\ \/ /\ db'.owners = db.owners \cup {On(c)} /\ UNCHANGED note /\ Proceed(c, << >>)
               /\ Write(c, [db EXCEPT !.owners = @ \cup {On(c)}], {On(c)})
            \/ /\ db' = db /\ touched' = touched /\ note'[On(c)].wants = note[On(c)].wants \ {"owner"}
               /\ call' = [call EXCEPT ![c] = Idle]
<1>1. On(c) \in Id
  BY AtStep DEF GrantOwner, Single
<1>2. note \in [Id -> Notes] /\ note[On(c)] \in Notes /\ db \in Database
  BY <1>1 DEF TInv, TypeOK
<1>3. CASE Write(c, [db EXCEPT !.owners = @ \cup {On(c)}], {On(c)}) /\ Proceed(c, << >>) /\ UNCHANGED note
  BY <1>1, <1>2, <1>3 DEF Write, Database, Others
<1>4. CASE /\ call' = [call EXCEPT ![c] = Idle] /\ Note(On(c), "wants", note[On(c)].wants \ {"owner"})
           /\ UNCHANGED <<db, touched>>
  <2>1. note' = [note EXCEPT ![On(c)] = [note[On(c)] EXCEPT !.wants = note[On(c)].wants \ {"owner"}]]
    BY <1>1, <1>2, <1>4 DEF Note
  <2>2. /\ \A i \in Id : i # On(c) => note'[i] = note[i]
        /\ note'[On(c)] = [note[On(c)] EXCEPT !.wants = note[On(c)].wants \ {"owner"}]
    BY <1>1, <1>2, <2>1
  <2>3. /\ note'[On(c)].kind = note[On(c)].kind /\ note'[On(c)].made = note[On(c)].made /\ note'[On(c)].gone = note[On(c)].gone
        /\ note'[On(c)].wants = note[On(c)].wants \ {"owner"}
    BY <1>2, <2>2 DEF Notes
  <2> QED BY <1>1, <1>4, <2>2, <2>3 DEF Others
<1> QED BY <1>3, <1>4 DEF GrantOwner

\* How a row went, and nothing else, is written down with it.
LEMMA MarkSays ==
  ASSUME TInv, NEW c, NEW i \in Id, NEW gone, Mark(c, i, gone)
  PROVE  \A x \in Id : /\ note'[x].kind = note[x].kind /\ note'[x].made = note[x].made /\ note'[x].wants = note[x].wants
                       /\ note'[x].gone = IF x = i THEN gone ELSE note[x].gone
<1>0. note \in [Id -> Notes] /\ note[i] \in Notes
  BY DEF TInv, TypeOK
<1>1. PICK h : h = IF i = On(c) THEN note[i].hit ELSE call[c].n
  OBVIOUS
<1>2. note' = [note EXCEPT ![i] = [note[i] EXCEPT !.gone = gone, !.hit = h]]
  BY <1>0, <1>1 DEF Mark
<1>3. note'[i] = [note[i] EXCEPT !.gone = gone, !.hit = h] /\ \A x \in Id : x # i => note'[x] = note[x]
  BY <1>0, <1>2
<1>4. /\ note'[i].kind = note[i].kind /\ note'[i].made = note[i].made /\ note'[i].wants = note[i].wants
      /\ note'[i].gone = gone
  BY <1>0, <1>3 DEF Notes
<1> QED BY <1>3, <1>4

LEMMA CreateRowDoes ==
  ASSUME TInv, RowsInv, NEW c \in Client, CreateRow(c), ~Fails(c), NEW k, k = call[c]
  PROVE  /\ Others("objs") /\ On(c) \in Id /\ UNCHANGED cut /\ Proceed(c, << >>)
         /\ \A i \in Id \ {On(c)} : db'.objs[i] = db.objs[i] /\ note'[i] = note[i]
         /\ db'.objs[On(c)].parent = k.parent /\ db'.objs[On(c)].kind = k.req.kind /\ On(c) \in Live(db')
         /\ note'[On(c)].kind = k.req.kind /\ note'[On(c)].made = k.n /\ note'[On(c)].wants = Wanted(k.req)
         /\ note'[On(c)].gone = "no"
         /\ note[On(c)].kind \in {"none", "table"} /\ (note[On(c)].kind = "table" => k.req.kind = "table")
         /\ k.n \in touched'[On(c)] /\ \A i \in Id : i = k.parent => k.n \in touched'[i]
         /\ \A i \in Id \ {On(c), k.parent} : touched'[i] = touched[i]
<1>0. Doing(c, "row")
  BY DEF CreateRow
<1>2. /\ k.n \in Ordinal /\ k.todo # << >> /\ On(c) \in Id /\ k.todo[1] = <<"row", On(c)>>
      /\ PlaceOK(k, 1) /\ (k.req.staged # None => k.req.kind = "table") /\ k.req.op = "create" /\ k.req \in Request
  BY <1>0, CreationIs, OpOf DEF Req
<1>3. PICK i \in Id : i = On(c)
  BY <1>2
<1>4. PICK row : row = [kind |-> k.req.kind, name |-> Last(k.req.path), parent |-> k.parent, max |-> 0,
                        root |-> "root" \in k.req.opts, from |-> k.from]
  OBVIOUS
<1>5. PICK new : new = [NoNote EXCEPT !.kind = k.req.kind, !.made = k.n, !.wants = Wanted(k.req)]
  OBVIOUS
<1>6. /\ Write(c, PutRow(db, i, row), {i, k.parent}) /\ note' = [note EXCEPT ![i] = new]
      /\ Proceed(c, << >>) /\ UNCHANGED cut
  BY <1>3, <1>4, <1>5 DEF CreateRow, Req
<1>7. new.kind = k.req.kind /\ new.made = k.n /\ new.wants = Wanted(k.req) /\ new.gone = "no"
  BY <1>5 DEF NoNote
<1>8. db \in Database /\ note \in [Id -> Notes]
  BY DEF TInv, TypeOK
<1>9. note'[i] = new /\ \A x \in Id : x # i => note'[x] = note[x]
  BY <1>6, <1>8
<1>10. db'.objs = [db.objs EXCEPT ![i] = row] /\ Others("objs")
  BY <1>6, <1>8 DEF Write, PutRow, Database, Others
<1>11. db'.objs[i] = row /\ \A x \in Id : x # i => db'.objs[x] = db.objs[x]
  BY <1>8, <1>10 DEF Database
<1>12. /\ \A x \in Id : x \in {i, k.parent} => k.n \in touched'[x]
       /\ \A x \in Id \ {i, k.parent} : touched'[x] = touched[x]
  BY <1>6 DEF Write
<1>13. note[i].kind \in {"none", "table"} /\ (note[i].kind = "table" => k.req.kind = "table")
  <2>1. k.todo[1][1] = "row" /\ k.todo[1][2] = i
    BY <1>2, <1>3
  <2>2. MakerOK(k, 1)
    BY <1>2, <2>1 DEF PlaceOK, Making
  <2>3. RowOK(i)
    BY DEF RowsInv
  <2> QED BY <1>2, <2>1, <2>2, <2>3 DEF MakerOK, RowOK, Fresh
<1>14. row.kind = k.req.kind /\ row.parent = k.parent /\ row # NoObject
  <2>1. row.kind \in Kinds
    BY <1>2, <1>4 DEF Request
  <2>2. NoObject.kind \notin Kinds
    BY DEF NoObject, Kinds, Leaves
  <2> QED BY <1>4, <2>1, <2>2
<1>15. i \in Live(db')
  BY <1>11, <1>14, LiveIs
<1> QED BY <1>3, <1>6, <1>7, <1>9, <1>10, <1>11, <1>12, <1>13, <1>14, <1>15

LEMMA DropOneDoes ==
  ASSUME TInv, RowsInv, NEW c \in Client, DropOne(c), ~Fails(c), NEW i, i = Hit(c)
  PROVE  /\ i \in Id /\ i \notin Live(db') /\ call[c].n \in touched'[i] /\ UNCHANGED cut /\ Proceed(c, << >>)
         /\ i = On(c) \/ (i \in Live(db) /\ Overlaps(call[c].n, i))
         /\ i \notin Live(db) => note[i].kind = "model"
         /\ \A x \in Id \ {i} : db'.objs[x] = db.objs[x] /\ touched'[x] = touched[x]
         /\ db'.props = db.props /\ db'.owners = db.owners /\ db'.links = db.links
         /\ \A x : x \in db'.parts <=> x \in db.parts /\ ~(x = i /\ db.objs[i].kind = "function")
         /\ \A v : v \in db'.versions <=> v \in db.versions /\ v.model # i
         /\ \A x \in Id : /\ note'[x].kind = note[x].kind /\ note'[x].made = note[x].made /\ note'[x].wants = note[x].wants
                          /\ note'[x].gone = IF x # i THEN note[x].gone
                                             ELSE IF note[i].kind = Req(c).kind THEN "dropped" ELSE "cascaded"
<1>1. Doing(c, "dropRow") /\ On(c) \in Id /\ db \in Database
  BY AtStep DEF DropOne, Single, TInv, TypeOK
<1>2. /\ i \in Live(db) \/ note[On(c)].kind = "model"
      /\ Write(c, DropRow(db, i), {i})
      /\ Mark(c, i, IF note[i].kind = Req(c).kind THEN "dropped" ELSE "cascaded")
      /\ Proceed(c, << >>) /\ UNCHANGED cut
  BY DEF DropOne
<1>3. i \in Id /\ (i \notin Live(db) => i = On(c)) /\ (i # On(c) => note[On(c)].kind = "catalog")
  BY <1>1, <1>2, HitIs, LiveIs
<1>4. PICK old : old = db.objs[i]
  OBVIOUS
<1>5. /\ db'.objs = [db.objs EXCEPT ![i] = NoObject]
      /\ db'.parts = IF old.kind = "function" THEN db.parts \ {i} ELSE db.parts
      /\ db'.versions = {v \in db.versions : v.model # i}
      /\ db'.props = db.props /\ db'.owners = db.owners /\ db'.links = db.links
  BY <1>1, <1>2, <1>4 DEF Write, DropRow, Database
<1>6. \A x \in Id : db'.objs[x] = IF x = i THEN NoObject ELSE db.objs[x]
  BY <1>1, <1>5 DEF Database
<1>7. i \notin Live(db')
  BY <1>3, <1>6, LiveIs
<1>8. call[c].n \in touched'[i] /\ \A x \in Id \ {i} : touched'[x] = touched[x]
  BY <1>2, <1>3 DEF Write, TInv, TypeOK
<1>9. i # On(c) => i \in Live(db) /\ Overlaps(call[c].n, i)
  BY <1>1, <1>3, HitKnown
<1>10. i \notin Live(db) => note[i].kind = "model"
  BY <1>2, <1>3
<1> QED BY <1>2, <1>3, <1>4, <1>5, <1>6, <1>7, <1>8, <1>9, <1>10, MarkSays

LEMMA RenameDoes ==
  ASSUME TInv, RowsInv, NEW c \in Client, Rename(c), ~Fails(c), NEW i, i = Hit(c)
  PROVE  /\ UNCHANGED cut /\ Others("objs")
         /\ i \notin Live(db) => Unwritten /\ i = On(c)
         /\ i \in Live(db) => /\ call[c].n \in touched'[i] /\ (i = On(c) \/ Overlaps(call[c].n, i))
                              /\ db.objs[i].parent = db'.objs[i].parent /\ db.objs[i].max = db'.objs[i].max
                              /\ db.objs[i].kind = db'.objs[i].kind /\ db'.objs[i].name = Req(c).to
                              /\ note'[i].gone = "no"
         /\ \A x \in Id : note'[x].kind = note[x].kind /\ note'[x].made = note[x].made /\ note'[x].wants = note[x].wants
         /\ \A x \in Id : x # i \/ i \notin Live(db) =>
              db'.objs[x] = db.objs[x] /\ touched'[x] = touched[x] /\ note'[x].gone = note[x].gone
         /\ Live(db') = Live(db)
<1>1. Doing(c, "rename") /\ On(c) \in Id /\ db \in Database
  BY AtStep DEF Rename, Single, TInv, TypeOK
<1>2. /\ Proceed(c, When("props" \in Req(c).opts, <<"props", i>>)) /\ UNCHANGED cut
      /\ \/ Unwritten /\ i \notin Live(db) /\ Req(c).kind \in {"table", "model"}
         \/ i \in Live(db) /\ Write(c, PutRow(db, i, Renamed(db, i, Req(c).to)), {i}) /\ Mark(c, i, "no")
  BY DEF Rename
<1>3. CASE i \notin Live(db)
  <2>1. note[On(c)].kind = Req(c).kind
    BY <1>1, HeadOK DEF PlainOK, Req
  <2>2. i = On(c)
    BY <1>2, <1>3, <2>1 DEF Hit
  <2> QED BY <1>2, <1>3, <2>2 DEF Unwritten, Others
<1>4. CASE i \in Live(db)
  <2>1. i \in Id /\ db.objs[i] \in Object
    BY <1>1, <1>4, LiveIs DEF Database
  <2>2. PICK row : row = [db.objs[i] EXCEPT !.name = Req(c).to]
    OBVIOUS
  <2>3. row.kind = db.objs[i].kind /\ row.kind \in Kinds /\ row.parent = db.objs[i].parent /\ row.max = db.objs[i].max
        /\ row.name = Req(c).to
    BY <2>1, <2>2 DEF Object
  <2>4. db'.objs = [db.objs EXCEPT ![i] = row] /\ Others("objs")
    BY <1>1, <1>2, <1>4, <2>2 DEF Write, PutRow, Renamed, Database, Others
  <2>5. db'.objs[i] = row /\ \A x \in Id \ {i} : db'.objs[x] = db.objs[x]
    BY <1>1, <2>1, <2>4 DEF Database
  <2>6. row # NoObject
    <3>1. NoObject.kind \notin Kinds
      BY DEF NoObject, Kinds, Leaves
    <3> QED BY <2>3, <3>1
  <2>7. \A x : x \in Live(db') <=> x \in Live(db)
    BY <1>4, <2>5, <2>6, LiveIs
  <2>8. Live(db') = Live(db)
    BY <2>7
  <2>9. call[c].n \in touched'[i] /\ \A x \in Id \ {i} : touched'[x] = touched[x]
    BY <1>2, <1>4, <2>1 DEF Write, TInv, TypeOK
  <2>10. i = On(c) \/ Overlaps(call[c].n, i)
    BY <1>1, <1>4, HitKnown
  <2>11. \A x \in Id : /\ note'[x].kind = note[x].kind /\ note'[x].made = note[x].made /\ note'[x].wants = note[x].wants
                       /\ note'[x].gone = IF x = i THEN "no" ELSE note[x].gone
    BY <1>2, <1>4, <2>1, MarkSays
  <2> QED BY <1>2, <1>4, <2>1, <2>3, <2>4, <2>5, <2>8, <2>9, <2>10, <2>11
<1> QED BY <1>3, <1>4

\* The steps that only read, or that end a call early.
LEMMA ReadsApart ==
  ASSUME TInv, NEW c \in Client,
         \/ Look(c) \/ Interrupt(c)
         \/ Outside /\ (StagedTable(c) \/ FindRoot(c) \/ CheckEmpty(c) \/ ListChildren(c) \/ NextChild(c) \/ ReadPage(c) \/ Answer(c))
         \/ Outside /\ UNCHANGED nextId /\ Fails(c)
  PROVE  Unwritten /\ Apart(c) /\ UNCHANGED met /\ \A i \in Id : Same(i)
<1>1. Unwritten /\ (Fails(c) \/ UNCHANGED cut)
  <2>1. CASE Look(c)
    BY <2>1 DEF Look, LookCreate, LookDelete, LookRename, LookDropVersion, LookUp, LookAddVersion, LookList, Fails
  <2>2. CASE ~Look(c)
    BY <2>2 DEF Interrupt, StagedTable, FindRoot, CheckEmpty, ListChildren, NextChild, ReadPage, Answer, Fails
  <2> QED BY <2>1, <2>2
<1>2. UNCHANGED met
  BY DEF Look, LookCreate, LookDelete, LookRename, LookDropVersion, LookUp, LookAddVersion, LookList, Outside, Interrupt
<1>3. cut \subseteq cut'
  BY <1>1 DEF Fails
<1> QED BY <1>1, <1>2, <1>3, UnwrittenApart

LEMMA VersionsSame ==
  ASSUME db'.versions = db.versions, NEW i
  PROVE  \A v : v \in VersionsOf(db', i) <=> v \in VersionsOf(db, i)
BY DEF VersionsOf

LEMMA HangingApart ==
  ASSUME TInv, NEW c \in Client, Outside,
         \/ AddParts(c) \/ SetProps(c) \/ LinkChild(c) \/ DropParts(c) \/ DropProps(c) \/ PutVersion(c) \/ DropVersion(c)
         \/ MarkCommitted(c) \/ StageRow(c) \/ SetMax(c)
  PROVE  Apart(c) /\ UNCHANGED <<met, cut>> /\ Proceed(c, << >>) /\ On(c) \in Id /\ call[c].n \in touched'[On(c)]
         /\ \A i \in Id \ {On(c)} : Same(i)
<1>1. /\ On(c) \in Id /\ UNCHANGED <<met, cut>> /\ Proceed(c, << >>)
      /\ \E d : Write(c, d, {On(c)})
  BY AtStep DEF AddParts, SetProps, LinkChild, DropParts, DropProps, PutVersion, SetMax, DropVersion, MarkCommitted,
     StageRow, Single, Outside
<1>2. call[c].n \in touched'[On(c)] /\ \A i \in Id \ {On(c)} : touched'[i] = touched[i]
  BY <1>1 DEF Write, TInv, TypeOK
<1>3. ASSUME NEW i \in Id \ {On(c)} PROVE Same(i)
  <2>1. /\ db'.objs[i] = db.objs[i]
        /\ (i \in db'.parts <=> i \in db.parts) /\ (i \in db'.props <=> i \in db.props) /\ (i \in db'.owners <=> i \in db.owners)
        /\ \A p : <<i, p>> \in db'.links <=> <<i, p>> \in db.links
    BY <1>3, HangingDoes, SetMaxDoes DEF Others
  <2>2. note'[i] = note[i]
    BY <1>3, HangingDoes, SetMaxDoes, PropsWanted
  <2>3. \A v : v \in VersionsOf(db', i) <=> v \in VersionsOf(db, i)
    <3>1. CASE PutVersion(c)
      <4>1. PICK new : new = [model |-> On(c), number |-> call[c].number, by |-> call[c].n]
        OBVIOUS
      <4>2. db'.versions = db.versions \cup {new} /\ new.model = On(c)
        BY <3>1, <4>1, HangingDoes
      <4> QED BY <1>3, <4>2 DEF VersionsOf
    <3>2. CASE DropVersion(c)
      BY <1>3, <3>2, HangingDoes DEF VersionsOf
    <3>3. CASE ~PutVersion(c) /\ ~DropVersion(c)
      <4>1. db'.versions = db.versions
        BY <3>3, HangingDoes, SetMaxDoes DEF Others
      <4> QED BY <4>1, VersionsSame
    <3> QED BY <3>1, <3>2, <3>3
  <2> QED BY <1>2, <1>3, <2>1, <2>2, <2>3 DEF Same
<1>4. PICK d : Write(c, d, {On(c)})
  BY <1>1
<1>5. Apart(c)
  BY <1>1, <1>3, <1>4, WriteApart
<1> QED BY <1>1, <1>2, <1>3, <1>5

LEMMA GrantApart ==
  ASSUME TInv, NEW c \in Client, Outside, GrantOwner(c)
  PROVE  Apart(c) /\ UNCHANGED <<met, cut>> /\ \A i \in Id \ {On(c)} : Same(i)
<1>1. UNCHANGED <<met, cut>> /\ On(c) \in Id
  BY GrantDoes DEF Outside, GrantOwner
<1>2. ASSUME NEW i \in Id, db' = db \/ i # On(c), touched'[i] = touched[i] PROVE Same(i)
  <2>1. /\ db'.objs[i] = db.objs[i] /\ db'.versions = db.versions
        /\ (i \in db'.parts <=> i \in db.parts) /\ (i \in db'.props <=> i \in db.props) /\ (i \in db'.owners <=> i \in db.owners)
        /\ \A p : <<i, p>> \in db'.links <=> <<i, p>> \in db.links
    BY <1>2, GrantDoes DEF Others
  <2>2. \A v : v \in VersionsOf(db', i) <=> v \in VersionsOf(db, i)
    BY <2>1, VersionsSame
  <2>3. /\ note'[i].kind = note[i].kind /\ note'[i].made = note[i].made /\ note'[i].gone = note[i].gone
        /\ note'[i].wants \in {note[i].wants, note[i].wants \ {"owner"}}
    BY GrantDoes
  <2> QED BY <1>2, <2>1, <2>2, <2>3 DEF Same
<1>3. CASE db' = db /\ touched' = touched
  <2>1. \A i \in Id : Same(i)
    BY <1>2, <1>3
  <2> QED BY <1>1, <1>3, <2>1 DEF Apart
<1>4. CASE Write(c, [db EXCEPT !.owners = @ \cup {On(c)}], {On(c)})
  <2>1. \A i \in Id \ {On(c)} : touched'[i] = touched[i]
    BY <1>4 DEF Write
  <2>2. \A i \in Id \ {On(c)} : Same(i)
    BY <1>2, <2>1
  <2>3. PICK d : Write(c, d, {On(c)})
    BY <1>4
  <2> QED BY <1>1, <2>2, <2>3, WriteApart
<1> QED BY <1>3, <1>4, GrantDoes

LEMMA CreateRowApart ==
  ASSUME TInv, RowsInv, NEW c \in Client, Outside, CreateRow(c), ~Fails(c)
  PROVE  Apart(c) /\ UNCHANGED <<met, cut>> /\ \A i \in Id \ {On(c)} : touched'[i] = touched[i] => Same(i)
<1>1. UNCHANGED <<met, cut>>
  BY CreateRowDoes DEF Outside
<1>2. ASSUME NEW i \in Id \ {On(c)}, touched'[i] = touched[i] PROVE Same(i)
  <2>1. db'.objs[i] = db.objs[i] /\ note'[i] = note[i] /\ Others("objs")
    BY <1>2, CreateRowDoes
  <2>2. \A v : v \in VersionsOf(db', i) <=> v \in VersionsOf(db, i)
    BY <2>1, VersionsSame DEF Others
  <2> QED BY <1>2, <2>1, <2>2 DEF Same, Others
<1>3. \E d : Write(c, d, {On(c), call[c].parent})
  BY DEF CreateRow
<1>4. PICK d : Write(c, d, {On(c), call[c].parent})
  BY <1>3
<1> QED BY <1>1, <1>2, <1>4, WriteApart

LEMMA DropOneApart ==
  ASSUME TInv, RowsInv, NEW c \in Client, Outside, DropOne(c), ~Fails(c)
  PROVE  Apart(c) /\ UNCHANGED <<met, cut>> /\ \A i \in Id : i # Hit(c) => Same(i)
<1>0. PICK h : h = Hit(c)
  OBVIOUS
<1>1. UNCHANGED <<met, cut>>
  BY <1>0, DropOneDoes DEF Outside
<1>2. ASSUME NEW i \in Id, i # h PROVE Same(i)
  <2>1. db'.objs[i] = db.objs[i] /\ touched'[i] = touched[i] /\ (i \in db'.parts <=> i \in db.parts)
    BY <1>0, <1>2, DropOneDoes
  <2>2. db'.props = db.props /\ db'.owners = db.owners /\ db'.links = db.links
        /\ \A v : v \in db'.versions <=> v \in db.versions /\ v.model # h
    BY <1>0, DropOneDoes
  <2>3. \A v : v \in VersionsOf(db', i) <=> v \in VersionsOf(db, i)
    BY <1>2, <2>2 DEF VersionsOf
  <2>4. note'[i].kind = note[i].kind /\ note'[i].made = note[i].made /\ note'[i].wants = note[i].wants
        /\ note'[i].gone = note[i].gone
    BY <1>0, <1>2, DropOneDoes
  <2> QED BY <2>1, <2>2, <2>3, <2>4 DEF Same
<1>3. \E d : Write(c, d, {h})
  BY <1>0 DEF DropOne
<1>4. PICK d : Write(c, d, {h})
  BY <1>3
<1>5. \A i \in Id \ {h} : Same(i)
  BY <1>2
<1>6. Apart(c)
  BY <1>1, <1>4, <1>5, WriteApart
<1> QED BY <1>0, <1>1, <1>5, <1>6

LEMMA RenameApart ==
  ASSUME TInv, RowsInv, NEW c \in Client, Outside, Rename(c), ~Fails(c)
  PROVE  Apart(c) /\ UNCHANGED <<met, cut>> /\ \A i \in Id : i # Hit(c) \/ Hit(c) \notin Live(db) => Same(i)
<1>0. PICK h : h = Hit(c)
  OBVIOUS
<1>1. UNCHANGED <<met, cut>>
  BY <1>0, RenameDoes DEF Outside
<1>2. ASSUME NEW i \in Id, i # h \/ h \notin Live(db) PROVE Same(i)
  <2>1. db'.objs[i] = db.objs[i] /\ touched'[i] = touched[i]
    <3>1. CASE h \notin Live(db)
      BY <1>0, <3>1, RenameDoes DEF Unwritten
    <3>2. CASE h \in Live(db)
      BY <1>0, <1>2, <3>2, RenameDoes
    <3> QED BY <3>1, <3>2
  <2>2. Others("objs")
    BY <1>0, RenameDoes
  <2>3. \A v : v \in VersionsOf(db', i) <=> v \in VersionsOf(db, i)
    BY <2>2, VersionsSame DEF Others
  <2>4. note'[i].kind = note[i].kind /\ note'[i].made = note[i].made /\ note'[i].wants = note[i].wants
        /\ note'[i].gone = note[i].gone
    BY <1>2, <1>0, RenameDoes
  <2> QED BY <2>1, <2>2, <2>3, <2>4 DEF Same, Others
<1>3. CASE h \notin Live(db)
  <2>1. Unwritten
    BY <1>3, <1>0, RenameDoes
  <2> QED BY <1>1, <1>2, <2>1, UnwrittenApart
<1>4. CASE h \in Live(db)
  <2>1. \E d : Write(c, d, {h})
    BY <1>0, <1>4 DEF Rename
  <2>2. PICK d : Write(c, d, {h})
    BY <2>1
  <2>3. \A i \in Id \ {h} : Same(i)
    BY <1>2
  <2>4. Apart(c)
    BY <1>1, <2>2, <2>3, WriteApart
  <2> QED BY <1>0, <1>1, <1>2, <2>4
<1> QED BY <1>0, <1>2, <1>3, <1>4

\* Whatever step call c takes, it writes its number on what it changes.
LEMMA StepApart ==
  ASSUME TInv, RowsInv, NEW c \in Client, Look(c) \/ Work(c) \/ Interrupt(c)
  PROVE  Apart(c) /\ UNCHANGED met
<1>1. CASE Look(c) \/ Interrupt(c)
  BY <1>1, ReadsApart
<1>2. CASE Work(c)
  <2>1. Outside /\ UNCHANGED nextId
    BY <1>2 DEF Work
  <2>2. CASE \/ StagedTable(c) \/ FindRoot(c) \/ CheckEmpty(c) \/ ListChildren(c) \/ NextChild(c) \/ ReadPage(c)
             \/ Answer(c) \/ Fails(c)
    BY <2>1, <2>2, ReadsApart
  <2>3. CASE \/ AddParts(c) \/ SetProps(c) \/ LinkChild(c) \/ DropParts(c) \/ DropProps(c) \/ PutVersion(c)
             \/ DropVersion(c) \/ MarkCommitted(c) \/ StageRow(c) \/ SetMax(c)
    BY <2>1, <2>3, HangingApart
  <2>4. CASE GrantOwner(c)
    BY <2>1, <2>4, GrantApart
  <2>5. CASE ~Fails(c) /\ (CreateRow(c) \/ DropOne(c) \/ Rename(c))
    BY <2>1, <2>5, CreateRowApart, DropOneApart, RenameApart
  <2> QED BY <1>2, <2>2, <2>3, <2>4, <2>5 DEF Work
<1> QED BY <1>1, <1>2

\* A step is one of its own call, which stays the same call or is over.
LEMMA StepCall ==
  ASSUME TInv, TInv', NEW c \in Client, Look(c) \/ Work(c) \/ Interrupt(c)
  PROVE  /\ call[c].todo # << >> /\ call[c] # Idle
         /\ \E l : Becomes(c, l) /\ (l = Idle \/ (l.n = call[c].n /\ l.req = call[c].req))
<1>1. /\ call[c].todo # << >>
      /\ \/ Fails(c) \/ (\E more : Proceed(c, more)) \/ call' = [call EXCEPT ![c] = Idle]
         \/ LookCreate(c) \/ LookAddVersion(c) \/ LookList(c) \/ FindRoot(c) \/ ReadPage(c)
  <2>1. CASE Look(c) \/ Interrupt(c)
    BY <2>1 DEF Look, LookDelete, LookRename, LookDropVersion, LookUp, LookCreate, LookAddVersion, LookList, Looks, Doing, Interrupt
  <2>2. CASE Work(c)
    <3>1. CASE \/ StagedTable(c) \/ MarkCommitted(c) \/ StageRow(c) \/ FindRoot(c) \/ CreateRow(c) \/ AddParts(c)
               \/ SetProps(c) \/ GrantOwner(c) \/ LinkChild(c) \/ DropParts(c) \/ DropProps(c) \/ DropOne(c)
      BY <3>1 DEF StagedTable, MarkCommitted, StageRow, FindRoot, CreateRow, AddParts, SetProps, GrantOwner, LinkChild,
         DropParts, DropProps, DropOne, Doing
    <3>2. CASE \/ CheckEmpty(c) \/ ListChildren(c) \/ NextChild(c) \/ Rename(c) \/ PutVersion(c) \/ SetMax(c)
               \/ DropVersion(c) \/ ReadPage(c) \/ Answer(c)
      BY <3>2 DEF CheckEmpty, ListChildren, NextChild, Rename, PutVersion, SetMax, DropVersion, ReadPage, Answer, Doing
    <3> QED BY <2>2, <3>1, <3>2 DEF Work
  <2> QED BY <2>1, <2>2
<1>2. PICK k : k = call[c]
  OBVIOUS
<1>3. k # Idle /\ k \in Call /\ call \in [Client -> Call]
  BY <1>1, <1>2, Working DEF TInv, TypeOK
<1>4. CASE Fails(c) \/ call' = [call EXCEPT ![c] = Idle]
  BY <1>1, <1>2, <1>3, <1>4 DEF Fails, Becomes
<1>5. ASSUME NEW more, Proceed(c, more)
      PROVE  \E l : Becomes(c, l) /\ (l = Idle \/ (l.n = k.n /\ l.req = k.req))
  BY <1>1, <1>2, <1>5, NextOwn DEF Moved
<1>6. ASSUME NEW p, NEW t, call' = [call EXCEPT ![c].parent = p, ![c].todo = t]
      PROVE  \E l : Becomes(c, l) /\ l.n = k.n /\ l.req = k.req
  <2>1. PICK l : l = [k EXCEPT !.parent = p, !.todo = t]
    OBVIOUS
  <2>2. Becomes(c, l)
    BY <1>2, <1>3, <1>6, <2>1 DEF Becomes
  <2>3. l.n = k.n /\ l.req = k.req
    BY <1>3, <2>1 DEF Call
  <2> QED BY <2>2, <2>3
<1>7. CASE LookCreate(c) \/ LookList(c)
  BY <1>1, <1>2, <1>3, <1>4, <1>6, <1>7, ZenonT(60) DEF LookCreate, LookList
<1>8. CASE LookAddVersion(c) /\ ~Fails(c)
  <2>1. PICK t, m : call' = [call EXCEPT ![c].todo = t, ![c].number = m]
    BY <1>8 DEF LookAddVersion
  <2>2. PICK l : l = [k EXCEPT !.todo = t, !.number = m]
    OBVIOUS
  <2>3. Becomes(c, l)
    BY <1>2, <1>3, <2>1, <2>2 DEF Becomes
  <2>4. l.n = k.n /\ l.req = k.req
    BY <1>3, <2>2 DEF Call
  <2> QED BY <1>1, <1>2, <1>3, <2>3, <2>4
<1>9. CASE FindRoot(c) /\ ~Fails(c)
  <2>1. PICK f : call' = [call EXCEPT ![c].from = f, ![c].todo = Tail(@)]
    BY <1>9 DEF FindRoot
  <2>2. PICK l : l = [k EXCEPT !.from = f, !.todo = Tail(@)]
    OBVIOUS
  <2>3. Becomes(c, l)
    BY <1>2, <1>3, <2>1, <2>2 DEF Becomes
  <2>4. l.n = k.n /\ l.req = k.req
    BY <1>3, <2>2 DEF Call
  <2> QED BY <1>1, <1>2, <1>3, <2>3, <2>4
<1>10. CASE ReadPage(c)
  <2>1. PICK s, w, a, t : call' = [call EXCEPT ![c].seen = @ \cup s, ![c].twice = @ \cup w, ![c].after = a, ![c].todo = t]
    BY <1>10 DEF ReadPage
  <2>2. PICK l : l = [k EXCEPT !.seen = @ \cup s, !.twice = @ \cup w, !.after = a, !.todo = t]
    OBVIOUS
  <2>3. Becomes(c, l)
    BY <1>2, <1>3, <2>1, <2>2 DEF Becomes
  <2>4. l.n = k.n /\ l.req = k.req
    BY <1>3, <2>2 DEF Call
  <2> QED BY <1>1, <1>2, <1>3, <2>3, <2>4
<1> QED BY <1>1, <1>2, <1>3, <1>4, <1>5, <1>7, <1>8, <1>9, <1>10

KindsStay == \A i \in Id : note[i].kind # "none" => note'[i].kind = note[i].kind

LEMMA StepKinds == ASSUME TInv, RowsInv, NEW c \in Client, Look(c) \/ Work(c) \/ Interrupt(c) PROVE KindsStay
<1>1. CASE Unwritten
  BY <1>1 DEF Unwritten, KindsStay
<1>2. CASE Work(c) /\ ~Unwritten
  <2>0. ~Fails(c) /\ Outside
    BY <1>2 DEF Fails, Work
  <2>1. CASE CreateRow(c)
    <3>1. /\ \A i \in Id \ {On(c)} : note'[i] = note[i]
          /\ note'[On(c)].kind = Req(c).kind
          /\ note[On(c)].kind \in {"none", "table"} /\ (note[On(c)].kind = "table" => Req(c).kind = "table")
      BY <2>0, <2>1, CreateRowDoes DEF Req
    <3> QED BY <3>1 DEF KindsStay
  <2>2. CASE DropOne(c) \/ Rename(c)
    BY <2>0, <2>2, DropOneDoes, RenameDoes DEF KindsStay
  <2>3. CASE GrantOwner(c)
    BY <2>3, GrantDoes DEF KindsStay
  <2>4. CASE \/ AddParts(c) \/ SetProps(c) \/ LinkChild(c) \/ DropParts(c) \/ DropProps(c) \/ PutVersion(c)
             \/ DropVersion(c) \/ MarkCommitted(c) \/ StageRow(c) \/ SetMax(c)
    BY <2>4, HangingStill DEF KindsStay, Still
  <2>5. CASE \/ StagedTable(c) \/ FindRoot(c) \/ CheckEmpty(c) \/ ListChildren(c) \/ NextChild(c) \/ ReadPage(c) \/ Answer(c)
    BY <1>2, <2>0, <2>5, ReadsApart
  <2> QED BY <1>2, <2>1, <2>2, <2>3, <2>4, <2>5 DEF Work
<1> QED BY <1>1, <1>2, ReadsApart

-----------------------------------------------------------------------------
(* Versions                                                                *)

\* What VersionsInOrder says of the versions of model i.
Good(i) ==
  \A v \in VersionsOf(db, i) :
    /\ i \in Live(db) /\ v.number <= db.objs[i].max
    /\ \A w \in VersionsOf(db, i) : w.number = v.number => w = v

\* All that is left to do is to set the greatest number.
Maxing(k, i) == Len(k.todo) = 1 /\ k.todo[1] = <<"max", i>>

\* The version is there, one above the greatest number.
Numbered(k, i) ==
  /\ i \in Live(db) /\ k.number = db.objs[i].max + 1
  /\ \A v \in VersionsOf(db, i) : v.number <= k.number /\ \A w \in VersionsOf(db, i) : w.number = v.number => w = v

\* A call that has read the greatest number works with it, unless another one
\* has written about the model since.
NumberOK(k) ==
  k.req.op = "addVersion" /\ k.todo # <<>> =>
    \/ k.todo[1][1] = "look"
    \/ \E i \in Id :
         /\ note[i].kind = "model"
         /\ \/ /\ Len(k.todo) = 2 /\ k.todo[1] = <<"version", i>> /\ k.todo[2] = <<"max", i>>
               /\ Open(k.n, i) \/ (i \in Live(db) /\ k.number = db.objs[i].max + 1)
            \/ Maxing(k, i) /\ k.n \in touched[i] /\ (Open(k.n, i) \/ Numbered(k, i))

VersInv ==
  /\ \A v \in db.versions : note[v.model].kind = "model"
  /\ \A i \in Id : Broken(i) \/ Good(i) \/ \E c \in Client : Maxing(call[c], i) /\ call[c].n \in touched[i]
  /\ \A c \in Client : \A k \in {call[c]} : NumberOK(k)

LEMMA NumberKept ==
  ASSUME TInv, RowsInv, NEW c \in Client, NEW d \in Client, c # d, call[c] # Idle, Apart(c), KindsStay,
         NEW k, k = call[d], NumberOK(k)
  PROVE  NumberOK(k)'
<1> SUFFICES ASSUME k.req.op = "addVersion", k.todo # <<>>, k.todo[1][1] # "look" PROVE NumberOK(k)'
  BY DEF NumberOK
<1>1. PICK i \in Id :
         /\ note[i].kind = "model"
         /\ \/ /\ Len(k.todo) = 2 /\ k.todo[1] = <<"version", i>> /\ k.todo[2] = <<"max", i>>
               /\ Open(k.n, i) \/ (i \in Live(db) /\ k.number = db.objs[i].max + 1)
            \/ Maxing(k, i) /\ k.n \in touched[i] /\ (Open(k.n, i) \/ Numbered(k, i))
  BY DEF NumberOK
<1>2. k # Idle /\ note'[i].kind = "model"
  BY <1>1, IdleCall DEF KindsStay
<1>3. PICK n : n = k.n
  OBVIOUS
<1>4. (Open(n, i) => Open(n, i)') /\ touched[i] \subseteq touched'[i]
  BY OpenStays DEF Apart
<1>5. CASE Same(i)
  <2>1. db'.objs[i] = db.objs[i] /\ (i \in Live(db') <=> i \in Live(db))
        /\ \A v : v \in VersionsOf(db', i) <=> v \in VersionsOf(db, i)
    BY <1>5, LiveIs DEF Same
  <2>2. Numbered(k, i) => Numbered(k, i)'
    BY <2>1 DEF Numbered
  <2>3. Maxing(k, i) => Maxing(k, i)'
    BY DEF Maxing
  <2>4. Open(k.n, i) => Open(k.n, i)'
    BY <1>3, <1>4
  <2> QED BY <1>1, <1>2, <1>4, <2>1, <2>2, <2>3, <2>4 DEF NumberOK
<1>6. CASE ~Same(i)
  <2>1. Open(n, i)'
    BY <1>2, <1>3, <1>6, OthersLose
  <2>2. Open(k.n, i)'
    BY <1>3, <2>1
  <2>3. Maxing(k, i) => Maxing(k, i)'
    BY DEF Maxing
  <2> QED BY <1>1, <1>2, <1>4, <2>2, <2>3 DEF NumberOK
<1> QED BY <1>5, <1>6

\* What the steps of calls that add no versions do to a model.
Milder(i) ==
  \A v \in VersionsOf(db', i) :
    v \in VersionsOf(db, i) /\ (i \in Live(db) => i \in Live(db') /\ db'.objs[i].max = db.objs[i].max)

LEMMA MilderIs ==
  ASSUME NEW i \in Id
  PROVE  /\ Same(i) => Milder(i)
         /\ Milder(i) /\ Good(i) => Good(i)'
<1>1. ASSUME Same(i) PROVE Milder(i)
  BY <1>1, LiveIs DEF Same, Milder
<1>2. ASSUME Milder(i), Good(i) PROVE Good(i)'
  BY <1>2 DEF Milder, Good
<1> QED BY <1>1, <1>2

LEMMA VersKept ==
  ASSUME TInv, RowsInv, VersInv, NEW c \in Client, call[c] # Idle, Apart(c), KindsStay, NEW l, Becomes(c, l), NumberOK(l)',
         \A v \in db'.versions : note'[v.model].kind = "model",
         \A i \in Id : \/ Broken(i)' \/ Good(i)'
                       \/ (Milder(i) /\ ~Maxing(call[c], i))
                       \/ Maxing(l, i)' /\ l.n \in touched'[i]
  PROVE  VersInv'
<1>1. call'[c] = l /\ \A d \in Client \ {c} : call'[d] = call[d]
  BY DEF Becomes, TInv, TypeOK
<1>2. ASSUME NEW d \in Client, NEW k, k = call'[d] PROVE NumberOK(k)'
  <2>1. CASE d = c
    BY <1>1, <1>2, <2>1
  <2>2. CASE d # c
    <3>1. k = call[d] /\ NumberOK(k)
      BY <1>1, <1>2, <2>2 DEF VersInv
    <3> QED BY <2>2, <3>1, NumberKept
  <2> QED BY <2>1, <2>2
<1>3. ASSUME NEW i \in Id
      PROVE  Broken(i)' \/ Good(i)' \/ \E d \in Client : Maxing(call'[d], i) /\ call'[d].n \in touched'[i]
  <2>1. CASE Maxing(l, i)' /\ l.n \in touched'[i]
    BY <1>1, <2>1 DEF Maxing
  <2>2. CASE Milder(i) /\ ~Maxing(call[c], i)
    <3>1. CASE Broken(i) \/ Good(i)
      BY <2>2, <3>1, OpenStays, MilderIs
    <3>2. ASSUME NEW d \in Client, Maxing(call[d], i), call[d].n \in touched[i]
          PROVE  \E e \in Client : Maxing(call'[e], i) /\ call'[e].n \in touched'[i]
      <4>1. d # c /\ touched[i] \subseteq touched'[i]
        BY <2>2, <3>2 DEF Apart
      <4> QED BY <1>1, <3>2, <4>1
    <3> QED BY <3>1, <3>2 DEF VersInv
  <2> QED BY <1>3, <2>1, <2>2
<1> QED BY <1>2, <1>3, ZenonT(60) DEF VersInv, Maxing

LEMMA NotEmpty ==
  ASSUME NEW s, Len(s) # 0
  PROVE  s # << >>
<1>1. s = << >> => Len(s) = 0
  OBVIOUS
<1> QED BY <1>1, Zenon

LEMMA MildSteps ==
  ASSUME TInv, RowsInv, VersInv, NEW c \in Client, Look(c) \/ Work(c) \/ Interrupt(c), ~PutVersion(c), ~SetMax(c)
  PROVE  /\ \A v \in db'.versions : v \in db.versions
         /\ \A i \in Id : Milder(i)
<1>1. CASE Unwritten
  BY <1>1, UnwrittenApart, LiveIs DEF Unwritten, Milder
<1>2. CASE Work(c) /\ ~Unwritten
  <2>0. ~Fails(c) /\ Outside
    BY <1>2 DEF Fails, Work
  <2>1. CASE CreateRow(c)
    <3>1. /\ \A i \in Id \ {On(c)} : db'.objs[i] = db.objs[i]
          /\ note[On(c)].kind \in {"none", "table"} /\ Others("objs")
      BY <2>0, <2>1, CreateRowDoes
    <3>2. db'.versions = db.versions
      BY <3>1 DEF Others
    <3>3. ASSUME NEW i \in Id PROVE Milder(i)
      <4>1. CASE i = On(c)
        BY <3>1, <3>2, <4>1 DEF VersInv, Milder, VersionsOf
      <4>2. CASE i # On(c)
        BY <3>1, <3>2, <4>2, VersionsSame, LiveIs DEF Milder
      <4> QED BY <4>1, <4>2
    <3> QED BY <3>2, <3>3
  <2>2. CASE DropOne(c)
    <3>1. PICK h : h = Hit(c)
      OBVIOUS
    <3>2. /\ \A x \in Id \ {h} : db'.objs[x] = db.objs[x]
          /\ \A v : v \in db'.versions <=> v \in db.versions /\ v.model # h
      BY <2>0, <2>2, <3>1, DropOneDoes
    <3> QED BY <3>2, LiveIs DEF Milder, VersionsOf
  <2>3. CASE Rename(c)
    <3>1. PICK h : h = Hit(c)
      OBVIOUS
    <3>2. /\ \A x \in Id : x # h \/ h \notin Live(db) => db'.objs[x] = db.objs[x]
          /\ h \in Live(db) => db'.objs[h].max = db.objs[h].max
          /\ Live(db') = Live(db) /\ Others("objs")
      BY <2>0, <2>3, <3>1, RenameDoes
    <3>3. db'.versions = db.versions
      BY <3>2 DEF Others
    <3> QED BY <3>2, <3>3, VersionsSame DEF Milder
  <2>4. CASE DropVersion(c)
    <3>1. db'.objs = db.objs /\ \A v \in db'.versions : v \in db.versions
      BY <2>4, HangingDoes DEF Others
    <3> QED BY <3>1, LiveIs DEF Milder, VersionsOf
  <2>5. CASE \/ AddParts(c) \/ SetProps(c) \/ LinkChild(c) \/ DropParts(c) \/ DropProps(c)
             \/ MarkCommitted(c) \/ StageRow(c) \/ GrantOwner(c)
    <3>1. db'.objs = db.objs /\ db'.versions = db.versions
      BY <2>5, HangingDoes, GrantDoes DEF Others
    <3> QED BY <3>1, LiveIs, VersionsSame DEF Milder
  <2>6. CASE \/ StagedTable(c) \/ FindRoot(c) \/ CheckEmpty(c) \/ ListChildren(c) \/ NextChild(c) \/ ReadPage(c) \/ Answer(c)
    BY <1>2, <2>0, <2>6, ReadsApart
  <2> QED BY <1>2, <2>1, <2>2, <2>3, <2>4, <2>5, <2>6 DEF Work
<1> QED BY <1>1, <1>2, ReadsApart

\* A call that is to set the greatest number has written the version.
LEMMA MaxingIs ==
  ASSUME TInv, VersInv, NEW c \in Client, NEW i \in Id, Maxing(call[c], i)
  PROVE  Doing(c, "max") /\ On(c) = i /\ call[c].n \in touched[i] /\ (Open(call[c].n, i) \/ Numbered(call[c], i))
<1>1. PICK k : k = call[c]
  OBVIOUS
<1>2. k.todo # << >>
  <2>1. k \in Call
    BY <1>1 DEF TInv, TypeOK
  <2>2. PICK s \in Seq(Step) : s = k.todo /\ Len(s) = 1
    BY <1>1, <2>1 DEF Maxing, Call
  <2>3. s # << >>
    <3>1. Len(s) # 0
      BY <2>2
    <3> QED BY <3>1, NotEmpty
  <2> QED BY <2>2, <2>3
<1>3. Head(k.todo) = k.todo[1] /\ k.todo[1] = <<"max", i>>
  BY <1>1, <1>2, Working DEF Maxing
<1>4. Doing(c, "max") /\ On(c) = i
  BY <1>1, <1>2, <1>3 DEF Doing, On
<1>5. k.req.op = "addVersion" /\ NumberOK(k)
  BY <1>1, <1>4, OpOf DEF Req, VersInv
<1>6. k.todo[1][1] = "max" /\ k.todo[1][2] = i
  BY <1>3
<1>7. PICK x \in Id : \/ k.todo[1] = <<"version", x>>
                      \/ Maxing(k, x) /\ k.n \in touched[x] /\ (Open(k.n, x) \/ Numbered(k, x))
  BY <1>2, <1>5, <1>6 DEF NumberOK
<1>8. k.todo[1] # <<"version", x>>
  BY <1>6
<1>9. x = i
  BY <1>6, <1>7, <1>8 DEF Maxing
<1> QED BY <1>1, <1>4, <1>7, <1>8, <1>9

LEMMA FailsVers ==
  ASSUME TInv, TInv', RowsInv, VersInv, NEW c \in Client, Look(c) \/ Work(c) \/ Interrupt(c), Fails(c)
  PROVE  VersInv'
<1>1. Apart(c) /\ KindsStay /\ call[c] # Idle
  BY StepApart, StepKinds, StepCall
<1>2. Becomes(c, Idle) /\ Unwritten /\ call[c].n \in cut'
  BY DEF Fails, Becomes
<1>3. NumberOK(Idle)'
  BY IdleCall DEF NumberOK
<1>4. ASSUME NEW i \in Id PROVE Broken(i)' \/ (Milder(i) /\ ~Maxing(call[c], i))
  <2>1. Milder(i)
    BY <1>2, UnwrittenApart, LiveIs DEF Unwritten, Milder
  <2>2. Maxing(call[c], i) => call[c].n \in touched'[i]
    BY <1>2, MaxingIs DEF Unwritten
  <2> QED BY <1>2, <2>1, <2>2 DEF Broken
<1>5. \A v \in db'.versions : note'[v.model].kind = "model"
  BY <1>2 DEF Unwritten, VersInv
<1> QED BY <1>1, <1>2, <1>3, <1>4, <1>5, VersKept

LEMMA OtherVers ==
  ASSUME TInv, TInv', RowsInv, VersInv, NEW c \in Client, Look(c) \/ Work(c), ~Fails(c),
         ~LookAddVersion(c), ~PutVersion(c), ~SetMax(c)
  PROVE  VersInv'
<1>1. Apart(c) /\ KindsStay /\ call[c] # Idle
  BY StepApart, StepKinds, StepCall
<1>2. PICK l : Becomes(c, l) /\ (l = Idle \/ (l.n = call[c].n /\ l.req = call[c].req))
  BY StepCall
<1>3. Req(c).op # "addVersion" /\ ~Doing(c, "max")
  <2>1. CASE Look(c)
    BY <2>1 DEF Look, LookDelete, LookRename, LookDropVersion, LookUp, LookCreate, LookList, Looks, Doing
  <2>2. CASE Work(c)
    <3>1. PICK what \in {"staged", "mark", "stageRow", "root", "row", "parts", "props", "grant", "link", "dropParts",
                         "dropProps", "dropRow", "empty", "list", "each", "rename", "dropVersion", "page", "answer"} : Doing(c, what)
      BY <2>2 DEF Work, StagedTable, MarkCommitted, StageRow, FindRoot, CreateRow, AddParts, SetProps, GrantOwner, LinkChild,
         DropParts, DropProps, DropOne, CheckEmpty, ListChildren, NextChild, Rename, DropVersion, ReadPage, Answer
    <3> QED BY <3>1, OpOf DEF DropStep, Doing
  <2> QED BY <2>1, <2>2
<1>4. NumberOK(l)'
  BY <1>2, <1>3, IdleCall DEF NumberOK, Req
<1>5. (\A v \in db'.versions : v \in db.versions) /\ \A i \in Id : Milder(i)
  BY MildSteps
<1>6. \A v \in db'.versions : note'[v.model].kind = "model"
  <2>1. \A v \in db.versions : v.model \in Id /\ note[v.model].kind = "model"
    BY DEF VersInv, TInv, TypeOK, Database, Version
  <2> QED BY <1>1, <1>5, <2>1 DEF KindsStay
<1>7. \A i \in Id : ~Maxing(call[c], i)
  BY <1>3, MaxingIs
<1> QED BY <1>1, <1>2, <1>4, <1>5, <1>6, <1>7, VersKept

LEMMA AddVersionVers ==
  ASSUME TInv, TInv', RowsInv, VersInv, NEW c \in Client, LookAddVersion(c), ~Fails(c)
  PROVE  VersInv'
<1>0. Look(c)
  BY DEF Look
<1>1. Apart(c) /\ KindsStay /\ call[c] # Idle /\ Unwritten
  BY <1>0, StepApart, StepKinds, StepCall, ReadsApart
<1>2. PICK k, i : k = call[c] /\ i = FindPath(db, "model", k.req.path)
  OBVIOUS
<1>3. /\ i # None /\ Doing(c, "look")
      /\ call' = [call EXCEPT ![c].todo = << <<"version", i>>, <<"max", i>> >>, ![c].number = db.objs[i].max + 1]
  BY <1>2 DEF LookAddVersion, Looks, Req
<1>4. i \in Live(db) /\ db.objs[i].kind = "model" /\ i \in Id
  BY <1>2, <1>3, FindPathIs, LiveIs DEF Kinds, Leaves
<1>5. note'[i].kind = "model"
  BY <1>1, <1>4 DEF RowsInv, RowOK, Unwritten
<1>6. PICK t : t = << <<"version", i>>, <<"max", i>> >>
  OBVIOUS
<1>7. Len(t) = 2 /\ t[1] = <<"version", i>> /\ t[2] = <<"max", i>>
  BY <1>6
<1>8. PICK l : l = [k EXCEPT !.todo = t, !.number = db.objs[i].max + 1]
  OBVIOUS
<1>9. k \in Call /\ call \in [Client -> Call]
  BY <1>2 DEF TInv, TypeOK
<1>10. Becomes(c, l)
  BY <1>2, <1>3, <1>6, <1>8, <1>9 DEF Becomes
<1>11. l.todo = t /\ l.number = db.objs[i].max + 1
  BY <1>8, <1>9 DEF Call
<1>12. i \in Live(db') /\ l.number = db'.objs[i].max + 1
  BY <1>1, <1>4, <1>11 DEF Unwritten
<1>13. NumberOK(l)'
  BY <1>4, <1>5, <1>7, <1>11, <1>12 DEF NumberOK
<1>14. \A x \in Id : Milder(x)
  BY <1>1, UnwrittenApart, LiveIs DEF Unwritten, Milder
<1>15. \A x \in Id : ~Maxing(call[c], x)
  BY <1>3, MaxingIs DEF Doing
<1>16. \A v \in db'.versions : note'[v.model].kind = "model"
  BY <1>1 DEF Unwritten, VersInv
<1> QED BY <1>1, <1>10, <1>13, <1>14, <1>15, <1>16, VersKept

LEMMA PutVersionVers ==
  ASSUME TInv, TInv', RowsInv, VersInv, NEW c \in Client, PutVersion(c), Outside
  PROVE  VersInv'
<1>1. Apart(c) /\ UNCHANGED <<met, cut>> /\ Proceed(c, << >>) /\ On(c) \in Id /\ call[c].n \in touched'[On(c)]
      /\ \A x \in Id \ {On(c)} : Same(x)
  BY HangingApart
<1>2. PICK k, i : k = call[c] /\ i = On(c)
  OBVIOUS
<1>3. /\ k.todo # << >> /\ k.todo[1][1] = "version" /\ k.todo[1][2] = i /\ k # Idle /\ k \in Call /\ k.todo \in Seq(Step)
      /\ k.req.op = "addVersion" /\ NumberOK(k) /\ Busy(k)
  <2>1. Doing(c, "version")
    BY DEF PutVersion
  <2> QED BY <1>2, <2>1, HeadOK, Working, OpOf DEF Req, VersInv, Busy
<1>4. KindsStay /\ note' = note
  BY HangingDoes DEF KindsStay
<1>5. /\ note[i].kind = "model" /\ Len(k.todo) = 2 /\ k.todo[2] = <<"max", i>>
      /\ Open(k.n, i) \/ (i \in Live(db) /\ k.number = db.objs[i].max + 1)
  <2>1. PICK x \in Id :
         /\ note[x].kind = "model"
         /\ \/ /\ Len(k.todo) = 2 /\ k.todo[1] = <<"version", x>> /\ k.todo[2] = <<"max", x>>
               /\ Open(k.n, x) \/ (x \in Live(db) /\ k.number = db.objs[x].max + 1)
            \/ Maxing(k, x) /\ k.n \in touched[x] /\ (Open(k.n, x) \/ Numbered(k, x))
    BY <1>3 DEF NumberOK
  <2>2. k.todo[1] # <<"max", x>>
    BY <1>3
  <2>3. x = i
    BY <1>3, <2>1, <2>2 DEF Maxing
  <2> QED BY <2>1, <2>2, <2>3 DEF Maxing
<1>6. PICK t : t = << >> \o Tail(k.todo)
  OBVIOUS
<1>7. Len(t) = 1 /\ t[1] = <<"max", i>> /\ t # << >>
  <2>1. PICK s \in Seq(Step) : s = k.todo /\ Len(s) = 2 /\ s[2] = <<"max", i>>
    BY <1>3, <1>5
  <2>2. PICK u : u = Tail(s)
    OBVIOUS
  <2>3. u \in Seq(Step) /\ Len(u) = 1 /\ u[1] = s[2]
    <3> HIDE DEF Step
    <3> QED BY <2>1, <2>2
  <2>4. t = u
    BY <1>6, <2>1, <2>2, <2>3
  <2>5. t # << >>
    <3>1. Len(t) = 1
      BY ONLY <2>3, <2>4
    <3>2. Len(t) # 0
      BY ONLY <3>1
    <3> QED BY <3>2, NotEmpty
  <2> QED BY <2>1, <2>3, <2>4, <2>5
<1>8. PICK l : l = [k EXCEPT !.todo = t]
  OBVIOUS
<1>9. Becomes(c, l)
  <2>1. Becomes(c, Done(k, << >>))
    BY <1>1, <1>2, ProceedIs
  <2> QED BY <1>6, <1>7, <1>8, <2>1 DEF Done
<1>10. l.todo = t /\ l.n = k.n /\ l.number = k.number
  BY <1>3, <1>8 DEF Call
<1>11. PICK new : new = [model |-> i, number |-> k.number, by |-> k.n]
  OBVIOUS
<1>12. db'.objs = db.objs /\ db'.versions = db.versions \cup {new} /\ new.model = i /\ new.number = k.number
  BY <1>2, <1>11, HangingDoes DEF Others
<1>13. Live(db') = Live(db)
  BY <1>12 DEF Live
<1>14. ASSUME NEW n, n = k.n PROVE Open(n, i)' \/ Numbered(l, i)'
  <2> SUFFICES ASSUME ~Open(n, i)' PROVE Numbered(l, i)'
    OBVIOUS
  <2>1. ~Open(n, i)
    BY <1>1, <1>2, OpenStays
  <2>2. i \in Live(db) /\ k.number = db.objs[i].max + 1
    BY <1>5, <1>14, <2>1
  <2>3. Good(i)
    <3>1. ~Broken(i)
      BY <2>1 DEF Open
    <3>2. ASSUME NEW d \in Client, Maxing(call[d], i), call[d].n \in touched[i] PROVE FALSE
      <4>1. d # c
        BY <1>2, <1>5, <3>2 DEF Maxing
      <4> QED BY <1>1, <1>2, <1>3, <1>14, <2>1, <3>2, <4>1, LostToOthers
    <3> QED BY <1>1, <1>2, <3>1, <3>2 DEF VersInv
  <2>4. db.objs[i].max \in Nat /\ \A v \in db.versions : v.number \in Nat
    <3>1. db \in Database /\ i \in Id
      BY <1>1, <1>2 DEF TInv, TypeOK
    <3>2. db.objs[i] \in Object
      BY <2>2, <3>1, LiveIs DEF Database
    <3>3. MaxVersion \in Nat
      BY ObjectsAssumption
    <3>4. \A v \in db.versions : v.number \in 1..MaxVersion
      BY <3>1 DEF Database, Version
    <3>5. db.objs[i].max \in 0..MaxVersion
      BY <3>2 DEF Object
    <3> QED BY <3>3, <3>4, <3>5
  <2>5. \A v \in VersionsOf(db', i) : v = new \/ (v \in VersionsOf(db, i) /\ v.number < k.number /\ v.number \in Nat)
    BY <1>12, <2>2, <2>3, <2>4 DEF VersionsOf, Good
  <2>6. ASSUME NEW v \in VersionsOf(db', i), NEW w \in VersionsOf(db', i), w.number = v.number PROVE w = v
    <3>1. k.number \in Nat
      BY <2>2, <2>4
    <3> QED BY <1>12, <2>3, <2>5, <2>6, <3>1 DEF Good
  <2>7. \A v \in VersionsOf(db', i) : v.number <= k.number
    <3>1. k.number \in Nat
      BY <2>2, <2>4
    <3> QED BY <1>12, <2>5, <3>1
  <2> QED BY <1>10, <1>12, <1>13, <2>2, <2>6, <2>7 DEF Numbered
<1>15. Maxing(l, i)' /\ l.n \in touched'[i]
  BY <1>1, <1>2, <1>7, <1>10 DEF Maxing
<1>16. NumberOK(l)'
  <2>1. Open(l.n, i)' \/ Numbered(l, i)'
    BY <1>10, <1>14
  <2> QED BY <1>1, <1>2, <1>4, <1>5, <1>15, <2>1 DEF NumberOK
<1>17. \A x \in Id : x # i => Milder(x) /\ ~Maxing(k, x)
  BY <1>1, <1>2, <1>5, MilderIs DEF Maxing
<1>18. \A v \in db'.versions : note'[v.model].kind = "model"
  BY <1>4, <1>5, <1>12 DEF VersInv
<1> QED BY <1>1, <1>2, <1>3, <1>4, <1>9, <1>15, <1>16, <1>17, <1>18, VersKept

LEMMA SetMaxVers ==
  ASSUME TInv, TInv', RowsInv, KinInv, VersInv, NEW c \in Client, SetMax(c), Outside
  PROVE  VersInv'
<1>1. Apart(c) /\ UNCHANGED <<met, cut>> /\ Proceed(c, << >>) /\ On(c) \in Id /\ call[c].n \in touched'[On(c)]
      /\ \A x \in Id \ {On(c)} : Same(x)
  BY HangingApart
<1>2. PICK k, i : k = call[c] /\ i = On(c)
  OBVIOUS
<1>3. /\ k.todo # << >> /\ k.todo[1][1] = "max" /\ k.todo[1][2] = i /\ k # Idle /\ k \in Call /\ k.todo \in Seq(Step)
      /\ k.req.op = "addVersion" /\ NumberOK(k) /\ Busy(k)
  <2>1. Doing(c, "max")
    BY DEF SetMax
  <2> QED BY <1>2, <2>1, HeadOK, Working, OpOf DEF Req, VersInv, Busy
<1>4. KindsStay /\ note' = note
  BY SetMaxDoes DEF KindsStay
<1>5. Maxing(k, i) /\ k.n \in touched[i] /\ (Open(k.n, i) \/ Numbered(k, i))
  <2>1. PICK x \in Id : \/ k.todo[1] = <<"version", x>>
                        \/ Maxing(k, x) /\ k.n \in touched[x] /\ (Open(k.n, x) \/ Numbered(k, x))
    BY <1>3 DEF NumberOK
  <2>2. k.todo[1] # <<"version", x>>
    BY <1>3
  <2>3. x = i
    BY <1>3, <2>1, <2>2 DEF Maxing
  <2> QED BY <2>1, <2>2, <2>3
<1>6. Becomes(c, Idle)
  <2>1. Becomes(c, Done(k, << >>))
    BY <1>1, <1>2, ProceedIs
  <2>2. << >> \o Tail(k.todo) = << >>
    <3>1. PICK s \in Seq(Step) : s = k.todo /\ Len(s) = 1
      BY <1>3, <1>5 DEF Maxing
    <3>2. PICK u : u = Tail(s)
      OBVIOUS
    <3>3. u \in Seq(Step) /\ Len(u) = 0
      <4> HIDE DEF Step
      <4> QED BY <3>1, <3>2, SMTT(30)
    <3>4. u = << >>
      <4> HIDE DEF Step
      <4> QED BY <3>3
    <3> QED BY <3>1, <3>2, <3>4
  <2> QED BY <2>1, <2>2 DEF Done
<1>7. NumberOK(Idle)'
  BY IdleCall DEF NumberOK
<1>8. db'.versions = db.versions /\ Live(db') = Live(db)
  BY SetMaxDoes DEF Others
<1>9. Broken(i)' \/ Good(i)'
  <2>1. CASE Open(k.n, i)
    BY <1>1, <1>2, <1>5, <2>1, OpenBreaks, OpenStays
  <2>2. CASE Numbered(k, i)
    <3>1. PICK old : old = db.objs[i]
      OBVIOUS
    <3>2. db'.objs[i] = [old EXCEPT !.max = k.number] /\ old \in Object
      BY <1>2, <2>2, <3>1, SetMaxDoes DEF Numbered
    <3>3. db'.objs[i].max = k.number
      BY <3>2 DEF Object
    <3>4. \A v : v \in VersionsOf(db', i) <=> v \in VersionsOf(db, i)
      BY <1>8, VersionsSame
    <3> QED BY <1>8, <2>2, <3>3, <3>4 DEF Good, Numbered
  <2> QED BY <1>5, <2>1, <2>2
<1>10. \A x \in Id : x # i => Milder(x) /\ ~Maxing(k, x)
  <2>1. \A x \in Id : x # i => ~Maxing(k, x)
    BY <1>3 DEF Maxing
  <2> QED BY <1>1, <1>2, <2>1, MilderIs
<1>11. \A v \in db'.versions : note'[v.model].kind = "model"
  BY <1>4, <1>8 DEF VersInv
<1> QED BY <1>1, <1>2, <1>3, <1>4, <1>6, <1>7, <1>9, <1>10, <1>11, VersKept

\* Numbers and models are what they were when nothing is written.
LEMMA IdleVers ==
  ASSUME VersInv, Unwritten, met \subseteq met', cut \subseteq cut'
  PROVE  /\ \A v \in db'.versions : note'[v.model].kind = "model"
         /\ \A c \in Client : \A k \in {call[c]} : NumberOK(k)'
         /\ \A i \in Id : \/ Broken(i)' \/ Good(i)' \/ \E c \in Client : Maxing(call[c], i) /\ call[c].n \in touched'[i]
<1>1. PICK x : Apart(x)
  BY UnwrittenApart
<1>2. \A i \in Id : (Broken(i) => Broken(i)') /\ \A n : Open(n, i) => Open(n, i)'
  BY <1>1, OpenStays
<1>3. db' = db /\ note' = note /\ touched' = touched
  BY DEF Unwritten
<1>4. \A i \in Id : Good(i) => Good(i)'
  BY <1>3 DEF Good
<1>5. ASSUME NEW c \in Client, NEW k, k = call[c] PROVE NumberOK(k)'
  <2>1. NumberOK(k)
    BY <1>5 DEF VersInv
  <2>2. \A i : Maxing(k, i) => Maxing(k, i)'
    BY DEF Maxing
  <2>3. \A i : Numbered(k, i) => Numbered(k, i)'
    BY <1>3 DEF Numbered
  <2>4. \A i \in Id : Open(k.n, i) => Open(k.n, i)'
    BY <1>2
  <2>5. \A i : i \in Live(db) /\ k.number = db.objs[i].max + 1 => i \in Live(db') /\ k.number = db'.objs[i].max + 1
    BY <1>3
  <2>6. SUFFICES ASSUME k.req.op = "addVersion", k.todo # << >>, k.todo[1][1] # "look" PROVE NumberOK(k)'
    BY DEF NumberOK
  <2>7. PICK i \in Id :
         /\ note[i].kind = "model"
         /\ \/ /\ Len(k.todo) = 2 /\ k.todo[1] = <<"version", i>> /\ k.todo[2] = <<"max", i>>
               /\ Open(k.n, i) \/ (i \in Live(db) /\ k.number = db.objs[i].max + 1)
            \/ Maxing(k, i) /\ k.n \in touched[i] /\ (Open(k.n, i) \/ Numbered(k, i))
    BY <2>1, <2>6 DEF NumberOK
  <2> QED BY <1>3, <2>2, <2>3, <2>4, <2>5, <2>7 DEF NumberOK
<1> QED BY <1>2, <1>3, <1>4, <1>5 DEF VersInv

LEMMA BeginVers == ASSUME TInv, TInv', VersInv, NEW c \in Client, Begin(c) PROVE VersInv'
<1>1. begun + 1 \in Ordinal
  BY ObjectsAssumption DEF TInv, TypeOK, Begin, Ordinal
<1>2. PICK req \in Requests :
        call' = [call EXCEPT ![c] = [Idle EXCEPT !.n = begun + 1, !.req = req, !.todo = << <<"look", None>> >>]]
  BY DEF Begin
<1>3. PICK l : l = Newcomer(begun + 1, req)
  OBVIOUS
<1>4. l.todo[1] = <<"look", None>>
  BY <1>1, <1>3, NewcomerTyped
<1>5. call'[c] = l /\ \A d \in Client : d # c => call'[d] = call[d]
  BY <1>2, <1>3 DEF Newcomer, TInv, TypeOK
<1>6. Unwritten /\ met \subseteq met' /\ cut \subseteq cut'
  BY DEF Begin
<1>7. NumberOK(l)'
  BY <1>4 DEF NumberOK
<1>8. ASSUME NEW d \in Client, NEW k, k = call'[d] PROVE NumberOK(k)'
  <2>1. CASE d = c
    BY <1>5, <1>7, <1>8, <2>1
  <2>2. CASE d # c
    BY <1>5, <1>6, <1>8, <2>2, IdleVers
  <2> QED BY <2>1, <2>2
<1>9. ASSUME NEW i \in Id, ~(Broken(i)' \/ Good(i)')
      PROVE  \E d \in Client : Maxing(call'[d], i) /\ call'[d].n \in touched'[i]
  <2>1. PICK d \in Client : Maxing(call[d], i) /\ call[d].n \in touched'[i]
    BY <1>6, <1>9, IdleVers
  <2>2. d # c
    <3>1. call[c] = Idle /\ Idle.todo = << >>
      BY IdleCall DEF Begin
    <3>2. Len(Idle.todo) = 0
      BY <3>1
    <3>3. Len(Idle.todo) # 1
      BY <3>2
    <3> QED BY <2>1, <3>1, <3>3 DEF Maxing
  <2> QED BY <1>5, <2>1, <2>2
<1>10. \A v \in db'.versions : note'[v.model].kind = "model"
  BY <1>6, IdleVers
<1> QED BY <1>8, <1>9, <1>10, ZenonT(60) DEF VersInv, Maxing

LEMMA NextVers == TInv /\ TInv' /\ RowsInv /\ KinInv /\ VersInv /\ [Next]_vars => VersInv'
<1> SUFFICES ASSUME TInv, TInv', RowsInv, KinInv, VersInv, [Next]_vars PROVE VersInv'
  OBVIOUS
<1>1. CASE UNCHANGED vars \/ DeleteUser
  <2>1. UNCHANGED call /\ Unwritten /\ met \subseteq met' /\ cut \subseteq cut'
    BY <1>1 DEF vars, DeleteUser, Unwritten
  <2>2. \A c \in Client : \A k \in {call'[c]} : NumberOK(k)'
    BY <2>1, IdleVers
  <2>3. \A i \in Id : \/ Broken(i)' \/ Good(i)' \/ \E c \in Client : Maxing(call'[c], i) /\ call'[c].n \in touched'[i]
    BY <2>1, IdleVers
  <2>4. \A v \in db'.versions : note'[v.model].kind = "model"
    BY <2>1, IdleVers
  <2> QED BY <2>2, <2>3, <2>4, ZenonT(60) DEF VersInv, Maxing
<1>2. ASSUME NEW c \in Client, Begin(c) PROVE VersInv'
  BY <1>2, BeginVers
<1>3. ASSUME NEW c \in Client, Look(c) \/ Work(c) \/ Interrupt(c) PROVE VersInv'
  <2>1. CASE Fails(c)
    BY <1>3, <2>1, FailsVers
  <2>2. CASE ~Fails(c)
    <3>1. Look(c) \/ (Work(c) /\ Outside)
      BY <1>3, <2>2 DEF Interrupt, Work
    <3>2. CASE LookAddVersion(c)
      BY <2>2, <3>2, AddVersionVers
    <3>3. CASE PutVersion(c) /\ Outside
      BY <3>3, PutVersionVers
    <3>4. CASE SetMax(c) /\ Outside
      BY <3>4, SetMaxVers
    <3>5. CASE ~LookAddVersion(c) /\ ~PutVersion(c) /\ ~SetMax(c)
      BY <2>2, <3>1, <3>5, OtherVers
    <3>6. Look(c) => ~PutVersion(c) /\ ~SetMax(c)
      BY DEF Look, LookCreate, LookDelete, LookRename, LookDropVersion, LookUp, LookAddVersion, LookList, Looks, PutVersion,
         SetMax, Doing
    <3> QED BY <3>1, <3>2, <3>3, <3>4, <3>5, <3>6
  <2> QED BY <2>1, <2>2
<1> QED BY <1>1, <1>2, <1>3 DEF Next

LEMMA InitVers == Init => VersInv
<1> SUFFICES ASSUME Init PROVE VersInv
  OBVIOUS
<1>1. /\ db = Seed /\ call = [c \in Client |-> Idle]
      /\ \A i \in Id : note[i].kind = Seed.objs[i].kind
  BY DEF Init, NoNote
<1>2. \A c \in Client : call[c] = Idle
  BY <1>1
<1>3. NumberOK(Idle)
  BY IdleCall DEF NumberOK
<1>4. \A v \in Seed.versions : v.model \in Id /\ v.model \in Seeded /\ Seed.objs[v.model].kind = "model"
                               /\ v.number <= Seed.objs[v.model].max
  BY ObjectsAssumption DEF SeedParts, Seeded
<1>5. ASSUME NEW v \in Seed.versions, NEW w \in Seed.versions, w.model = v.model, w.number = v.number PROVE w = v
  BY <1>5, ObjectsAssumption DEF SeedParts
<1>6. \A i \in Id : i \in Live(db) <=> i \in Seeded
  BY <1>1 DEF Live, Seeded
<1>7. \A i \in Id : Good(i)
  BY <1>1, <1>4, <1>5, <1>6 DEF Good, VersionsOf
<1>8. \A v \in db.versions : note[v.model].kind = "model"
  BY <1>1, <1>4
<1> QED BY <1>2, <1>3, <1>7, <1>8 DEF VersInv

ModelInv == FamilyInv /\ VersInv

LEMMA ModelStep == ModelInv /\ [Next]_vars => ModelInv'
BY FamilyStep, NextVers DEF ModelInv, FamilyInv, ObjectsInv

LEMMA ModelInit == Init => ModelInv
BY FamilyInit, InitVers DEF ModelInv

\* What is broken is disturbed.
LEMMA BrokenIs == ASSUME NEW i, Broken(i) PROVE Disturbed(i)
BY DEF Broken, Clash, Disturbed

LEMMA VersionsAreInOrder == ModelInv => VersionsInOrder
<1> SUFFICES ASSUME ModelInv, NEW v \in db.versions, NEW i, i = v.model, ~Disturbed(i)
             PROVE  /\ i \in Live(db) /\ v.number <= db.objs[i].max
                    /\ \A w \in VersionsOf(db, i) : w.number = v.number => w = v
  BY DEF VersionsInOrder
<1>1. i \in Id
  BY DEF ModelInv, FamilyInv, ObjectsInv, TInv, TypeOK, Database, Version
<1>2. ~Broken(i)
  BY BrokenIs
<1>3. ASSUME NEW c \in Client, call[c].n \in touched[i] PROVE FALSE
  BY <1>3 DEF Disturbed, Active
<1>4. Good(i)
  BY <1>1, <1>2, <1>3 DEF ModelInv, VersInv
<1> QED BY <1>4 DEF Good, VersionsOf

\* create_version reads max_version_number, and two commits later it writes the
\* version and the number it has worked out without looking again.  Unless two
\* calls about a model meet there, or one is broken off, versions of a model
\* have numbers of their own, none above max_version_number, and a model that
\* goes takes its versions along.
THEOREM VersionsStayInOrder == Spec => []VersionsInOrder
BY ModelInit, ModelStep, VersionsAreInOrder, PTL DEF Spec

-----------------------------------------------------------------------------
(* Columns, properties, owners and links                                   *)

\* A step that comes before the one at j, or after it.
Earlier(k, j, x) == \E l \in 1..(j - 1) : k.todo[l] = x

Later(k, j, x) == \E l \in DOMAIN k.todo : l > j /\ k.todo[l] = x

\* How the steps of a call follow each other.
Listed(k, j) ==
  LET what == k.todo[j][1]
      i == k.todo[j][2]
  IN /\ what \in {"list", "each", "empty"} => k.req.kind \in {"catalog", "schema"}
     /\ what \in {"dropParts", "dropProps"} => Later(k, j, <<"dropRow", i>>)
     /\ what = "row" => /\ \A w \in {"parts", "props"} : w \in k.req.opts => Later(k, j, <<w, i>>)
                        /\ "delta" \notin k.req.opts => Later(k, j, <<"grant", i>>) /\ Later(k, j, <<"link", i>>)
     /\ what = "parts" => "parts" \in k.req.opts
     /\ what = "grant" => \A l \in DOMAIN k.todo : l > j => k.todo[l][1] = "link"
     /\ k.req.op \in {"create", "stage"} => i = k.todo[1][2]
     /\ what = "dropRow" /\ note[i].kind = "catalog" => j = Len(k.todo)

\* What the steps of a call find when their turn comes.
Finds(k, j) ==
  LET what == k.todo[j][1]
      i == k.todo[j][2]
      row == db.objs[i]
  IN /\ what = "dropRow" /\ note[i].kind = "table" =>
          i \notin db.parts \/ Open(k.n, i) \/ Earlier(k, j, <<"dropParts", i>>)
     /\ what = "dropRow" =>
          \/ i \notin db.props \/ Open(k.n, i) \/ Earlier(k, j, <<"dropProps", i>>)
          \/ note[i].kind \in {"volume", "function", "model"} /\ note[i].kind # k.req.kind
     /\ what = "parts" => \/ Earlier(k, j, <<"row", i>>)
                          \/ /\ note[i].kind \in {"table", "function"}
                             /\ Open(k.n, i) \/ (i \in Live(db) /\ "parts" \in note[i].wants)
     /\ what = "props" => \/ Earlier(k, j, <<"row", i>>)
                          \/ note[i].kind # "none" /\ (Open(k.n, i) \/ i \in Live(db))
     /\ what = "link" => \/ Earlier(k, j, <<"row", i>>)
                         \/ /\ note[i].kind # "none"
                            /\ Open(k.n, i) \/ (note[i].made = k.n /\ row.parent = k.parent)
     /\ what = "rename" => Open(k.n, i) \/ i \in Live(db)
     /\ what \in {"empty", "dropRow"} /\ note[i].kind = "catalog" =>
          Open(k.n, i) \/ (i \in Live(db) /\ row.name = k.req.path[1])

\* What hangs on a row.
RowHang(i) ==
  /\ i \in db.parts => note[i].kind \in {"table", "function"}
  /\ i \in db.props \/ (\E p : <<i, p>> \in db.links) => note[i].kind # "none"
  /\ note[i].made # None => note[i].made \in touched[i]
  /\ note[i].gone # "no" => i \notin Live(db)

\* A drop with force leaves these properties behind.
Cascaded(i) == note[i].gone = "cascaded" /\ note[i].kind \in {"volume", "function", "model"}

\* Its columns, parameters or properties are there or not, as they should be.
Right(w, i) ==
  CASE w = "parts" -> i \in db.parts <=> i \in Live(db) /\ "parts" \in note[i].wants
    [] w = "props" -> (i \in db.props <=> i \in Live(db) /\ "props" \in note[i].wants) \/ Cascaded(i)

\* Call k has written about i and is not done with it.
Owes(k, w, i) == k.n \in touched[i] /\ (Has(k.todo, <<w, i>>) \/ Has(k.todo, <<"dropRow", i>>))

\* What PartsFollowRows says of object i, or what is left to do about it.
Belongs(w, i) == Broken(i) \/ Right(w, i) \/ \E c \in Client : Owes(call[c], w, i)

\* The creation of i has yet to take step x.
Makes(k, i, x) == k.n = note[i].made /\ Has(k.todo, <<x, i>>) /\ k.parent = db.objs[i].parent

\* What OwnedAndLinked says of object i, or what is left to do about it.
Owned(i) ==
  \/ Broken(i)
  \/ /\ i \in db.owners \/ \E c \in Client : Makes(call[c], i, "grant")
     /\ \A p : <<i, p>> \in db.links => p = db.objs[i].parent
     /\ <<i, db.objs[i].parent>> \in db.links \/ \E c \in Client : Makes(call[c], i, "link")

\* All that PartsFollowRows and OwnedAndLinked say of object i.
Fine(i) ==
  /\ RowHang(i)
  /\ \A w \in {"parts", "props"} : Belongs(w, i)
  /\ i \in Live(db) /\ note[i].made # None /\ "owner" \in note[i].wants => Owned(i)

HangInv ==
  /\ \A i \in Id : Fine(i)
  /\ \A c \in Client : \A k \in {call[c]} : \A j \in DOMAIN k.todo : Listed(k, j) /\ Finds(k, j)

\* The call goes on: its step is done, more comes before what was left.
Follows(k, l, more) ==
  /\ k.todo \in Seq(Step) /\ k.todo # << >> /\ more \in Seq(Step) /\ l.todo = more \o Tail(k.todo)
  /\ l.n = k.n /\ l.req = k.req /\ l.parent = k.parent

\* The step at j in l's list is the one at m in k's, and so are those around it.
Sits(k, m, l, j) ==
  /\ l.todo[j] = k.todo[m]
  /\ \A x : Earlier(k, m, x) => Earlier(l, j, x) \/ k.todo[1] = x
  /\ \A x : Later(k, m, x) => Later(l, j, x)
  /\ m = Len(k.todo) => j = Len(l.todo)
  /\ \A y \in DOMAIN l.todo : y > j => \E z \in DOMAIN k.todo : z > m /\ l.todo[y] = k.todo[z]

LEMMA Sitting ==
  ASSUME NEW k, NEW l, NEW more, Follows(k, l, more)
  PROVE  /\ \A j \in DOMAIN l.todo : \/ j \in DOMAIN more /\ l.todo[j] = more[j]
                                     \/ \E m \in DOMAIN k.todo : m # 1 /\ Sits(k, m, l, j)
         /\ \A j \in DOMAIN more : j \in DOMAIN l.todo /\ l.todo[j] = more[j]
         /\ \A x : Has(k.todo, x) /\ x # k.todo[1] => Has(l.todo, x)
         /\ l.todo \in Seq(Step) /\ 1 \in DOMAIN k.todo /\ Len(l.todo) = Len(more) + Len(k.todo) - 1
<1>1. PICK s, t : s = k.todo /\ t = l.todo
  OBVIOUS
<1>2. s \in Seq(Step) /\ s # << >> /\ more \in Seq(Step) /\ t = more \o Tail(s)
  BY <1>1 DEF Follows
<1>3. /\ t \in Seq(Step) /\ Len(t) = Len(more) + Len(s) - 1
      /\ \A j \in DOMAIN more : j \in DOMAIN t /\ t[j] = more[j]
      /\ \A j \in DOMAIN s \ {1} : j + Len(more) - 1 \in DOMAIN t /\ t[j + Len(more) - 1] = s[j]
      /\ \A j \in DOMAIN t : \/ j \in DOMAIN more
                             \/ j - Len(more) + 1 \in DOMAIN s \ {1} /\ t[j] = s[j - Len(more) + 1]
  BY ONLY <1>2, Shifted, SMTT(30)
<1>4. DOMAIN more = 1..Len(more) /\ DOMAIN s = 1..Len(s) /\ DOMAIN t = 1..Len(t) /\ Len(more) \in Nat /\ Len(s) \in Nat
      /\ Len(t) \in Nat /\ 1 \in DOMAIN s
  <2> HIDE DEF Step
  <2> QED BY <1>2, <1>3
<1>5. ASSUME NEW j \in DOMAIN t, j \notin DOMAIN more PROVE \E m \in DOMAIN s : m # 1 /\ Sits(k, m, l, j)
  <2>1. PICK m \in DOMAIN s : m = j - Len(more) + 1 /\ m # 1 /\ t[j] = s[m]
    BY <1>3, <1>5
  <2>2. j = m + Len(more) - 1 /\ j \in Nat /\ m \in Nat
    BY <1>4, <2>1
  <2>3. ASSUME NEW x, NEW z \in 1..(m - 1), s[z] = x PROVE Earlier(l, j, x) \/ s[1] = x
    <3> SUFFICES ASSUME z # 1 PROVE Earlier(l, j, x)
      BY <2>3
    <3>1. z \in DOMAIN s \ {1} /\ z + Len(more) - 1 \in 1..(j - 1)
      BY <1>4, <2>2, <2>3
    <3>2. t[z + Len(more) - 1] = x
      BY <1>3, <2>3, <3>1
    <3> QED BY <1>1, <3>1, <3>2 DEF Earlier
  <2>4. ASSUME NEW z \in DOMAIN s, z > m PROVE \E y \in DOMAIN t : y > j /\ t[y] = s[z]
    <3>1. z \in DOMAIN s \ {1} /\ z + Len(more) - 1 > j
      BY <1>4, <2>2, <2>4
    <3>2. z + Len(more) - 1 \in DOMAIN t /\ t[z + Len(more) - 1] = s[z]
      BY <1>3, <3>1
    <3> QED BY <3>1, <3>2
  <2>5. m = Len(s) => j = Len(t)
    BY <1>3, <1>4, <2>2
  <2>6. ASSUME NEW y \in DOMAIN t, y > j PROVE \E z \in DOMAIN s : z > m /\ t[y] = s[z]
    <3>1. y \notin DOMAIN more /\ y - Len(more) + 1 > m
      BY <1>4, <1>5, <2>2, <2>6
    <3> QED BY <1>3, <3>1
  <2>7. \A x : Later(k, m, x) => Later(l, j, x)
    BY <1>1, <2>4 DEF Later
  <2>8. \A x : Earlier(k, m, x) => Earlier(l, j, x) \/ k.todo[1] = x
    BY <1>1, <2>3 DEF Earlier
  <2> QED BY <1>1, <2>1, <2>5, <2>6, <2>7, <2>8 DEF Sits
<1>6. ASSUME NEW x, NEW z \in DOMAIN s, s[z] = x, x # s[1] PROVE Has(t, x)
  BY <1>3, <1>6 DEF Has
<1>7. \A x : Has(s, x) /\ x # s[1] => Has(t, x)
  BY <1>6 DEF Has
<1> QED BY <1>1, <1>3, <1>4, <1>5, <1>7

\* Nothing changes that PartsFollowRows is about.
Calm(i) ==
  /\ (i \in db'.parts <=> i \in db.parts) /\ (i \in db'.props <=> i \in db.props) /\ (i \in Live(db') <=> i \in Live(db))
  /\ note'[i].kind = note[i].kind
  /\ \A w \in {"parts", "props"} : w \in note'[i].wants <=> w \in note[i].wants
  /\ note'[i].gone = note[i].gone \/ (i \in Live(db) /\ note'[i].gone = "no")

\* Nothing changes that OwnedAndLinked is about.
Settled(i) ==
  /\ i \in db.owners => i \in db'.owners
  /\ \A p : <<i, p>> \in db'.links <=> <<i, p>> \in db.links
  /\ i \in Live(db') => i \in Live(db) /\ db'.objs[i].parent = db.objs[i].parent
  /\ note'[i].made = note[i].made /\ ("owner" \in note'[i].wants => "owner" \in note[i].wants)

LEMMA SameCalm == ASSUME NEW i \in Id, Same(i) PROVE Calm(i) /\ Settled(i)
<1>1. i \in Live(db') <=> i \in Live(db)
  BY LiveIs DEF Same
<1> QED BY <1>1 DEF Same, Calm, Settled

LEMMA RowHangKept ==
  ASSUME NEW i, RowHang(i), Calm(i), Settled(i), touched[i] \subseteq touched'[i]
  PROVE  RowHang(i)'
BY DEF RowHang, Calm, Settled

LEMMA RightKept ==
  ASSUME NEW i, RowHang(i), Calm(i), NEW w \in {"parts", "props"}, Right(w, i)
  PROVE  Right(w, i)'
<1>1. CASE w = "parts"
  BY <1>1 DEF Right, Calm
<1>2. CASE w = "props"
  <2>1. Cascaded(i) => Cascaded(i)'
    BY DEF Cascaded, Calm, RowHang
  <2> QED BY <1>2, <2>1 DEF Right, Calm
<1> QED BY <1>1, <1>2

\* Of what call k has to do, nothing is forgotten but its head.
Remembers(k, l) ==
  \A x : Has(k.todo, x) /\ x # k.todo[1] => Has(l.todo, x) /\ l.n = k.n /\ l.parent = k.parent

LEMMA BelongsKept ==
  ASSUME TInv, NEW c \in Client, Apart(c), NEW l, Becomes(c, l), NEW k, k = call[c],
         NEW i \in Id, NEW w \in {"parts", "props"}, Belongs(w, i),
         Right(w, i) \/ Owes(k, w, i) => Broken(i)' \/ Right(w, i)' \/ Owes(l, w, i)'
  PROVE  Belongs(w, i)'
<1>1. call'[c] = l /\ \A d \in Client \ {c} : call'[d] = call[d]
  BY DEF Becomes, TInv, TypeOK
<1>2. touched[i] \subseteq touched'[i] /\ (Broken(i) => Broken(i)')
  BY OpenStays DEF Apart
<1>3. ASSUME NEW d \in Client, Owes(call[d], w, i), d # c PROVE \E e \in Client : \E m \in {call'[e]} : Owes(m, w, i)'
  <2>1. PICK m : m = call[d]
    OBVIOUS
  <2>2. Owes(m, w, i)'
    BY <1>2, <1>3, <2>1 DEF Owes
  <2>3. m = call'[d]
    BY <1>1, <1>3, <2>1
  <2> QED BY <2>2, <2>3
<1>4. Owes(l, w, i)' => \E e \in Client : \E m \in {call'[e]} : Owes(m, w, i)'
  BY <1>1
<1>5. Broken(i)' \/ Right(w, i)' \/ \E e \in Client : \E m \in {call'[e]} : Owes(m, w, i)'
  BY <1>2, <1>3, <1>4 DEF Belongs
<1> QED BY <1>5, ZenonT(60) DEF Belongs, Owes

\* A call has been, for i, what the creation of i is.
LEMMA OwnedKept ==
  ASSUME TInv, NEW c \in Client, Apart(c), NEW l, Becomes(c, l), NEW k, k = call[c], NEW i \in Id, Owned(i),
         note'[i].made = note[i].made, NEW p, p = db.objs[i].parent, p = db'.objs[i].parent,
         i \in db.owners \/ Makes(k, i, "grant") => Broken(i)' \/ i \in db'.owners \/ Makes(l, i, "grant")',
         <<i, p>> \in db.links \/ Makes(k, i, "link") => Broken(i)' \/ <<i, p>> \in db'.links \/ Makes(l, i, "link")',
         \A q : <<i, q>> \in db'.links => <<i, q>> \in db.links \/ q = p \/ Broken(i)'
  PROVE  Owned(i)'
<1>1. call'[c] = l /\ \A d \in Client \ {c} : call'[d] = call[d]
  BY DEF Becomes, TInv, TypeOK
<1>2. Broken(i) => Broken(i)'
  BY OpenStays
<1>3. ASSUME NEW x, NEW d \in Client, Makes(call[d], i, x), d # c PROVE \E e \in Client : \E m \in {call'[e]} : Makes(m, i, x)'
  <2>1. PICK m : m = call[d]
    OBVIOUS
  <2>2. Makes(m, i, x)'
    BY <1>3, <2>1 DEF Makes
  <2>3. m = call'[d]
    BY <1>1, <1>3, <2>1
  <2> QED BY <2>2, <2>3
<1>4. ASSUME NEW x, Makes(l, i, x)' PROVE \E e \in Client : \E m \in {call'[e]} : Makes(m, i, x)'
  BY <1>1, <1>4
<1>5. \/ Broken(i)'
      \/ /\ i \in db'.owners \/ \E e \in Client : \E m \in {call'[e]} : Makes(m, i, "grant")'
         /\ \A q : <<i, q>> \in db'.links => q = db'.objs[i].parent
         /\ <<i, db'.objs[i].parent>> \in db'.links \/ \E e \in Client : \E m \in {call'[e]} : Makes(m, i, "link")'
  BY <1>2, <1>3, <1>4 DEF Owned
<1> QED BY <1>5, ZenonT(60) DEF Owned, Makes

\* Of what call k has to do about i, nothing is forgotten, or no one counts on it.
Minds(k, l, i) ==
  /\ \A w \in {"parts", "props"} : Owes(k, w, i) => Broken(i)' \/ Owes(l, w, i)'
  /\ \A x \in {"grant", "link"} : Makes(k, i, x) => Broken(i)' \/ Makes(l, i, x)'

LEMMA CalmFine ==
  ASSUME TInv, NEW c \in Client, Apart(c), NEW l, Becomes(c, l), NEW k, k = call[c], NEW i \in Id,
         Fine(i), Calm(i), Settled(i), Minds(k, l, i)
  PROVE  Fine(i)'
<1>1. RowHang(i) /\ touched[i] \subseteq touched'[i]
  BY DEF Fine, Apart
<1>2. RowHang(i)'
  BY <1>1, RowHangKept
<1>3. ASSUME NEW w \in {"parts", "props"} PROVE Belongs(w, i)'
  <2>1. Right(w, i) => Right(w, i)'
    BY <1>1, <1>3, RightKept
  <2>2. Owes(k, w, i) => Broken(i)' \/ Owes(l, w, i)'
    BY DEF Minds
  <2> QED BY <2>1, <2>2, BelongsKept DEF Fine
<1>4. ASSUME i \in Live(db'), note'[i].made # None, "owner" \in note'[i].wants PROVE Owned(i)'
  <2>1. PICK p : p = db.objs[i].parent
    OBVIOUS
  <2>2. /\ Owned(i) /\ note'[i].made = note[i].made /\ p = db'.objs[i].parent
        /\ (i \in db.owners => i \in db'.owners) /\ \A q : <<i, q>> \in db'.links <=> <<i, q>> \in db.links
    BY <1>4, <2>1 DEF Settled, Fine
  <2>3. \A x \in {"grant", "link"} : Makes(k, i, x) => Broken(i)' \/ Makes(l, i, x)'
    BY DEF Minds
  <2> QED BY <2>1, <2>2, <2>3, OwnedKept
<1> QED BY <1>2, <1>3, <1>4 DEF Fine

\* What is not done with the step of a call is still to do.
LEMMA RemembersMinds ==
  ASSUME NEW c, Apart(c), NEW k, NEW l, Remembers(k, l), NEW i \in Id,
         \A w \in {"parts", "props", "dropRow"} : k.n \in touched[i] => k.todo[1] # <<w, i>>,
         \A x \in {"grant", "link"} : k.todo[1] # <<x, i>>,
         note'[i].made = note[i].made, db'.objs[i].parent = db.objs[i].parent
  PROVE  Minds(k, l, i)
<1>1. touched[i] \subseteq touched'[i]
  BY DEF Apart
<1>2. ASSUME NEW w \in {"parts", "props"}, Owes(k, w, i) PROVE Owes(l, w, i)'
  BY <1>1, <1>2 DEF Owes, Remembers
<1>3. ASSUME NEW x \in {"grant", "link"}, Makes(k, i, x) PROVE Makes(l, i, x)'
  BY <1>3 DEF Makes, Remembers
<1> QED BY <1>2, <1>3 DEF Minds

\* The other calls find what they found, or have lost it.
LEMMA FindsKept ==
  ASSUME TInv, RowsInv, NEW c \in Client, NEW d \in Client, c # d, call[c] # Idle, Apart(c), KindsStay,
         NEW k, k = call[d], NEW j \in DOMAIN k.todo, Listed(k, j), Finds(k, j)
  PROVE  Listed(k, j)' /\ Finds(k, j)'
<1>1. PICK s, what, i : s = k.todo[j] /\ what = s[1] /\ i = s[2]
  OBVIOUS
<1>2. k # Idle /\ Busy(k) /\ s \in Step /\ StepOK(k, j)
  <2>1. k.todo # << >>
    <3>1. DOMAIN << >> = {}
      OBVIOUS
    <3> QED BY <3>1
  <2>2. Busy(k) /\ k # Idle /\ k.todo \in Seq(Step)
    BY <2>1, Working
  <2>3. CallOK(k)
    BY DEF RowsInv
  <2> HIDE DEF Step
  <2> QED BY <1>1, <2>2, <2>3 DEF CallOK
<1>3. what \in Single => i \in Id
  BY <1>1, <1>2 DEF Step, Single
<1>4. what \in {"dropRow", "empty"} => i \in Id /\ note[i].kind # "none" /\ note'[i].kind = note[i].kind
  <2> SUFFICES ASSUME what \in {"dropRow", "empty"} PROVE i \in Id /\ note[i].kind # "none"
    BY DEF KindsStay
  <2>1. i \in Id
    BY <1>3 DEF Single
  <2>2. k.req.kind # "none"
    BY <1>2, ObjectsAssumption DEF Busy, Regular, Request, Kinds, Leaves
  <2> QED BY <1>1, <1>2, <2>1, <2>2 DEF StepOK, PlainOK
<1>5. Listed(k, j)'
  <2>1. what = "dropRow" /\ note'[i].kind = "catalog" => j = Len(k.todo)
    BY <1>1, <1>4 DEF Listed
  <2> QED BY <1>1, <2>1 DEF Listed, Later
<1>6. what \notin Single => Finds(k, j)'
  BY <1>1 DEF Finds, Single
<1>7. ASSUME what \in Single, Same(i) PROVE Finds(k, j)'
  <2>1. Calm(i) /\ db'.objs[i] = db.objs[i] /\ note'[i].made = note[i].made /\ i \in Id
    BY <1>3, <1>7, SameCalm DEF Same
  <2>2. Open(k.n, i) => Open(k.n, i)'
    BY <2>1, OpenStays
  <2>3. \A x : Earlier(k, j, x) => Earlier(k, j, x)'
    BY DEF Earlier
  <2>4. /\ what = "dropRow" /\ note[i].kind = "table" =>
             i \notin db.parts \/ Open(k.n, i) \/ Earlier(k, j, <<"dropParts", i>>)
        /\ what = "dropRow" =>
             \/ i \notin db.props \/ Open(k.n, i) \/ Earlier(k, j, <<"dropProps", i>>)
             \/ note[i].kind \in {"volume", "function", "model"} /\ note[i].kind # k.req.kind
        /\ what = "parts" => \/ Earlier(k, j, <<"row", i>>)
                             \/ /\ note[i].kind \in {"table", "function"}
                                /\ Open(k.n, i) \/ (i \in Live(db) /\ "parts" \in note[i].wants)
        /\ what = "props" => \/ Earlier(k, j, <<"row", i>>)
                             \/ note[i].kind # "none" /\ (Open(k.n, i) \/ i \in Live(db))
        /\ what = "link" => \/ Earlier(k, j, <<"row", i>>)
                            \/ /\ note[i].kind # "none"
                               /\ Open(k.n, i) \/ (note[i].made = k.n /\ db.objs[i].parent = k.parent)
        /\ what = "rename" => Open(k.n, i) \/ i \in Live(db)
        /\ what \in {"empty", "dropRow"} /\ note[i].kind = "catalog" =>
             Open(k.n, i) \/ (i \in Live(db) /\ db.objs[i].name = k.req.path[1])
    BY <1>1 DEF Finds
  <2> QED BY <1>1, <2>1, <2>2, <2>3, <2>4, ZenonT(60) DEF Finds, Calm
<1>8. ASSUME what \in Single, ~Same(i) PROVE Finds(k, j)'
  <2>1. i \in Id
    BY <1>3, <1>8
  <2>2. PICK n : n = k.n
    OBVIOUS
  <2>3. Open(n, i)'
    BY <1>2, <1>8, <2>1, <2>2, OthersLose
  <2>4. Open(k.n, i)'
    BY <2>2, <2>3
  <2>5. note[i].kind # "none" => note'[i].kind = note[i].kind
    BY <2>1 DEF KindsStay
  <2>6. \A x : Earlier(k, j, x) => Earlier(k, j, x)'
    BY DEF Earlier
  <2>7. /\ what = "parts" => Earlier(k, j, <<"row", i>>) \/ note[i].kind \in {"table", "function"}
        /\ what \in {"props", "link"} => Earlier(k, j, <<"row", i>>) \/ note[i].kind # "none"
    BY <1>1 DEF Finds
  <2> QED BY <1>1, <2>4, <2>5, <2>6, <2>7 DEF Finds
<1> QED BY <1>5, <1>6, <1>7, <1>8

\* What is left to show of a step.
LEMMA HangKept ==
  ASSUME TInv, RowsInv, HangInv, NEW c \in Client, call[c] # Idle, Apart(c), KindsStay, NEW l, Becomes(c, l),
         \A j \in DOMAIN l.todo : Listed(l, j)' /\ Finds(l, j)',
         \A i \in Id : Fine(i)'
  PROVE  HangInv'
<1>1. call'[c] = l /\ \A d \in Client \ {c} : call'[d] = call[d]
  BY DEF Becomes, TInv, TypeOK
<1>2. ASSUME NEW d \in Client, NEW k, k = call'[d], NEW j \in DOMAIN k.todo PROVE Listed(k, j)' /\ Finds(k, j)'
  <2>1. CASE d = c
    <3>1. k = l
      BY <1>1, <1>2, <2>1
    <3> QED BY <1>2, <3>1
  <2>2. CASE d # c
    <3>1. k = call[d] /\ Listed(k, j) /\ Finds(k, j)
      BY <1>1, <1>2, <2>2 DEF HangInv
    <3> QED BY <1>2, <2>2, <3>1, FindsKept
  <2> QED BY <2>1, <2>2
<1>3. \A d \in Client : \A k \in {call'[d]} : \A j \in DOMAIN k.todo : Listed(k, j)' /\ Finds(k, j)'
  BY <1>2
<1> QED BY <1>3, ZenonT(60) DEF HangInv

-----------------------------------------------------------------------------
(* The call that takes the step                                            *)

LEMMA Proceeded ==
  ASSUME TInv, TInv', NEW c \in Client, NEW more \in Seq(Step), Proceed(c, more), NEW k, k = call[c], k.todo # << >>,
         NEW l, l = call'[c]
  PROVE  Becomes(c, l) /\ Remembers(k, l) /\ (l = Idle \/ Follows(k, l, more))
<1>1. Becomes(c, l) /\ Moved(k, l, more) /\ k.todo \in Seq(Step)
  BY NextOwn, Working
<1>2. CASE l # Idle
  <2>1. Follows(k, l, more)
    BY <1>1, <1>2 DEF Moved, Follows
  <2> QED BY <1>1, <2>1, Sitting DEF Remembers, Follows
<1>3. CASE l = Idle
  <2>1. l = Done(k, more)
    BY ProceedIs DEF TInv, TypeOK, Becomes
  <2>2. PICK t : t = more \o Tail(k.todo)
    OBVIOUS
  <2>3. t = << >>
    <3> SUFFICES ASSUME t # << >> PROVE FALSE
      OBVIOUS
    <3>1. l = [k EXCEPT !.todo = t] /\ k \in Call
      BY <2>1, <2>2, Working DEF Done, Busy
    <3>2. l.todo = t
      BY <3>1 DEF Call
    <3> QED BY <1>3, <3>2, IdleCall
  <2>4. PICK s : s = k.todo
    OBVIOUS
  <2>5. \A j \in DOMAIN s \ {1} : j + Len(more) - 1 \in DOMAIN t
    <3>1. s \in Seq(Step) /\ s # << >> /\ t = more \o Tail(s)
      BY <1>1, <2>2, <2>4
    <3> QED BY ONLY <3>1, more \in Seq(Step), Shifted
  <2>6. DOMAIN t = {}
    BY <2>3
  <2>7. \A x : Has(s, x) => x = s[1]
    BY <2>5, <2>6 DEF Has
  <2> QED BY <1>1, <1>3, <2>4, <2>7 DEF Remembers
<1> QED BY <1>2, <1>3

\* A step that stands alone leaves nothing to remember.
LEMMA AloneForgets ==
  ASSUME TInv, NEW c \in Client, NEW what \in Alone, Doing(c, what), NEW k, k = call[c]
  PROVE  /\ Len(k.todo) = 1 /\ \A x : Has(k.todo, x) => x = k.todo[1]
         /\ \A l : Remembers(k, l)
<1>1. PICK s : s = k.todo
  OBVIOUS
<1>2. Len(s) = 1 /\ s \in Seq(Step)
  BY <1>1, AtStep, Working
<1>3. DOMAIN s = {1}
  <2> HIDE DEF Step
  <2> QED BY <1>2
<1> QED BY <1>1, <1>2, <1>3 DEF Has, Remembers

\* The creation has made row i.
Made(k, i) ==
  /\ i \in Live(db') /\ db'.objs[i].parent = k.parent
  /\ note'[i].kind = k.req.kind /\ note'[i].made = k.n /\ note'[i].wants = Wanted(k.req)

\* Row i stays, and so does what was said of it.
Steady(i) ==
  /\ i \in Live(db) => i \in Live(db')
  /\ "parts" \in note[i].wants => "parts" \in note'[i].wants
  /\ note'[i].made = note[i].made /\ db'.objs[i].parent = db.objs[i].parent

\* What a step of call k writes, as far as its later steps are about it.
Wrote(k) ==
  /\ k.req.op # "delete" => \A i \in Id : IF k.todo[1] = <<"row", i>> THEN Made(k, i) ELSE Steady(i)
  /\ k.req.op = "delete" => \A i \in Id :
       /\ i \in db'.parts => i \in db.parts /\ k.todo[1] # <<"dropParts", i>>
       /\ i \in db'.props => i \in db.props /\ k.todo[1] # <<"dropProps", i>>
       /\ note[i].kind = "catalog" => db'.objs[i] = db.objs[i] \/ Len(k.todo) = 1

LEMMA NothingWritten ==
  ASSUME Unwritten, NEW k, \A i \in Id : k.todo[1] \notin {<<"row", i>>, <<"dropParts", i>>, <<"dropProps", i>>}
  PROVE  Wrote(k)
BY DEF Unwritten, Wrote, Steady

\* A request for what is made: its kind is one, and tables and functions alone have parts.
LEMMA RequestIs ==
  ASSUME NEW k, Busy(k)
  PROVE  /\ k.req.kind \in Kinds /\ k.req.kind # "none"
         /\ "parts" \in k.req.opts => k.req.kind \in {"table", "function"} /\ "parts" \in Wanted(k.req)
<1>1. k.req \in Requests
  BY DEF Busy, Regular
<1>2. k.req \in Request /\ WellFormed(k.req)
  BY <1>1, ObjectsAssumption
<1> QED BY <1>2 DEF Request, WellFormed, Kinds, Leaves, Wanted

\* A step that is still to come finds what it found before the one now done.
LEMMA TailHangs ==
  ASSUME TInv, RowsInv, HangInv, NEW c \in Client, Apart(c), KindsStay, NEW k, k = call[c], k # Idle, k.todo # << >>,
         Wrote(k), NEW l, l.n = k.n, l.req = k.req, l.parent = k.parent, NEW m \in DOMAIN k.todo, m # 1, NEW j, Sits(k, m, l, j),
         k.req.op \in {"create", "stage"} => l.todo[1][2] = k.todo[1][2]
  PROVE  Listed(l, j)' /\ Finds(l, j)'
<1>1. PICK s, what, i : s = k.todo[m] /\ what = s[1] /\ i = s[2]
  OBVIOUS
<1>2. /\ l.todo[j] = s /\ \A x : Earlier(k, m, x) => Earlier(l, j, x) \/ k.todo[1] = x
      /\ \A x : Later(k, m, x) => Later(l, j, x)
      /\ m = Len(k.todo) => j = Len(l.todo)
      /\ \A y \in DOMAIN l.todo : y > j => \E z \in DOMAIN k.todo : z > m /\ l.todo[y] = k.todo[z]
  BY <1>1 DEF Sits
<1>3. Listed(k, m) /\ Finds(k, m)
  BY DEF HangInv
<1>4. /\ Busy(k) /\ s \in Step /\ StepOK(k, m) /\ what \in {"look"} \cup OpSteps(k.req.op)
      /\ what \in Alone => Len(k.todo) = 1
      /\ DOMAIN k.todo = 1..Len(k.todo) /\ Len(k.todo) \in Nat
  <2>1. Busy(k) /\ k.todo \in Seq(Step) /\ Regular(k)
    BY Working DEF Busy
  <2>2. CallOK(k)
    BY DEF RowsInv
  <2>3. s \in Step /\ DOMAIN k.todo = 1..Len(k.todo) /\ Len(k.todo) \in Nat
    <3> HIDE DEF Step
    <3> QED BY <1>1, <2>1
  <2> QED BY <1>1, <2>1, <2>2, <2>3 DEF CallOK, Regular
<1>5. what \notin Alone /\ Len(k.todo) # 1
  <2>1. m \in 1..Len(k.todo) /\ m # 1
    BY <1>4
  <2>2. Len(k.todo) # 1
    BY <2>1
  <2> QED BY <1>4, <2>2
<1>6. what \in Single => i \in Id
  BY <1>1, <1>4 DEF Step, Single
<1>7. what = "dropRow" => i \in Id /\ note[i].kind # "none" /\ note'[i].kind = note[i].kind
  <2> SUFFICES ASSUME what = "dropRow" PROVE i \in Id /\ note[i].kind # "none"
    BY DEF KindsStay
  <2>1. i \in Id
    BY <1>6 DEF Single
  <2> QED BY <1>1, <1>4, <2>1 DEF StepOK, PlainOK
<1>8. Listed(l, j)'
  <2>1. what = "dropRow" /\ note'[i].kind = "catalog" => j = Len(l.todo)
    BY <1>1, <1>2, <1>3, <1>7 DEF Listed
  <2>2. what = "grant" => \A y \in DOMAIN l.todo : y > j => l.todo[y][1] = "link"
    BY <1>1, <1>2, <1>3 DEF Listed
  <2>3. k.req.op \in {"create", "stage"} => i = l.todo[1][2]
    BY <1>1, <1>3 DEF Listed
  <2>4. /\ what \in {"list", "each", "empty"} => l.req.kind \in {"catalog", "schema"}
        /\ what \in {"dropParts", "dropProps"} => Later(l, j, <<"dropRow", i>>)
        /\ what = "row" => /\ \A w \in {"parts", "props"} : w \in l.req.opts => Later(l, j, <<w, i>>)
                           /\ "delta" \notin l.req.opts => Later(l, j, <<"grant", i>>) /\ Later(l, j, <<"link", i>>)
        /\ what = "parts" => "parts" \in l.req.opts
    BY <1>1, <1>2, <1>3 DEF Listed
  <2>5. \A x : Later(l, j, x) <=> Later(l, j, x)'
    BY DEF Later
  <2> QED BY <1>1, <1>2, <2>1, <2>2, <2>3, <2>4, <2>5 DEF Listed
<1> SUFFICES Finds(l, j)'
  BY <1>8
<1>9. \A x : Earlier(l, j, x) <=> Earlier(l, j, x)'
  BY DEF Earlier
<1>10. what \notin Single => Finds(l, j)'
  BY <1>1, <1>2 DEF Finds, Single
<1>11. CASE what \in Single /\ k.req.op = "delete"
  <2>1. what \in {"dropParts", "dropProps", "dropRow"}
    BY <1>4, <1>5, <1>11 DEF OpSteps, DropStep, Alone, Single
  <2>2. i \in Id /\ (Open(k.n, i) => Open(k.n, i)')
    BY <1>6, <1>11, OpenStays
  <2>3. /\ i \in db'.parts => i \in db.parts /\ k.todo[1] # <<"dropParts", i>>
        /\ i \in db'.props => i \in db.props /\ k.todo[1] # <<"dropProps", i>>
        /\ note[i].kind = "catalog" => db'.objs[i] = db.objs[i]
    BY <1>5, <1>11, <2>2 DEF Wrote
  <2>4. CASE what = "dropRow"
    <3>1. note[i].kind = "table" => i \notin db'.parts \/ Open(k.n, i)' \/ Earlier(l, j, <<"dropParts", i>>)
      BY <1>1, <1>2, <1>3, <2>2, <2>3, <2>4 DEF Finds
    <3>2. \/ i \notin db'.props \/ Open(k.n, i)' \/ Earlier(l, j, <<"dropProps", i>>)
          \/ note[i].kind \in {"volume", "function", "model"} /\ note[i].kind # k.req.kind
      BY <1>1, <1>2, <1>3, <2>2, <2>3, <2>4 DEF Finds
    <3>3. note[i].kind = "catalog" => Open(k.n, i)' \/ (i \in Live(db') /\ db'.objs[i].name = k.req.path[1])
      BY <1>1, <1>2, <1>3, <2>2, <2>3, <2>4, LiveIs DEF Finds
    <3>4. l.todo[j][1] = "dropRow" /\ l.todo[j][2] = i
      BY <1>1, <1>2, <2>4
    <3> QED BY <1>7, <1>9, <2>4, <3>1, <3>2, <3>3, <3>4 DEF Finds
  <2>5. CASE what # "dropRow"
    BY <1>1, <1>2, <2>1, <2>5 DEF Finds
  <2> QED BY <2>4, <2>5
<1>12. CASE what \in Single /\ k.req.op # "delete"
  <2>1. what \notin {"dropRow", "empty", "rename"}
    BY <1>4, <1>5, <1>12 DEF OpSteps, DropStep, Alone
  <2>2. i \in Id /\ (Open(k.n, i) => Open(k.n, i)')
    BY <1>6, <1>12, OpenStays
  <2>3. note[i].kind # "none" => note'[i].kind = note[i].kind
    BY <2>2 DEF KindsStay
  <2>4. l.todo[j][1] = what /\ l.todo[j][2] = i
    BY <1>1, <1>2
  <2>5. CASE k.todo[1] = <<"row", i>> /\ Made(k, i)
    <3>1. what = "parts" => "parts" \in k.req.opts
      BY <1>1, <1>3 DEF Listed
    <3>2. note'[i].kind # "none" /\ (what = "parts" => note'[i].kind \in {"table", "function"} /\ "parts" \in note'[i].wants)
      BY <1>4, <2>5, <3>1, RequestIs DEF Made
    <3> QED BY <2>1, <2>2, <2>4, <2>5, <3>2 DEF Finds, Made
  <2>6. CASE k.todo[1] # <<"row", i>> /\ Steady(i)
    <3>0. Earlier(k, m, <<"row", i>>) => Earlier(l, j, <<"row", i>>)
      BY <1>2, <2>6
    <3>1. /\ what = "parts" => \/ Earlier(l, j, <<"row", i>>)
                               \/ /\ note[i].kind \in {"table", "function"}
                                  /\ Open(k.n, i)' \/ (i \in Live(db') /\ "parts" \in note'[i].wants)
          /\ what = "props" => \/ Earlier(l, j, <<"row", i>>)
                               \/ note[i].kind # "none" /\ (Open(k.n, i)' \/ i \in Live(db'))
          /\ what = "link" => \/ Earlier(l, j, <<"row", i>>)
                              \/ /\ note[i].kind # "none"
                                 /\ Open(k.n, i)' \/ (note'[i].made = k.n /\ db'.objs[i].parent = k.parent)
      BY <1>1, <1>3, <2>2, <2>6, <3>0 DEF Finds, Steady
    <3> QED BY <1>9, <2>1, <2>3, <2>4, <3>1 DEF Finds
  <2> QED BY <1>12, <2>2, <2>5, <2>6 DEF Wrote
<1> QED BY <1>10, <1>11, <1>12

LEMMA NoSteps == \E more \in Seq(Step) : more = << >> /\ DOMAIN more = {}
<1>1. \A S : << >> \in Seq(S)
  OBVIOUS
<1>2. DOMAIN << >> = {}
  OBVIOUS
<1> QED BY <1>1, <1>2, Zenon

LEMMA GoesOn ==
  ASSUME TInv, RowsInv, HangInv, NEW c \in Client, Apart(c), KindsStay, NEW k, k = call[c], k # Idle, k.todo # << >>, Wrote(k),
         NEW l, Becomes(c, l), NEW more, l = Idle \/ Follows(k, l, more),
         k.req.op \in {"create", "stage"} => \A j \in DOMAIN more : more[j][2] = k.todo[1][2],
         l # Idle => \A j \in DOMAIN more : Listed(l, j)' /\ Finds(l, j)',
         \A i \in Id : Fine(i)'
  PROVE  HangInv'
<1>1. CASE l = Idle
  <2>1. DOMAIN l.todo = {}
    BY <1>1, IdleCall
  <2> QED BY <2>1, HangKept
<1>2. CASE l # Idle
  <2>1. Follows(k, l, more)
    BY <1>2
  <2>2. /\ \A j \in DOMAIN l.todo : \/ j \in DOMAIN more /\ l.todo[j] = more[j]
                                    \/ \E m \in DOMAIN k.todo : m # 1 /\ Sits(k, m, l, j)
        /\ l.todo \in Seq(Step) /\ l.n = k.n /\ l.req = k.req /\ l.parent = k.parent
    BY <2>1, Sitting DEF Follows
  <2>3. ASSUME NEW j \in DOMAIN l.todo, j \notin DOMAIN more PROVE Listed(l, j)' /\ Finds(l, j)'
    <3>1. PICK m \in DOMAIN k.todo : m # 1 /\ Sits(k, m, l, j)
      BY <2>2, <2>3
    <3>2. PICK t : t = l.todo
      OBVIOUS
    <3>3. 1 \in DOMAIN t
      <4>1. t \in Seq(Step) /\ j \in DOMAIN t
        BY <2>2, <2>3, <3>2
      <4> HIDE DEF Step
      <4> QED BY <4>1
    <3>4. k.req.op \in {"create", "stage"} => l.todo[1][2] = k.todo[1][2]
      <4>1. CASE l.todo[1] = more[1] /\ 1 \in DOMAIN more
        BY <4>1
      <4>2. ASSUME NEW z \in DOMAIN k.todo, Sits(k, z, l, 1), k.req.op \in {"create", "stage"}
            PROVE  l.todo[1][2] = k.todo[1][2]
        <5>1. Listed(k, z) /\ l.todo[1] = k.todo[z]
          BY <4>2 DEF HangInv, Sits
        <5> QED BY <4>2, <5>1 DEF Listed
      <4> QED BY <2>2, <3>2, <3>3, <4>1, <4>2
    <3> QED BY <2>2, <3>1, <3>4, TailHangs
  <2>4. \A j \in DOMAIN l.todo : Listed(l, j)' /\ Finds(l, j)'
    BY <1>2, <2>3
  <2> QED BY <2>4, HangKept
<1> QED BY <1>1, <1>2

\* A step that writes nothing of what hangs on rows.
Quiet(i) == Calm(i) /\ Settled(i) /\ db'.objs[i].parent = db.objs[i].parent

LEMMA QuietFine ==
  ASSUME TInv, HangInv, NEW c \in Client, Apart(c), NEW l, Becomes(c, l), NEW k, k = call[c], Remembers(k, l),
         NEW i \in Id, Quiet(i), k.todo[1][1] \notin {"parts", "props", "dropRow", "grant", "link"} \/ k.todo[1][2] # i
  PROVE  Fine(i)'
<1>1. \A w : <<w, i>>[1] = w /\ <<w, i>>[2] = i
  OBVIOUS
<1>2. \A w \in {"parts", "props", "dropRow", "grant", "link"} : k.todo[1] # <<w, i>>
  BY <1>1
<1>3. Minds(k, l, i)
  BY <1>2, RemembersMinds DEF Quiet, Settled
<1> QED BY <1>3, CalmFine DEF Quiet, HangInv

LEMMA SameQuiet == ASSUME NEW i \in Id, Same(i) PROVE Quiet(i) /\ Steady(i)
<1>1. i \in Live(db') <=> i \in Live(db)
  BY LiveIs DEF Same
<1> QED BY <1>1, SameCalm DEF Same, Quiet, Steady

LEMMA FailsHang ==
  ASSUME TInv, TInv', RowsInv, HangInv, NEW c \in Client, Look(c) \/ Work(c) \/ Interrupt(c), Fails(c)
  PROVE  HangInv'
<1>1. Apart(c) /\ KindsStay /\ call[c] # Idle
  BY StepApart, StepKinds, StepCall
<1>2. Becomes(c, Idle) /\ Unwritten /\ call[c].n \in cut' /\ met \subseteq met' /\ cut \subseteq cut'
  BY <1>1 DEF Fails, Becomes, Apart
<1>3. PICK k : k = call[c]
  OBVIOUS
<1>4. ASSUME NEW i \in Id PROVE Fine(i)'
  <2>1. Quiet(i) /\ touched'[i] = touched[i]
    BY <1>2, UnwrittenApart, SameQuiet DEF Unwritten
  <2>2. k.n \in touched[i] => Broken(i)'
    BY <1>2, <1>3, <2>1 DEF Broken
  <2>3. \A x : Makes(k, i, x) /\ note[i].made # None => k.n \in touched[i]
    BY DEF HangInv, Fine, RowHang, Makes
  <2>4. CASE note[i].made # None
    <3>1. Minds(k, Idle, i)
      BY <2>2, <2>3, <2>4 DEF Minds, Owes
    <3> QED BY <1>1, <1>2, <1>3, <2>1, <3>1, CalmFine DEF HangInv, Quiet
  <2>5. CASE note[i].made = None
    <3>1. k.n # None
      BY <1>3, StepCall, Working, NoneNot DEF Ordinal, None
    <3>2. \A x : ~Makes(k, i, x)
      BY <2>5, <3>1 DEF Makes
    <3>3. Minds(k, Idle, i)
      BY <2>2, <3>2 DEF Minds, Owes
    <3> QED BY <1>1, <1>2, <1>3, <2>1, <3>3, CalmFine DEF HangInv, Quiet
  <2> QED BY <2>4, <2>5
<1>5. DOMAIN Idle.todo = {}
  BY IdleCall
<1> QED BY <1>1, <1>2, <1>4, <1>5, HangKept

LEMMA MarkingQuiet ==
  ASSUME TInv, NEW c \in Client, Outside,
         MarkCommitted(c) \/ StageRow(c) \/ PutVersion(c) \/ SetMax(c) \/ DropVersion(c), NEW i \in Id
  PROVE  Quiet(i) /\ Steady(i)
<1>1. /\ db'.parts = db.parts /\ db'.props = db.props /\ db'.owners = db.owners /\ db'.links = db.links /\ note' = note
  BY HangingDoes, SetMaxDoes DEF Others
<1>2. Live(db') = Live(db) /\ db'.objs[i].parent = db.objs[i].parent
  <2>1. CASE SetMax(c)
    <3>1. PICK x : x = On(c)
      OBVIOUS
    <3>2. CASE i = x /\ x \in Live(db)
      <4>1. PICK old, m : old = db.objs[x] /\ m = call[c].number
        OBVIOUS
      <4>2. db'.objs[i] = [old EXCEPT !.max = m] /\ old \in Object
        BY <2>1, <3>1, <3>2, <4>1, SetMaxDoes
      <4>3. db'.objs[i].parent = old.parent
        BY <4>2 DEF Object
      <4> QED BY <2>1, <3>2, <4>1, <4>3, SetMaxDoes
    <3>3. CASE ~(i = x /\ x \in Live(db))
      <4>1. db'.objs[i] = db.objs[i]
        <5>1. CASE i # x
          <6>1. \A y \in Id \ {x} : db'.objs[y] = db.objs[y]
            BY <2>1, <3>1, SetMaxDoes
          <6> QED BY <5>1, <6>1
        <5>2. CASE x \notin Live(db)
          <6>1. db'.objs = db.objs
            BY <2>1, <3>1, <5>2, SetMaxDoes
          <6> QED BY <6>1
        <5> QED BY <3>3, <5>1, <5>2
      <4> QED BY <2>1, <4>1, SetMaxDoes
    <3> QED BY <3>2, <3>3
  <2>2. CASE ~SetMax(c)
    BY <2>2, HangingDoes DEF Others, Live
  <2> QED BY <2>1, <2>2
<1> QED BY <1>1, <1>2 DEF Quiet, Calm, Settled, Steady

LEMMA MarkingHang ==
  ASSUME TInv, TInv', RowsInv, HangInv, NEW c \in Client, Outside, Apart(c), KindsStay,
         MarkCommitted(c) \/ StageRow(c) \/ PutVersion(c) \/ SetMax(c) \/ DropVersion(c)
  PROVE  HangInv'
<1>1. PICK k, l : k = call[c] /\ l = call'[c]
  OBVIOUS
<1>2. Proceed(c, << >>) /\ \A i \in Id : Quiet(i) /\ Steady(i)
  BY HangingApart, MarkingQuiet
<1>3. /\ k.todo # << >> /\ k # Idle /\ k.todo[1][1] \in {"mark", "stageRow", "version", "max", "dropVersion"}
      /\ k.req.op # "delete"
  <2>1. PICK what \in {"mark", "stageRow", "version", "max", "dropVersion"} : Doing(c, what)
    BY DEF MarkCommitted, StageRow, PutVersion, SetMax, DropVersion
  <2> QED BY <1>1, <2>1, HeadOK, OpOf DEF Req
<1>4. PICK more \in Seq(Step) : more = << >>
  BY NoSteps
<1>5. Becomes(c, l) /\ Remembers(k, l) /\ (l = Idle \/ Follows(k, l, more))
  BY <1>1, <1>2, <1>3, <1>4, Proceeded
<1>6. \A i \in Id : Fine(i)'
  BY <1>1, <1>2, <1>3, <1>5, QuietFine
<1>7. Wrote(k)
  BY <1>2, <1>3 DEF Wrote
<1>8. DOMAIN more = {}
  BY <1>4
<1> QED BY <1>1, <1>3, <1>5, <1>6, <1>7, <1>8, GoesOn

-----------------------------------------------------------------------------
(* The steps that only read                                                *)

\* Steps of a drop, as a call puts them in front of what it has to do.
Drops(k, s) ==
  \A j \in DOMAIN s : \A i \in {s[j][2]} :
    /\ s[j][1] \in {"list", "each", "empty"} \cup DropStep
    /\ s[j][1] \in {"list", "each", "empty"} => k.req.kind \in {"catalog", "schema"}
    /\ s[j][1] \in {"dropParts", "dropProps"} => \E z \in DOMAIN s : z > j /\ s[z] = <<"dropRow", i>>
    /\ s[j][1] = "dropRow" =>
         /\ note[i].kind = "table" => \E z \in 1..(j - 1) : z \in DOMAIN s /\ s[z] = <<"dropParts", i>>
         /\ \/ \E z \in 1..(j - 1) : z \in DOMAIN s /\ s[z] = <<"dropProps", i>>
            \/ note[i].kind \in {"volume", "function", "model"} /\ note[i].kind # k.req.kind
         /\ note[i].kind = "catalog" => j = Len(s) /\ Len(k.todo) = 1
    /\ s[j][1] \in {"empty", "dropRow"} /\ note[i].kind = "catalog" =>
         Open(k.n, i) \/ (i \in Live(db) /\ db.objs[i].name = k.req.path[1])

LEMMA DropsHang ==
  ASSUME UNCHANGED <<db, touched, note, met, cut>>, NEW k, NEW l, NEW more, Follows(k, l, more), k.req.op = "delete",
         Drops(k, more), NEW j \in DOMAIN more
  PROVE  Listed(l, j)' /\ Finds(l, j)'
<1>1. PICK s, what, i : s = more[j] /\ what = s[1] /\ i = s[2]
  OBVIOUS
<1>2. /\ l.n = k.n /\ l.req = k.req /\ l.todo[j] = s
      /\ \A z \in DOMAIN more : z \in DOMAIN l.todo /\ l.todo[z] = more[z]
      /\ Len(l.todo) = Len(more) + Len(k.todo) - 1
  BY <1>1, Sitting DEF Follows
<1>3. /\ what \in {"list", "each", "empty"} \cup DropStep
      /\ what \in {"list", "each", "empty"} => k.req.kind \in {"catalog", "schema"}
      /\ what \in {"dropParts", "dropProps"} => \E z \in DOMAIN more : z > j /\ more[z] = <<"dropRow", i>>
      /\ what = "dropRow" =>
           /\ note[i].kind = "table" => \E z \in 1..(j - 1) : z \in DOMAIN more /\ more[z] = <<"dropParts", i>>
           /\ \/ \E z \in 1..(j - 1) : z \in DOMAIN more /\ more[z] = <<"dropProps", i>>
              \/ note[i].kind \in {"volume", "function", "model"} /\ note[i].kind # k.req.kind
           /\ note[i].kind = "catalog" => j = Len(more) /\ Len(k.todo) = 1
      /\ what \in {"empty", "dropRow"} /\ note[i].kind = "catalog" =>
           Open(k.n, i) \/ (i \in Live(db) /\ db.objs[i].name = k.req.path[1])
  BY <1>1 DEF Drops
<1>4. \A x : (\E z \in DOMAIN more : z > j /\ more[z] = x) => Later(l, j, x)
  BY <1>2 DEF Later
<1>5. \A x : (\E z \in 1..(j - 1) : z \in DOMAIN more /\ more[z] = x) => Earlier(l, j, x)
  BY <1>2 DEF Earlier
<1>6. note[i].kind = "catalog" /\ what = "dropRow" => j = Len(l.todo)
  <2> SUFFICES ASSUME j = Len(more), Len(k.todo) = 1 PROVE j = Len(l.todo)
    BY <1>3
  <2>1. more \in Seq(Step)
    BY DEF Follows
  <2>2. Len(more) \in Nat
    <3> HIDE DEF Step
    <3> QED BY <2>1
  <2> QED BY <1>2, <2>2
<1>7. Listed(l, j)
  BY <1>1, <1>2, <1>3, <1>4, <1>6 DEF Listed, DropStep
<1>8. Finds(l, j)
  BY <1>1, <1>2, <1>3, <1>5 DEF Finds, DropStep
<1> QED BY <1>7, <1>8, ZenonT(60) DEF Listed, Finds, Later, Earlier, Open, Broken, Clash, Overlaps, Live

\* The lists of a drop, with what there is to do below first.
LEMMA DropLists ==
  ASSUME NEW k, NEW i, NEW s, NEW n \in Nat, Len(s) = n, DOMAIN s = 1..n, n >= 2,
         s[n] = <<"dropRow", i>>, s[n - 1] = <<"dropProps", i>>,
         \A j \in 1..(n - 2) : s[j][1] = "list" \/ s[j] = <<"dropParts", i>>,
         \A j \in 1..(n - 2) : s[j][1] = "list" => k.req.kind \in {"catalog", "schema"},
         note[i].kind = "table" => n = 3 /\ s[1] = <<"dropParts", i>>,
         note[i].kind = "catalog" => Len(k.todo) = 1 /\ (Open(k.n, i) \/ (i \in Live(db) /\ db.objs[i].name = k.req.path[1]))
  PROVE  Drops(k, s)
<1>1. n \in DOMAIN s /\ n - 1 \in 1..(n - 1) /\ n - 1 \in DOMAIN s /\ n > n - 1
  OBVIOUS
<1>2. /\ s[n][1] = "dropRow" /\ s[n][2] = i /\ s[n - 1][1] = "dropProps" /\ s[n - 1][2] = i
      /\ \A j : s[j] = <<"dropParts", i>> => s[j][1] = "dropParts" /\ s[j][2] = i
  OBVIOUS
<1>3. ASSUME NEW j \in DOMAIN s, NEW x, x = s[j][2]
      PROVE  /\ s[j][1] \in {"list", "each", "empty"} \cup DropStep
             /\ s[j][1] \in {"list", "each", "empty"} => k.req.kind \in {"catalog", "schema"}
             /\ s[j][1] \in {"dropParts", "dropProps"} => \E z \in DOMAIN s : z > j /\ s[z] = <<"dropRow", x>>
             /\ s[j][1] = "dropRow" =>
                  /\ note[x].kind = "table" => \E z \in 1..(j - 1) : z \in DOMAIN s /\ s[z] = <<"dropParts", x>>
                  /\ \/ \E z \in 1..(j - 1) : z \in DOMAIN s /\ s[z] = <<"dropProps", x>>
                     \/ note[x].kind \in {"volume", "function", "model"} /\ note[x].kind # k.req.kind
                  /\ note[x].kind = "catalog" => j = Len(s) /\ Len(k.todo) = 1
             /\ s[j][1] \in {"empty", "dropRow"} /\ note[x].kind = "catalog" =>
                  Open(k.n, x) \/ (x \in Live(db) /\ db.objs[x].name = k.req.path[1])
  <2>1. CASE j = n
    <3>1. note[i].kind = "table" => \E z \in 1..(n - 1) : z \in DOMAIN s /\ s[z] = <<"dropParts", i>>
      <4>1. n = 3 => 1 \in 1..(n - 1) /\ 1 \in DOMAIN s
        OBVIOUS
      <4> QED BY <4>1
    <3>2. s[j][1] = "dropRow" /\ x = i
      BY <1>2, <1>3, <2>1
    <3>3. \E z \in 1..(n - 1) : z \in DOMAIN s /\ s[z] = <<"dropProps", i>>
      BY <1>1
    <3> QED BY <2>1, <3>1, <3>2, <3>3 DEF DropStep
  <2>2. CASE j = n - 1
    <3>1. s[j][1] = "dropProps" /\ x = i /\ n > j
      BY <1>1, <1>2, <1>3, <2>2
    <3> QED BY <1>1, <3>1 DEF DropStep
  <2>3. CASE j # n /\ j # n - 1
    <3>1. j \in 1..(n - 2) /\ n > j
      BY <1>3, <2>3
    <3>2. CASE s[j][1] = "list"
      BY <3>1, <3>2
    <3>3. CASE s[j] = <<"dropParts", i>>
      <4>1. s[j][1] = "dropParts" /\ x = i
        BY <1>2, <1>3, <3>3
      <4> QED BY <1>1, <3>1, <4>1 DEF DropStep
    <3> QED BY <3>1, <3>2, <3>3
  <2> QED BY <2>1, <2>2, <2>3
<1> QED BY <1>3 DEF Drops

\* What is left to show of a step that writes nothing.
LEMMA ReadingHang ==
  ASSUME TInv, TInv', RowsInv, HangInv, NEW c \in Client, Outside, Unwritten, UNCHANGED cut, NEW k, k = call[c],
         NEW what, what \notin {"parts", "props", "dropRow", "grant", "link", "row", "dropParts", "dropProps"}, Doing(c, what),
         NEW l, Becomes(c, l), Remembers(k, l),
         \/ \A j \in DOMAIN l.todo : Listed(l, j)' /\ Finds(l, j)'
         \/ \E more \in Seq(Step) :
              /\ l = Idle \/ Follows(k, l, more)
              /\ k.req.op \in {"create", "stage"} => \A j \in DOMAIN more : more[j][2] = k.todo[1][2]
              /\ l # Idle => \A j \in DOMAIN more : Listed(l, j)' /\ Finds(l, j)'
  PROVE  HangInv'
<1>1. k.todo # << >> /\ k # Idle /\ k.todo[1][1] = what
  BY HeadOK
<1>2. Apart(c) /\ KindsStay /\ \A i \in Id : Same(i)
  <2>1. met \subseteq met' /\ cut \subseteq cut'
    BY DEF Outside
  <2> QED BY <2>1, UnwrittenApart DEF Unwritten, KindsStay
<1>3. ASSUME NEW i \in Id PROVE Fine(i)'
  <2>1. Quiet(i)
    BY <1>2, SameQuiet
  <2> QED BY <1>1, <1>2, <2>1, QuietFine
<1>4. \A i \in Id : k.todo[1] \notin {<<"row", i>>, <<"dropParts", i>>, <<"dropProps", i>>}
  BY <1>1
<1>5. Wrote(k)
  BY <1>4, NothingWritten
<1> QED BY <1>1, <1>2, <1>3, <1>5, GoesOn, HangKept

LEMMA StagedTableHang ==
  ASSUME TInv, TInv', RowsInv, HangInv, NEW c \in Client, Outside, StagedTable(c), ~Fails(c)
  PROVE  HangInv'
<1>1. PICK k, l, i : k = call[c] /\ l = call'[c] /\ i = On(c)
  OBVIOUS
<1>2. Doing(c, "staged") /\ Proceed(c, << <<"mark", i>> >>) /\ Unwritten /\ UNCHANGED cut
  BY <1>1 DEF StagedTable
<1>3. k.todo # << >> /\ k.todo[1][2] = i /\ i \in Id /\ k.req.op = "create"
  BY <1>1, <1>2, HeadOK, AtStep, OpOf DEF Single, Req
<1>4. PICK s \in Step : s = <<"mark", i>> /\ s[1] = "mark" /\ s[2] = i
  <2>1. PICK s : s = <<"mark", i>>
    OBVIOUS
  <2>2. s \in Single \X Id /\ s[1] = "mark" /\ s[2] = i
    BY <1>3, <2>1 DEF Single
  <2>3. s \in Step
    BY <2>2 DEF Step
  <2> HIDE DEF Step
  <2> QED BY <2>1, <2>3
<1>5. PICK more \in Seq(Step) : more = <<s>> /\ DOMAIN more = {1} /\ more[1] = s
  BY OneStep
<1>6. Becomes(c, l) /\ Remembers(k, l) /\ (l = Idle \/ Follows(k, l, more))
  BY <1>1, <1>2, <1>3, <1>4, <1>5, Proceeded
<1>7. ASSUME l # Idle, NEW j \in DOMAIN more PROVE Listed(l, j)' /\ Finds(l, j)'
  <2>1. l.todo[1] = s /\ l.req = k.req /\ j = 1
    BY <1>5, <1>6, <1>7, Sitting DEF Follows
  <2>2. l.todo[j][1] = "mark" /\ l.todo[j][2] = l.todo[1][2]
    BY <1>4, <2>1
  <2> QED BY <2>2 DEF Listed, Finds
<1>8. \A j \in DOMAIN more : more[j][2] = k.todo[1][2]
  BY <1>3, <1>4, <1>5
<1> QED BY <1>1, <1>2, <1>6, <1>7, <1>8, ReadingHang

LEMMA FindRootHang ==
  ASSUME TInv, TInv', RowsInv, HangInv, NEW c \in Client, Outside, FindRoot(c), ~Fails(c)
  PROVE  HangInv'
<1>1. PICK k, f : k = call[c] /\ f = RootOf(db, Req(c).path)
  OBVIOUS
<1>2. Doing(c, "root") /\ call' = [call EXCEPT ![c].from = f, ![c].todo = Tail(@)] /\ Unwritten /\ UNCHANGED cut
  BY <1>1 DEF FindRoot
<1>3. k.todo # << >> /\ k \in Call /\ k.todo \in Seq(Step) /\ k # Idle
  BY <1>1, <1>2, HeadOK, Working DEF Busy
<1>4. PICK t : t = Tail(k.todo)
  OBVIOUS
<1>5. PICK l : l = [k EXCEPT !.from = f, !.todo = t]
  OBVIOUS
<1>6. Becomes(c, l)
  BY <1>1, <1>2, <1>4, <1>5 DEF Becomes, TInv, TypeOK
<1>7. l.todo = t /\ l.n = k.n /\ l.req = k.req /\ l.parent = k.parent
  BY <1>3, <1>5 DEF Call
<1>8. PICK more \in Seq(Step) : more = << >> /\ DOMAIN more = {}
  BY NoSteps
<1>9. t = more \o Tail(k.todo)
  <2> HIDE DEF Step
  <2> QED BY <1>3, <1>4, <1>8
<1>10. Follows(k, l, more)
  BY <1>3, <1>7, <1>8, <1>9 DEF Follows
<1>11. Remembers(k, l)
  BY <1>7, <1>10, Sitting DEF Remembers
<1> QED BY <1>1, <1>2, <1>6, <1>8, <1>10, <1>11, ReadingHang

LEMMA AnswerHang ==
  ASSUME TInv, TInv', RowsInv, HangInv, NEW c \in Client, Outside, Answer(c)
  PROVE  HangInv'
<1>1. PICK k, l : k = call[c] /\ l = call'[c]
  OBVIOUS
<1>2. Doing(c, "answer") /\ Proceed(c, << >>) /\ Unwritten /\ UNCHANGED cut
  BY DEF Answer, Unwritten, Outside
<1>3. k.todo # << >>
  BY <1>1, <1>2, HeadOK
<1>4. PICK more \in Seq(Step) : more = << >> /\ DOMAIN more = {}
  BY NoSteps
<1>5. Becomes(c, l) /\ Remembers(k, l) /\ (l = Idle \/ Follows(k, l, more))
  BY <1>1, <1>2, <1>3, <1>4, Proceeded
<1> QED BY <1>1, <1>2, <1>4, <1>5, ReadingHang

LEMMA ReadPageHang ==
  ASSUME TInv, TInv', RowsInv, HangInv, NEW c \in Client, Outside, ReadPage(c)
  PROVE  HangInv'
<1>0. Doing(c, "page") /\ Unwritten /\ UNCHANGED cut
  BY DEF ReadPage
<1>1. PICK k, a, tok : /\ k = call[c] /\ a = OverFetched(db, On(c), Req(c).kind, call[c].after) /\ tok = Token(a)
  OBVIOUS
<1>2. PICK shown : shown = {i \in Under(db, On(c), Req(c).kind) : db.objs[i].name \in PageOf(a)}
  OBVIOUS
<1>3. PICK t, x : t = << <<x, On(c)>> >> /\ x = (IF tok # None THEN "page" ELSE "answer")
  OBVIOUS
<1>4. PICK l : l = [k EXCEPT !.seen = @ \cup shown, !.twice = @ \cup (k.seen \cap shown), !.after = tok, !.todo = t]
  OBVIOUS
<1>5. k \in Call /\ k # Idle
  BY <1>0, <1>1, HeadOK DEF TInv, TypeOK
<1>6. Becomes(c, l)
  BY <1>1, <1>2, <1>3, <1>4, <1>5, ZenonT(60) DEF Becomes, ReadPage, TInv, TypeOK
<1>7. l.todo = t /\ l.req = k.req
  BY <1>4, <1>5 DEF Call
<1>8. DOMAIN t = {1} /\ t[1][1] = x /\ t[1][1] \in {"page", "answer"}
  BY <1>3
<1>9. k.req.op = "list"
  BY <1>0, <1>1, OpOf DEF Req
<1>10. \A j \in DOMAIN l.todo : Listed(l, j)' /\ Finds(l, j)'
  BY <1>7, <1>8, <1>9 DEF Listed, Finds
<1>11. Remembers(k, l)
  BY <1>0, <1>1, AloneForgets DEF Alone
<1> QED BY <1>0, <1>1, <1>6, <1>10, <1>11, ReadingHang

LEMMA ListChildrenHang ==
  ASSUME TInv, TInv', RowsInv, HangInv, NEW c \in Client, Outside, ListChildren(c)
  PROVE  HangInv'
<1>0. Doing(c, "list") /\ Unwritten /\ UNCHANGED <<met, cut>>
  BY DEF ListChildren, Outside
<1>1. PICK k, l, kind : k = call[c] /\ l = call'[c] /\ kind = Head(call[c].todo)[3]
  OBVIOUS
<1>2. PICK S : S = Under(db, On(c), kind)
  OBVIOUS
<1>3. /\ k.todo # << >> /\ k.todo[1][1] = "list" /\ kind \in Below /\ S \in SUBSET Id /\ k.req.op = "delete"
      /\ 1 \in DOMAIN k.todo
  <2>1. Head(k.todo) = k.todo[1]
    BY <1>0, <1>1, HeadOK, Working
  <2> QED BY <1>0, <1>1, <1>2, <2>1, AtStep, HeadOK, OpOf, Working DEF Req, Under, Live
<1>4. PICK more : more = Each(S, kind)
  OBVIOUS
<1>5. more \in Seq(Step) /\ \A j \in DOMAIN more : more[j] = <<"each", S, kind>>
  <2>1. more \in Seq(Step) /\ (more = << >> \/ (Len(more) = 1 /\ more[1] = <<"each", S, kind>>))
    BY <1>3, <1>4, EachIs
  <2>2. DOMAIN more = 1..Len(more)
    <3> HIDE DEF Step
    <3> QED BY <2>1
  <2> QED BY <2>1, <2>2
<1>6. Proceed(c, more)
  BY <1>1, <1>2, <1>4 DEF ListChildren
<1>7. Becomes(c, l) /\ Remembers(k, l) /\ (l = Idle \/ Follows(k, l, more))
  BY <1>1, <1>3, <1>5, <1>6, Proceeded
<1>8. k.req.kind \in {"catalog", "schema"}
  <2>1. Listed(k, 1)
    BY <1>1, <1>3 DEF HangInv
  <2> QED BY <1>3, <2>1 DEF Listed
<1>9. Drops(k, more)
  BY <1>5, <1>8 DEF Drops
<1>10. l # Idle => \A j \in DOMAIN more : Listed(l, j)' /\ Finds(l, j)'
  BY <1>0, <1>3, <1>7, <1>9, DropsHang DEF Unwritten
<1> QED BY <1>0, <1>1, <1>3, <1>5, <1>7, <1>10, ReadingHang

LEMMA CheckEmptyHang ==
  ASSUME TInv, TInv', RowsInv, HangInv, NEW c \in Client, Outside, CheckEmpty(c), ~Fails(c)
  PROVE  HangInv'
<1>1. PICK k, l, i : k = call[c] /\ l = call'[c] /\ i = On(c)
  OBVIOUS
<1>2. Doing(c, "empty") /\ Unwritten /\ UNCHANGED <<met, cut>>
  BY DEF CheckEmpty, Outside
<1>3. PICK full \in BOOLEAN : Proceed(c, Emptying(full, k.req.kind, i))
  BY <1>1 DEF CheckEmpty, Emptying, Req
<1>4. PICK more : more = Emptying(full, k.req.kind, i)
  OBVIOUS
<1>5. /\ k.todo # << >> /\ k.todo[1][1] = "empty" /\ k.todo[1][2] = i /\ i \in Id /\ k.req.op = "delete" /\ Len(k.todo) = 1
      /\ 1 \in DOMAIN k.todo /\ note[i].kind = k.req.kind
  <2>1. /\ k.todo # << >> /\ k.todo[1][1] = "empty" /\ k.todo[1][2] = i /\ i \in Id /\ k.req.op = "delete" /\ Len(k.todo) = 1
        /\ 1 \in DOMAIN k.todo /\ PlainOK(k, k.todo[1])
    BY <1>1, <1>2, HeadOK, AtStep, OpOf, Working DEF Single, Alone, Req
  <2> QED BY <2>1 DEF PlainOK
<1>6. Listed(k, 1) /\ Finds(k, 1)
  BY <1>1, <1>5 DEF HangInv
<1>7. /\ k.req.kind \in {"catalog", "schema"}
      /\ note[i].kind = "catalog" => Open(k.n, i) \/ (i \in Live(db) /\ db.objs[i].name = k.req.path[1])
  BY <1>5, <1>6 DEF Listed, Finds
<1>8. PICK n \in {2, 3, 6} : /\ more \in Seq(Step) /\ Len(more) = n
                             /\ more[n - 1] = <<"dropProps", i>> /\ more[n] = <<"dropRow", i>>
                             /\ \A j \in 1..(n - 2) : more[j][1] = "list"
  <2>1. /\ more \in Seq(Step)
        /\ \/ Len(more) = 2 /\ more[1] = <<"dropProps", i>> /\ more[2] = <<"dropRow", i>>
           \/ /\ Len(more) = 3 /\ more[1] = <<"list", i, "schema">>
              /\ more[2] = <<"dropProps", i>> /\ more[3] = <<"dropRow", i>>
           \/ /\ Len(more) = 6
              /\ more[1] = <<"list", i, "table">> /\ more[2] = <<"list", i, "volume">>
              /\ more[3] = <<"list", i, "function">> /\ more[4] = <<"list", i, "model">>
              /\ more[5] = <<"dropProps", i>> /\ more[6] = <<"dropRow", i>>
    BY <1>4, <1>5, EmptyingIs
  <2>2. \/ Len(more) = 2 /\ more[1] = <<"dropProps", i>> /\ more[2] = <<"dropRow", i>>
        \/ Len(more) = 3 /\ more[1][1] = "list" /\ more[2] = <<"dropProps", i>> /\ more[3] = <<"dropRow", i>>
        \/ /\ Len(more) = 6
           /\ more[1][1] = "list" /\ more[2][1] = "list" /\ more[3][1] = "list" /\ more[4][1] = "list"
           /\ more[5] = <<"dropProps", i>> /\ more[6] = <<"dropRow", i>>
    BY <2>1
  <2> QED BY <2>1, <2>2
<1>9. DOMAIN more = 1..n /\ n \in Nat /\ n >= 2
  <2> HIDE DEF Step
  <2> QED BY <1>8
<1>10. Drops(k, more)
  <2>1. note[i].kind # "table"
    BY <1>5, <1>7
  <2> QED BY <1>5, <1>7, <1>8, <1>9, <2>1, DropLists
<1>11. Becomes(c, l) /\ Remembers(k, l) /\ (l = Idle \/ Follows(k, l, more))
  BY <1>1, <1>3, <1>4, <1>5, <1>8, Proceeded
<1>12. l # Idle => \A j \in DOMAIN more : Listed(l, j)' /\ Finds(l, j)'
  BY <1>2, <1>5, <1>10, <1>11, DropsHang DEF Unwritten
<1> QED BY <1>1, <1>2, <1>5, <1>8, <1>11, <1>12, ReadingHang

LEMMA NextChildHang ==
  ASSUME TInv, TInv', RowsInv, HangInv, NEW c \in Client, Outside, NextChild(c)
  PROVE  HangInv'
<1>0. Doing(c, "each") /\ Unwritten /\ UNCHANGED <<met, cut>>
  BY DEF NextChild, Outside
<1>1. PICK k, l, S, kind : k = call[c] /\ l = call'[c] /\ S = On(c) /\ kind = Head(call[c].todo)[3]
  OBVIOUS
<1>2. /\ k.todo # << >> /\ k.todo[1][1] = "each" /\ kind \in Below /\ S \in SUBSET Id /\ k.req.op = "delete"
      /\ 1 \in DOMAIN k.todo /\ \A i \in S : note[i].kind = kind
  <2>1. Head(k.todo) = k.todo[1]
    BY <1>0, <1>1, HeadOK, Working
  <2>2. PlainOK(k, k.todo[1])
    BY <1>0, <1>1, HeadOK
  <2>3. /\ k.todo # << >> /\ k.todo[1][1] = "each" /\ kind \in Below /\ S \in SUBSET Id /\ k.req.op = "delete"
        /\ 1 \in DOMAIN k.todo /\ k.todo[1][2] = S /\ kind = k.todo[1][3]
    BY <1>0, <1>1, <2>1, AtStep, HeadOK, OpOf, Working DEF Req
  <2> QED BY <2>2, <2>3 DEF PlainOK
<1>3. PICK i \in S : Proceed(c, CascadeSteps(kind, i) \o Each(S \ {i}, kind))
  BY <1>1 DEF NextChild
<1>4. PICK a, R : a = CascadeSteps(kind, i) /\ R = S \ {i}
  OBVIOUS
<1>5. PICK t : t = Each(R, kind)
  OBVIOUS
<1>6. PICK more : more = a \o t
  OBVIOUS
<1>7. i \in Id /\ R \in SUBSET Id /\ note[i].kind = kind
  BY <1>2, <1>4
<1>8. k.req.kind \in {"catalog", "schema"}
  <2>1. Listed(k, 1)
    BY <1>1, <1>2 DEF HangInv
  <2> QED BY <1>2, <2>1 DEF Listed
<1>9. a \in Seq(Step) /\ Drops(k, a)
  <2>1. CASE kind = "schema"
    <3>1. /\ a \in Seq(Step) /\ Len(a) = 6
          /\ a[1] = <<"list", i, "table">> /\ a[2] = <<"list", i, "volume">>
          /\ a[3] = <<"list", i, "function">> /\ a[4] = <<"list", i, "model">>
          /\ a[5] = <<"dropProps", i>> /\ a[6] = <<"dropRow", i>>
      BY <1>4, <1>7, <2>1, CascadeStepsAre
    <3>2. a[1][1] = "list" /\ a[2][1] = "list" /\ a[3][1] = "list" /\ a[4][1] = "list"
      BY <3>1
    <3>3. DOMAIN a = 1..6
      <4> HIDE DEF Step
      <4> QED BY <3>1
    <3>4. PICK n \in Nat : n = 6
      OBVIOUS
    <3>5. /\ Len(a) = n /\ DOMAIN a = 1..n /\ n >= 2 /\ a[n] = <<"dropRow", i>> /\ a[n - 1] = <<"dropProps", i>>
          /\ \A j \in 1..(n - 2) : a[j][1] = "list"
      BY <3>1, <3>2, <3>3, <3>4
    <3>6. note[i].kind = "schema"
      BY <1>7, <2>1
    <3> QED BY <1>8, <3>1, <3>5, <3>6, DropLists
  <2>2. CASE kind = "table"
    <3>1. /\ a \in Seq(Step) /\ Len(a) = 3
          /\ a[1] = <<"dropParts", i>> /\ a[2] = <<"dropProps", i>> /\ a[3] = <<"dropRow", i>>
      BY <1>4, <1>7, <2>2, CascadeStepsAre
    <3>2. DOMAIN a = 1..3
      <4> HIDE DEF Step
      <4> QED BY <3>1
    <3>3. PICK n \in Nat : n = 3
      OBVIOUS
    <3>4. /\ Len(a) = n /\ DOMAIN a = 1..n /\ n >= 2 /\ a[n] = <<"dropRow", i>> /\ a[n - 1] = <<"dropProps", i>>
          /\ \A j \in 1..(n - 2) : a[j] = <<"dropParts", i>>
      BY <3>1, <3>2, <3>3
    <3>5. note[i].kind = "table"
      BY <1>7, <2>2
    <3> QED BY <1>8, <3>1, <3>3, <3>4, <3>5, DropLists
  <2>3. CASE kind \in {"volume", "function", "model"}
    <3>1. a \in Seq(Step) /\ Len(a) = 1 /\ a[1] = <<"dropRow", i>>
      BY <1>4, <1>7, <2>3, CascadeStepsAre
    <3>2. DOMAIN a = {1}
      <4> HIDE DEF Step
      <4> QED BY <3>1
    <3>3. a[1][1] = "dropRow" /\ a[1][2] = i
      BY <3>1
    <3>4. note[i].kind \in {"volume", "function", "model"} /\ note[i].kind # k.req.kind
      BY <1>7, <1>8, <2>3
    <3> QED BY <3>1, <3>2, <3>3, <3>4 DEF Drops, DropStep
  <2> QED BY <1>2, <2>1, <2>2, <2>3 DEF Below, Leaves
<1>10. t \in Seq(Step) /\ \A j \in DOMAIN t : t[j] = <<"each", R, kind>>
  <2>1. t \in Seq(Step) /\ (t = << >> \/ (Len(t) = 1 /\ t[1] = <<"each", R, kind>>))
    <3>1. t \in Seq(Step) /\ (R = {} => Len(t) = 0 /\ t = << >>) /\ (R # {} => Len(t) = 1 /\ t[1] = <<"each", R, kind>>)
      <4>1. R \in SUBSET Id /\ kind \in Below /\ t = Each(R, kind)
        BY <1>2, <1>5, <1>7
      <4> HIDE DEF Step
      <4> QED BY ONLY <4>1, EachIs, Zenon
    <3> HIDE DEF Step
    <3> QED BY <3>1, Zenon
  <2>2. DOMAIN t = 1..Len(t)
    <3> HIDE DEF Step
    <3> QED BY <2>1
  <2> QED BY <2>1, <2>2
<1>11. /\ more \in Seq(Step) /\ DOMAIN more = 1..Len(more) /\ Len(more) = Len(a) + Len(t) /\ Len(a) \in Nat /\ Len(t) \in Nat
       /\ DOMAIN a = 1..Len(a) /\ DOMAIN t = 1..Len(t)
       /\ \A j \in 1..Len(a) : more[j] = a[j]
       /\ \A j \in 1..Len(t) : more[j + Len(a)] = t[j]
  <2>1. a \in Seq(Step) /\ t \in Seq(Step) /\ more = a \o t
    BY <1>6, <1>9, <1>10
  <2>2. /\ more \in Seq(Step) /\ Len(more) = Len(a) + Len(t)
        /\ \A j \in 1..Len(a) : more[j] = a[j]
        /\ \A j \in 1..Len(t) : more[j + Len(a)] = t[j]
    BY ONLY <2>1, Joined
  <2> HIDE DEF Step
  <2> QED BY <2>1, <2>2
<1>12. ASSUME NEW j \in DOMAIN more PROVE (j \in DOMAIN a /\ more[j] = a[j]) \/ more[j] = <<"each", R, kind>>
  <2>1. j \in 1..Len(a) \/ (j - Len(a) \in 1..Len(t) /\ (j - Len(a)) + Len(a) = j)
    BY <1>11
  <2> QED BY <1>10, <1>11, <2>1
<1>13. \A j \in DOMAIN a : j \in DOMAIN more /\ more[j] = a[j] /\ a[j][1] # "empty"
       /\ (a[j][1] = "dropRow" => note[a[j][2]].kind # "catalog")
  <2>1. \A j \in DOMAIN a : j \in DOMAIN more /\ more[j] = a[j]
    BY <1>11
  <2>2. \A j \in 1..Len(a) : a[j][1] \in {"list", "dropParts", "dropProps", "dropRow"} /\ a[j][2] = i
    <3>1. /\ kind = "schema" =>
               /\ Len(a) = 6 /\ a[1] = <<"list", i, "table">> /\ a[2] = <<"list", i, "volume">>
               /\ a[3] = <<"list", i, "function">> /\ a[4] = <<"list", i, "model">>
               /\ a[5] = <<"dropProps", i>> /\ a[6] = <<"dropRow", i>>
          /\ kind = "table" => Len(a) = 3 /\ a[1] = <<"dropParts", i>> /\ a[2] = <<"dropProps", i>> /\ a[3] = <<"dropRow", i>>
          /\ kind \in {"volume", "function", "model"} => Len(a) = 1 /\ a[1] = <<"dropRow", i>>
      BY <1>4, <1>7, CascadeStepsAre
    <3>2. \/ /\ Len(a) = 6 /\ a[1][1] = "list" /\ a[2][1] = "list" /\ a[3][1] = "list" /\ a[4][1] = "list"
             /\ a[5][1] = "dropProps" /\ a[6][1] = "dropRow"
             /\ a[1][2] = i /\ a[2][2] = i /\ a[3][2] = i /\ a[4][2] = i /\ a[5][2] = i /\ a[6][2] = i
          \/ /\ Len(a) = 3 /\ a[1][1] = "dropParts" /\ a[2][1] = "dropProps" /\ a[3][1] = "dropRow"
             /\ a[1][2] = i /\ a[2][2] = i /\ a[3][2] = i
          \/ Len(a) = 1 /\ a[1][1] = "dropRow" /\ a[1][2] = i
      BY <1>2, <3>1 DEF Below, Leaves
    <3> QED BY <3>2
  <2>3. note[i].kind # "catalog"
    BY <1>2, <1>7 DEF Below, Leaves
  <2> QED BY <1>11, <2>1, <2>2, <2>3
<1>14. Drops(k, more)
  <2>1. ASSUME NEW j \in DOMAIN more, NEW x, x = more[j][2], more[j] = a[j], j \in DOMAIN a
        PROVE  /\ more[j][1] \in {"list", "each", "empty"} \cup DropStep
               /\ more[j][1] \in {"list", "each", "empty"} => k.req.kind \in {"catalog", "schema"}
               /\ more[j][1] \in {"dropParts", "dropProps"} => \E z \in DOMAIN more : z > j /\ more[z] = <<"dropRow", x>>
               /\ more[j][1] = "dropRow" =>
                    /\ note[x].kind = "table" => \E z \in 1..(j - 1) : z \in DOMAIN more /\ more[z] = <<"dropParts", x>>
                    /\ \/ \E z \in 1..(j - 1) : z \in DOMAIN more /\ more[z] = <<"dropProps", x>>
                       \/ note[x].kind \in {"volume", "function", "model"} /\ note[x].kind # k.req.kind
                    /\ note[x].kind # "catalog"
               /\ more[j][1] # "empty"
    <3>1. x = a[j][2]
      BY <2>1
    <3>2. /\ a[j][1] \in {"list", "each", "empty"} \cup DropStep
          /\ a[j][1] \in {"list", "each", "empty"} => k.req.kind \in {"catalog", "schema"}
          /\ a[j][1] \in {"dropParts", "dropProps"} => \E z \in DOMAIN a : z > j /\ a[z] = <<"dropRow", x>>
          /\ a[j][1] = "dropRow" =>
               /\ note[x].kind = "table" => \E z \in 1..(j - 1) : z \in DOMAIN a /\ a[z] = <<"dropParts", x>>
               /\ \/ \E z \in 1..(j - 1) : z \in DOMAIN a /\ a[z] = <<"dropProps", x>>
                  \/ note[x].kind \in {"volume", "function", "model"} /\ note[x].kind # k.req.kind
      <4>1. j \in DOMAIN a /\ x \in {a[j][2]} /\ Drops(k, a)
        BY <1>9, <2>1, <3>1
      <4> QED BY ONLY <4>1, ZenonT(60) DEF Drops
    <3>3. a[j][1] # "empty" /\ (a[j][1] = "dropRow" => note[x].kind # "catalog") /\ \A z \in DOMAIN a : z \in DOMAIN more /\ more[z] = a[z]
      BY <1>13, <2>1, <3>1
    <3> QED BY <2>1, <3>2, <3>3
  <2>2. ASSUME NEW j \in DOMAIN more, more[j] = <<"each", R, kind>> PROVE more[j][1] = "each"
    BY <2>2
  <2> QED BY <1>8, <1>12, <2>1, <2>2 DEF Drops
<1>15. Proceed(c, more)
  BY <1>3, <1>4, <1>5, <1>6
<1>16. Becomes(c, l) /\ Remembers(k, l) /\ (l = Idle \/ Follows(k, l, more))
  BY <1>1, <1>2, <1>11, <1>15, Proceeded
<1>17. l # Idle => \A j \in DOMAIN more : Listed(l, j)' /\ Finds(l, j)'
  BY <1>0, <1>2, <1>14, <1>16, DropsHang DEF Unwritten
<1> QED BY <1>0, <1>1, <1>2, <1>11, <1>16, <1>17, ReadingHang

-----------------------------------------------------------------------------
(* The first look                                                          *)

\* What holds of a list stays so while nothing is written.
LEMMA HangSame ==
  ASSUME UNCHANGED <<db, touched, note, met, cut>>, NEW l, NEW j, Listed(l, j), Finds(l, j)
  PROVE  Listed(l, j)' /\ Finds(l, j)'
BY ZenonT(60) DEF Listed, Finds, Later, Earlier, Open, Broken, Clash, Overlaps, Live

LEMMA LookedHang ==
  ASSUME TInv, TInv', RowsInv, HangInv, NEW c \in Client, Doing(c, "look"), Outside, Unwritten, UNCHANGED cut,
         NEW l, Becomes(c, l), \A j \in DOMAIN l.todo : Listed(l, j) /\ Finds(l, j)
  PROVE  HangInv'
<1>1. PICK k : k = call[c]
  OBVIOUS
<1>2. Remembers(k, l)
  BY <1>1, AloneForgets DEF Alone
<1>3. UNCHANGED <<db, touched, note, met, cut>>
  BY DEF Outside, Unwritten
<1>4. \A j \in DOMAIN l.todo : Listed(l, j)' /\ Finds(l, j)'
  BY <1>3, HangSame
<1> QED BY <1>1, <1>2, <1>4, ReadingHang

LEMMA LookAddVersionHang ==
  ASSUME TInv, TInv', RowsInv, HangInv, NEW c \in Client, LookAddVersion(c), ~Fails(c)
  PROVE  HangInv'
<1>1. PICK k, i : k = call[c] /\ i = FindPath(db, "model", Req(c).path)
  OBVIOUS
<1>2. PICK m : m = db.objs[i].max + 1
  OBVIOUS
<1>3. PICK s : s = << <<"version", i>>, <<"max", i>> >>
  OBVIOUS
<1>4. /\ Doing(c, "look") /\ Outside /\ Unwritten /\ UNCHANGED cut /\ k.req.op = "addVersion"
      /\ call' = [call EXCEPT ![c].todo = s, ![c].number = m]
  BY <1>1, <1>2, <1>3 DEF LookAddVersion, Looks, Req
<1>5. PICK l : l = [k EXCEPT !.todo = s, !.number = m]
  OBVIOUS
<1>6. Becomes(c, l)
  BY <1>1, <1>4, <1>5 DEF Becomes, TInv, TypeOK
<1>7. k \in Call
  BY <1>1 DEF TInv, TypeOK
<1>8. l.todo = s /\ l.req = k.req
  BY <1>5, <1>7 DEF Call
<1>9. DOMAIN s = {1, 2} /\ s[1][1] = "version" /\ s[2][1] = "max"
  BY <1>3
<1>10. \A j \in DOMAIN s : s[j][1] \in {"version", "max"}
  BY <1>9
<1>11. \A j \in DOMAIN l.todo : Listed(l, j) /\ Finds(l, j)
  BY <1>4, <1>8, <1>10 DEF Listed, Finds
<1> QED BY <1>4, <1>6, <1>11, LookedHang

LEMMA LookListHang ==
  ASSUME TInv, TInv', RowsInv, HangInv, NEW c \in Client, LookList(c), ~Fails(c)
  PROVE  HangInv'
<1>1. PICK k, p : k = call[c] /\ p = IF Req(c).kind = "catalog" THEN None ELSE FindParent(db, Req(c).kind, Req(c).path)
  OBVIOUS
<1>2. PICK s : s = << <<"page", p>> >>
  OBVIOUS
<1>3. /\ Doing(c, "look") /\ Outside /\ Unwritten /\ UNCHANGED cut /\ k.req.op = "list"
      /\ call' = [call EXCEPT ![c].parent = p, ![c].todo = s]
  BY <1>1, <1>2 DEF LookList, Looks, Req
<1>4. PICK l : l = [k EXCEPT !.parent = p, !.todo = s]
  OBVIOUS
<1>5. Becomes(c, l)
  BY <1>1, <1>3, <1>4 DEF Becomes, TInv, TypeOK
<1>6. k \in Call
  BY <1>1 DEF TInv, TypeOK
<1>7. l.todo = s /\ l.req = k.req
  BY <1>4, <1>6 DEF Call
<1>8. DOMAIN s = {1} /\ s[1][1] = "page"
  BY <1>2
<1>9. \A j \in DOMAIN l.todo : Listed(l, j) /\ Finds(l, j)
  BY <1>3, <1>7, <1>8 DEF Listed, Finds
<1> QED BY <1>3, <1>5, <1>9, LookedHang

LEMMA LookUpHang ==
  ASSUME TInv, TInv', RowsInv, HangInv, NEW c \in Client, NEW op \in {"delete", "rename", "dropVersion"}, LookUp(c, op), ~Fails(c)
  PROVE  HangInv'
<1>1. PICK k, l, i : k = call[c] /\ l = call'[c] /\ i = FindPath(db, Req(c).kind, Req(c).path)
  OBVIOUS
<1>2. PICK s : s = StepsOn(Req(c), i)
  OBVIOUS
<1>3. /\ Doing(c, "look") /\ Outside /\ Unwritten /\ UNCHANGED <<met, cut>> /\ k.req.op = op
      /\ i # None /\ Proceed(c, s)
  BY <1>1, <1>2 DEF LookUp, Looks, Req, Outside
<1>4. /\ k.req = Req(c) /\ k.req \in Request /\ WellFormed(k.req) /\ k.req.kind \in Kinds /\ Len(k.todo) = 1
      /\ k.todo # << >>
  BY <1>1, <1>3, LookingIs DEF Request
<1>5. /\ i \in Live(db) /\ i \in Id /\ db.objs[i].kind = k.req.kind
      /\ k.req.kind = "catalog" => db.objs[i].name = k.req.path[1]
  <2>1. i \in Live(db) /\ db.objs[i].kind = k.req.kind /\ db.objs[i].name = k.req.path[Depth(k.req.kind)]
    <3>0. PICK path : path = k.req.path
      OBVIOUS
    <3>1. PICK kind \in Kinds : kind = k.req.kind /\ path = k.req.path
      BY <1>4, <3>0
    <3>2. i = FindPath(db, kind, path)
      BY <1>1, <1>4, <3>1
    <3> QED BY <1>3, <3>1, <3>2, FindPathIs
  <2> QED BY <2>1, LiveIs DEF Depth
<1>6. note[i].kind = k.req.kind
  BY <1>5 DEF RowsInv, RowOK
<1>7. /\ s \in Seq(Step)
      /\ \/ k.req.op # "delete" /\ Len(s) = 1 /\ s[1] = <<k.req.op, i>>
         \/ k.req.op = "delete" /\ k.req.kind \in {"catalog", "schema"} /\ Len(s) = 1 /\ s[1] = <<"empty", i>>
         \/ /\ k.req.op = "delete" /\ k.req.kind \in Leaves /\ k.req.kind # "table"
            /\ Len(s) = 2 /\ s[1] = <<"dropProps", i>> /\ s[2] = <<"dropRow", i>>
         \/ /\ k.req.op = "delete" /\ k.req.kind = "table"
            /\ Len(s) = 3 /\ s[1] = <<"dropParts", i>> /\ s[2] = <<"dropProps", i>> /\ s[3] = <<"dropRow", i>>
  BY <1>2, <1>3, <1>4, <1>5, StepsOnTyped
<1>8. DOMAIN s = 1..Len(s)
  <2> HIDE DEF Step
  <2> QED BY <1>7
<1>9. Becomes(c, l) /\ Remembers(k, l) /\ (l = Idle \/ Follows(k, l, s))
  BY <1>1, <1>3, <1>4, <1>7, Proceeded
<1>10. k.req.op = "delete" => Drops(k, s)
  <2> SUFFICES ASSUME k.req.op = "delete" PROVE Drops(k, s)
    OBVIOUS
  <2>1. CASE Len(s) = 1 /\ s[1] = <<"empty", i>> /\ k.req.kind \in {"catalog", "schema"}
    <3>1. DOMAIN s = {1} /\ s[1][1] = "empty" /\ s[1][2] = i
      BY <1>8, <2>1
    <3> QED BY <1>5, <1>6, <2>1, <3>1 DEF Drops
  <2>2. CASE /\ k.req.kind \in Leaves /\ k.req.kind # "table"
             /\ Len(s) = 2 /\ s[1] = <<"dropProps", i>> /\ s[2] = <<"dropRow", i>>
    <3>1. PICK n \in Nat : n = 2
      OBVIOUS
    <3>2. /\ Len(s) = n /\ DOMAIN s = 1..n /\ n >= 2 /\ s[n] = <<"dropRow", i>> /\ s[n - 1] = <<"dropProps", i>>
          /\ 1..(n - 2) = {}
      BY <1>8, <2>2, <3>1
    <3>3. note[i].kind \notin {"table", "catalog"}
      BY <1>6, <2>2 DEF Leaves
    <3> QED BY <3>2, <3>3, DropLists
  <2>3. CASE /\ k.req.kind = "table"
             /\ Len(s) = 3 /\ s[1] = <<"dropParts", i>> /\ s[2] = <<"dropProps", i>> /\ s[3] = <<"dropRow", i>>
    <3>1. PICK n \in Nat : n = 3
      OBVIOUS
    <3>2. /\ Len(s) = n /\ DOMAIN s = 1..n /\ n >= 2 /\ s[n] = <<"dropRow", i>> /\ s[n - 1] = <<"dropProps", i>>
          /\ \A j \in 1..(n - 2) : s[j] = <<"dropParts", i>> /\ s[j][1] # "list"
      BY <1>8, <2>3, <3>1
    <3>3. note[i].kind # "catalog"
      BY <1>6, <2>3
    <3> QED BY <2>3, <3>1, <3>2, <3>3, DropLists, ZenonT(60)
  <2> QED BY <1>7, <2>1, <2>2, <2>3
<1>11. UNCHANGED <<db, touched, note, met, cut>>
  BY <1>3 DEF Unwritten
<1>12. ASSUME l # Idle, NEW j \in DOMAIN s PROVE Listed(l, j)' /\ Finds(l, j)'
  <2>1. CASE k.req.op = "delete"
    BY <1>9, <1>10, <1>11, <1>12, <2>1, DropsHang
  <2>2. CASE k.req.op # "delete"
    <3>1. j = 1 /\ s[1][1] = k.req.op /\ s[1][2] = i /\ k.req.op \in {"rename", "dropVersion"}
      BY <1>3, <1>7, <1>8, <1>12, <2>2
    <3>2. l.todo[j] = s[1] /\ l.req = k.req
      BY <1>9, <1>12, <3>1, Sitting DEF Follows
    <3>3. Listed(l, j) /\ Finds(l, j)
      BY <1>5, <3>1, <3>2 DEF Listed, Finds
    <3> QED BY <1>11, <3>3, HangSame
  <2> QED BY <2>1, <2>2
<1>13. k.req.op \notin {"create", "stage"}
  BY <1>3
<1> QED BY <1>1, <1>3, <1>7, <1>9, <1>12, <1>13, ReadingHang

LEMMA CreationHangs ==
  ASSUME NEW l, NEW x, NEW s, s = CreateSteps(l.req, x), l.todo = s, NEW j \in DOMAIN s
  PROVE  Listed(l, j) /\ Finds(l, j) /\ s[j][2] = x
<1>1. /\ Chain(s, 1, 7, x) /\ Has(s, <<"row", x>>)
      /\ \A y : Has(s, y) => y[2] = x /\ y[1] \in {"staged", "root", "row", "parts", "props", "grant", "link"}
      /\ \A y : Has(s, y) /\ y[1] = "parts" => "parts" \in l.req.opts
      /\ \A w \in {"parts", "props"} : w \in l.req.opts => Has(s, <<w, x>>)
      /\ "delta" \notin l.req.opts => Has(s, <<"grant", x>>) /\ Has(s, <<"link", x>>)
  BY CreateStepsAre
<1>2. /\ DOMAIN s = 1..Len(s) /\ Len(s) \in Nat
      /\ \A y, z \in DOMAIN s : y < z => Rank(s[y][1]) < Rank(s[z][1])
      /\ \A y \in DOMAIN s : Rank(s[y][1]) \in Nat
  BY <1>1, RankNat DEF Chain
<1>3. \A y \in DOMAIN s : s[y][2] = x /\ s[y][1] \in {"staged", "root", "row", "parts", "props", "grant", "link"}
  BY <1>1 DEF Has
<1>4. ASSUME NEW y, Has(s, y), Rank(s[j][1]) < Rank(y[1]) PROVE Later(l, j, y)
  <2>1. PICK z \in DOMAIN s : s[z] = y
    BY <1>4 DEF Has
  <2>2. z > j
    <3>1. z # j /\ ~(z < j)
      BY <1>2, <1>4, <2>1
    <3> QED BY <1>2, <3>1
  <2> QED BY <2>1, <2>2 DEF Later
<1>5. Rank("row") = 3 /\ Rank("parts") = 4 /\ Rank("props") = 5 /\ Rank("grant") = 6 /\ Rank("link") = 7
      /\ Rank("staged") = 1 /\ Rank("root") = 2
  BY DEF Rank
<1>6. s[j][1] \in {"parts", "props", "link"} => Earlier(l, j, <<"row", x>>)
  <2> SUFFICES ASSUME s[j][1] \in {"parts", "props", "link"} PROVE Earlier(l, j, <<"row", x>>)
    OBVIOUS
  <2>1. PICK z \in DOMAIN s : s[z] = <<"row", x>> /\ s[z][1] = "row"
    BY <1>1 DEF Has
  <2>2. z # j /\ ~(j < z)
    BY <1>2, <1>5, <2>1
  <2>3. z \in 1..(j - 1)
    BY <1>2, <2>2
  <2> QED BY <2>1, <2>3 DEF Earlier
<1>7. s[j][1] = "row" => /\ \A w \in {"parts", "props"} : w \in l.req.opts => Later(l, j, <<w, x>>)
                         /\ "delta" \notin l.req.opts => Later(l, j, <<"grant", x>>) /\ Later(l, j, <<"link", x>>)
  BY <1>1, <1>4, <1>5
<1>8. s[j][1] = "grant" => \A z \in DOMAIN s : z > j => s[z][1] = "link"
  <2> SUFFICES ASSUME s[j][1] = "grant", NEW z \in DOMAIN s, z > j PROVE s[z][1] = "link"
    OBVIOUS
  <2>1. Rank(s[z][1]) > 6
    BY <1>2, <1>5
  <2> QED BY <1>3, <1>5, <2>1
<1>9. 1 \in DOMAIN s
  BY <1>2
<1>10. s[j][1] = "parts" => "parts" \in l.req.opts
  BY <1>1 DEF Has
<1>11. Listed(l, j)
  BY <1>3, <1>7, <1>8, <1>9, <1>10 DEF Listed
<1>12. Finds(l, j)
  BY <1>3, <1>6 DEF Finds
<1> QED BY <1>3, <1>11, <1>12

LEMMA LookCreateHang ==
  ASSUME TInv, TInv', RowsInv, HangInv, NEW c \in Client, LookCreate(c), ~Fails(c)
  PROVE  HangInv'
<1>1. PICK k, p, x : /\ k = call[c]
                     /\ p = IF Req(c).kind = "catalog" THEN None ELSE FindParent(db, Req(c).kind, Req(c).path)
                     /\ x = IF Req(c).staged # None THEN Req(c).staged ELSE nextId
  OBVIOUS
<1>2. PICK s : s = IF Req(c).op = "create" THEN CreateSteps(Req(c), x) ELSE << <<"stageRow", x>>, <<"grant", x>> >>
  OBVIOUS
<1>3. /\ Doing(c, "look") /\ Outside /\ Unwritten /\ UNCHANGED cut /\ k.req.op \in {"create", "stage"}
      /\ call' = [call EXCEPT ![c].parent = p, ![c].todo = s]
  BY <1>1, <1>2 DEF LookCreate, Looks, Req
<1>4. PICK l : l = [k EXCEPT !.parent = p, !.todo = s]
  OBVIOUS
<1>5. Becomes(c, l)
  BY <1>1, <1>3, <1>4 DEF Becomes, TInv, TypeOK
<1>6. k \in Call /\ k.req = Req(c)
  BY <1>1 DEF TInv, TypeOK, Req
<1>7. l.todo = s /\ l.req = k.req
  BY <1>4, <1>6 DEF Call
<1>8. ASSUME NEW j \in DOMAIN l.todo PROVE Listed(l, j) /\ Finds(l, j)
  <2>1. CASE k.req.op = "create"
    <3>1. s = CreateSteps(l.req, x)
      BY <1>2, <1>6, <1>7, <2>1
    <3> QED BY <1>7, <1>8, <3>1, CreationHangs
  <2>2. CASE k.req.op = "stage"
    <3>1. s = << <<"stageRow", x>>, <<"grant", x>> >>
      BY <1>2, <1>6, <2>2
    <3>2. DOMAIN s = {1, 2} /\ s[1][1] = "stageRow" /\ s[2][1] = "grant" /\ s[1][2] = x /\ s[2][2] = x
      BY <3>1
    <3> QED BY <1>7, <1>8, <2>2, <3>2 DEF Listed, Finds
  <2> QED BY <1>3, <2>1, <2>2
<1> QED BY <1>3, <1>5, <1>8, LookedHang

LEMMA LookHang == ASSUME TInv, TInv', RowsInv, HangInv, NEW c \in Client, Look(c), ~Fails(c) PROVE HangInv'
BY LookCreateHang, LookUpHang, LookAddVersionHang, LookListHang DEF Look, LookDelete, LookRename, LookDropVersion

-----------------------------------------------------------------------------
(* The steps that write                                                    *)

LEMMA RenameQuiet ==
  ASSUME TInv, RowsInv, NEW c \in Client, Outside, Rename(c), ~Fails(c), NEW i \in Id
  PROVE  Quiet(i) /\ Steady(i)
<1>1. PICK h : h = Hit(c)
  OBVIOUS
<1>2. CASE i # h \/ h \notin Live(db)
  BY <1>1, <1>2, RenameApart, SameQuiet
<1>3. CASE i = h /\ h \in Live(db)
  <2>1. /\ Others("objs") /\ note'[h].gone = "no" /\ Live(db') = Live(db) /\ db'.objs[h].parent = db.objs[h].parent
        /\ note'[h].kind = note[h].kind /\ note'[h].made = note[h].made /\ note'[h].wants = note[h].wants
    BY <1>1, <1>3, RenameDoes
  <2> QED BY <1>3, <2>1 DEF Quiet, Calm, Settled, Steady, Others
<1> QED BY <1>2, <1>3

LEMMA RenameHang ==
  ASSUME TInv, TInv', RowsInv, HangInv, NEW c \in Client, Outside, Rename(c), ~Fails(c)
  PROVE  HangInv'
<1>1. PICK k, l, h : k = call[c] /\ l = call'[c] /\ h = Hit(c)
  OBVIOUS
<1>2. /\ Doing(c, "rename") /\ On(c) \in Id /\ k.todo # << >> /\ k # Idle /\ k.todo[1][1] = "rename" /\ k.todo[1][2] = On(c)
      /\ k.req.op = "rename" /\ 1 \in DOMAIN k.todo /\ PlainOK(k, k.todo[1]) /\ Busy(k)
  <2>1. Doing(c, "rename")
    BY DEF Rename
  <2> QED BY <1>1, <2>1, AtSingle, HeadOK, OpOf DEF Req, Single
<1>3. note[On(c)].kind = k.req.kind /\ k.req.kind # "none"
  BY <1>2, RequestIs DEF PlainOK
<1>4. Finds(k, 1)
  BY <1>1, <1>2 DEF HangInv
<1>5. Open(k.n, On(c)) \/ On(c) \in Live(db)
  BY <1>2, <1>4 DEF Finds
<1>6. Apart(c)
  BY RenameApart
<1>7. h \in Id /\ note'[h].kind # "none" /\ (Open(k.n, h)' \/ h \in Live(db'))
  <2>1. CASE h \in Live(db)
    <3>1. h \in Id /\ note[h].kind = db.objs[h].kind /\ db.objs[h] \in Object
      BY <2>1 DEF RowsInv, RowOK, Live, TInv, TypeOK, Database
    <3>2. note[h].kind # "none"
      BY <3>1 DEF Object, Kinds, Leaves
    <3>3. note'[h].kind = note[h].kind /\ Live(db') = Live(db)
      BY <1>1, <3>1, RenameDoes
    <3> QED BY <2>1, <3>1, <3>2, <3>3
  <2>2. CASE h \notin Live(db)
    <3>1. h = On(c)
      BY <1>1, <2>2, RenameDoes
    <3>2. note'[h].kind = note[h].kind
      BY <1>1, <1>2, <3>1, RenameDoes
    <3>3. Open(k.n, h)'
      BY <1>2, <1>5, <1>6, <2>2, <3>1, OpenStays
    <3> QED BY <1>2, <1>3, <3>1, <3>2, <3>3
  <2> QED BY <2>1, <2>2
<1>8. PICK more : more = When("props" \in k.req.opts, <<"props", h>>)
  OBVIOUS
<1>9. Proceed(c, more)
  BY <1>1, <1>8 DEF Rename, Req
<1>10. more \in Seq(Step) /\ \A j \in DOMAIN more : more[j] = <<"props", h>>
  <2>1. PICK y : y = <<"props", h>>
    OBVIOUS
  <2>2. y \in Single \X Id
    BY <1>7, <2>1 DEF Single
  <2>3. y \in Step
    BY <2>2 DEF Step
  <2>4. CASE "props" \in k.req.opts
    <3>1. more = <<y>>
      BY <1>8, <2>1, <2>4 DEF When
    <3> HIDE DEF Step
    <3> QED BY <2>1, <2>3, <3>1
  <2>5. CASE "props" \notin k.req.opts
    <3>1. more = << >>
      BY <1>8, <2>5 DEF When
    <3>2. PICK z \in Seq(Step) : z = << >> /\ DOMAIN z = {}
      BY NoSteps
    <3> HIDE DEF Step
    <3> QED BY <3>1, <3>2
  <2> QED BY <2>4, <2>5
<1>11. Becomes(c, l) /\ Remembers(k, l) /\ (l = Idle \/ Follows(k, l, more))
  BY <1>1, <1>2, <1>9, <1>10, Proceeded
<1>12. \A i \in Id : Quiet(i) /\ Steady(i)
  BY RenameQuiet
<1>13. \A i \in Id : Fine(i)'
  BY <1>1, <1>2, <1>6, <1>11, <1>12, QuietFine
<1>14. \A i \in Id : k.todo[1] # <<"row", i>>
  BY <1>2
<1>15. Wrote(k)
  BY <1>2, <1>12, <1>14 DEF Wrote
<1>16. KindsStay
  BY <1>1, RenameDoes DEF KindsStay
<1>17. ASSUME l # Idle, NEW j \in DOMAIN more PROVE Listed(l, j)' /\ Finds(l, j)'
  <2>1. l.todo[j] = <<"props", h>> /\ l.req = k.req /\ l.n = k.n
    BY <1>10, <1>11, <1>17, Sitting DEF Follows
  <2>2. l.todo[j][1] = "props" /\ l.todo[j][2] = h
    BY <2>1
  <2> QED BY <1>2, <1>7, <2>1, <2>2 DEF Listed, Finds
<1>18. k.req.op \notin {"create", "stage"}
  BY <1>2
<1> QED BY <1>1, <1>2, <1>6, <1>11, <1>13, <1>15, <1>16, <1>17, <1>18, GoesOn

\* What a call has touched and lost is broken.
LEMMA BreaksNow ==
  ASSUME TInv', KinInv, UNCHANGED met, NEW i \in Id, NEW n, n \in touched'[i], Open(n, i)'
  PROVE  Broken(i)'
<1>1. n \in Ordinal
  BY DEF TInv, TypeOK
<1>2. {n} \notin met'
  BY <1>1 DEF KinInv, NumbersOK
<1>3. CASE \E x \in touched'[i] : {x, n} \in met'
  <2>1. PICK x \in touched'[i] : {x, n} \in met'
    BY <1>3
  <2>2. x # n
    BY <1>2, <2>1
  <2> QED BY <2>1, <2>2 DEF Broken, Clash
<1> QED BY <1>3 DEF Open, Overlaps

\* Whose turn it is.
LEMMA HeadHang ==
  ASSUME TInv, RowsInv, NEW c \in Client, NEW what \in Single, Doing(c, what)
  PROVE  /\ call[c].todo # << >> /\ call[c] # Idle /\ On(c) \in Id
         /\ call[c].todo[1] = <<what, On(c)>> /\ call[c].todo[1][1] = what /\ call[c].todo[1][2] = On(c)
BY AtSingle, HeadOK DEF At, Req

\* The step whose turn it is.
LEMMA AtHang ==
  ASSUME TInv, TInv', RowsInv, HangInv, NEW c \in Client, NEW what \in Single, Doing(c, what),
         NEW k, k = call[c], NEW l, l = call'[c], NEW x, x = On(c)
  PROVE  /\ k.todo # << >> /\ k # Idle /\ Busy(k) /\ k.n \in Ordinal /\ k.req = Req(c) /\ 1 \in DOMAIN k.todo
         /\ k.todo[1] = <<what, x>> /\ k.todo[1][1] = what /\ k.todo[1][2] = x /\ x \in Id
         /\ Listed(k, 1) /\ Finds(k, 1) /\ PlaceOK(k, 1)
         /\ \A y : ~Earlier(k, 1, y) /\ (Later(k, 1, y) => Has(k.todo, y))
         /\ Proceed(c, << >>) => Becomes(c, l) /\ Remembers(k, l)
<1>1. /\ k.todo # << >> /\ k # Idle /\ Busy(k) /\ k.n \in Ordinal /\ 1 \in DOMAIN k.todo /\ k.req = Req(c) /\ PlaceOK(k, 1)
      /\ k.todo[1] = <<what, x>> /\ k.todo[1][1] = what /\ k.todo[1][2] = x /\ x \in Id
  BY AtSingle, HeadOK DEF At, Req
<1>2. Listed(k, 1) /\ Finds(k, 1)
  BY <1>1 DEF HangInv
<1>3. \A y : ~Earlier(k, 1, y) /\ (Later(k, 1, y) => Has(k.todo, y))
  <2>1. 1..(1 - 1) = {}
    OBVIOUS
  <2> QED BY <2>1 DEF Earlier, Later, Has
<1>4. PICK more \in Seq(Step) : more = << >>
  BY NoSteps
<1>5. Proceed(c, << >>) => Becomes(c, l) /\ Remembers(k, l)
  BY <1>1, <1>4, Proceeded
<1> QED BY <1>1, <1>2, <1>3, <1>5

\* What is left to show of a step that puts nothing in front of what is left.
LEMMA WritingHang ==
  ASSUME TInv, TInv', RowsInv, HangInv, NEW c \in Client, Apart(c), KindsStay, NEW k, k = call[c], k # Idle, k.todo # << >>,
         Proceed(c, << >>), Wrote(k), \A i \in Id : Fine(i)' \/ (Quiet(i) /\ k.todo[1][2] # i)
  PROVE  HangInv'
<1>1. PICK l : l = call'[c]
  OBVIOUS
<1>2. PICK more \in Seq(Step) : more = << >> /\ DOMAIN more = {}
  BY NoSteps
<1>3. Becomes(c, l) /\ Remembers(k, l) /\ (l = Idle \/ Follows(k, l, more))
  BY <1>1, <1>2, Proceeded
<1>4. \A i \in Id : Fine(i)'
  BY <1>3, QuietFine
<1> QED BY <1>2, <1>3, <1>4, GoesOn

\* What was owed still is, after a step of another kind.
LEMMA OwesKept ==
  ASSUME NEW c, Apart(c), NEW k, NEW l, Remembers(k, l), NEW i \in Id, NEW w, Owes(k, w, i),
         k.todo[1][1] \notin {w, "dropRow"} \/ k.todo[1][2] # i
  PROVE  Owes(l, w, i)'
<1>1. touched[i] \subseteq touched'[i]
  BY DEF Apart
<1>2. k.todo[1] # <<w, i>> /\ k.todo[1] # <<"dropRow", i>>
  OBVIOUS
<1> QED BY <1>1, <1>2 DEF Owes, Remembers

\* Who is to own it, after a step of another kind.
LEMMA OwnedStill ==
  ASSUME TInv, NEW c \in Client, Apart(c), NEW l, Becomes(c, l), NEW k, k = call[c], Remembers(k, l), NEW i \in Id, Fine(i),
         Settled(i), k.todo[1][1] \notin {"grant", "link"},
         i \in Live(db'), note'[i].made # None, "owner" \in note'[i].wants
  PROVE  Owned(i)'
<1>1. PICK p : p = db.objs[i].parent
  OBVIOUS
<1>2. /\ Owned(i) /\ note'[i].made = note[i].made /\ p = db'.objs[i].parent
      /\ (i \in db.owners => i \in db'.owners) /\ \A q : <<i, q>> \in db'.links <=> <<i, q>> \in db.links
  BY <1>1 DEF Settled, Fine
<1>3. \A x \in {"grant", "link"} : Makes(k, i, x) => Makes(l, i, x)'
  <2> SUFFICES ASSUME NEW x \in {"grant", "link"}, Makes(k, i, x) PROVE Makes(l, i, x)'
    OBVIOUS
  <2>1. k.todo[1] # <<x, i>>
    OBVIOUS
  <2> QED BY <1>1, <1>2, <2>1 DEF Makes, Remembers
<1> QED BY <1>1, <1>2, <1>3, OwnedKept

\* Who is to own it, as far as the call itself knows.
LEMMA OwnedNow ==
  ASSUME TInv, NEW c \in Client, NEW l, Becomes(c, l), NEW i \in Id,
         \/ Broken(i)'
         \/ /\ i \in db'.owners \/ Makes(l, i, "grant")'
            /\ \A p : <<i, p>> \in db'.links => p = db'.objs[i].parent
            /\ <<i, db'.objs[i].parent>> \in db'.links \/ Makes(l, i, "link")'
  PROVE  Owned(i)'
<1>1. call'[c] = l
  BY DEF Becomes, TInv, TypeOK
<1>2. ASSUME NEW x, Makes(l, i, x)' PROVE \E e \in Client : \E m \in {call'[e]} : Makes(m, i, x)'
  BY <1>1, <1>2
<1>3. \/ Broken(i)'
      \/ /\ i \in db'.owners \/ \E e \in Client : \E m \in {call'[e]} : Makes(m, i, "grant")'
         /\ \A q : <<i, q>> \in db'.links => q = db'.objs[i].parent
         /\ <<i, db'.objs[i].parent>> \in db'.links \/ \E e \in Client : \E m \in {call'[e]} : Makes(m, i, "link")'
  BY <1>2
<1> QED BY <1>3, ZenonT(60) DEF Owned, Makes

LEMMA AddPartsHang ==
  ASSUME TInv, TInv', RowsInv, KinInv, HangInv, NEW c \in Client, Outside, KindsStay, AddParts(c)
  PROVE  HangInv'
<1>1. PICK k, l, x : k = call[c] /\ l = call'[c] /\ x = On(c)
  OBVIOUS
<1>2. Doing(c, "parts")
  BY DEF AddParts
<1>3. /\ Apart(c) /\ UNCHANGED <<met, cut>> /\ Proceed(c, << >>) /\ k.n \in touched'[x]
      /\ \A i \in Id \ {x} : Same(i)
  BY <1>1, HangingApart
<1>4. /\ k.todo # << >> /\ k # Idle /\ k.todo[1] = <<"parts", x>> /\ k.todo[1][1] = "parts" /\ k.todo[1][2] = x /\ x \in Id
      /\ Finds(k, 1) /\ \A y : ~Earlier(k, 1, y)
      /\ Becomes(c, l) /\ Remembers(k, l) /\ k.req.op = "create"
  <2>1. Req(c).op = "create" /\ "parts" \in Single
    BY <1>2, OpOf DEF Single
  <2>2. \A y : ~Earlier(k, 1, y)
    BY <1>1, <1>2, <2>1, AtHang
  <2>3. k.todo # << >> /\ k # Idle /\ k.todo[1] = <<"parts", x>> /\ k.todo[1][1] = "parts" /\ k.todo[1][2] = x /\ x \in Id
    BY <1>1, <1>2, <2>1, HeadHang
  <2>4. Finds(k, 1) /\ Becomes(c, l) /\ Remembers(k, l) /\ k.req.op = "create"
    BY <1>1, <1>2, <1>3, <2>1, AtHang
  <2> QED BY <2>2, <2>3, <2>4
<1>5. /\ db'.parts = db.parts \cup {x} /\ db'.props = db.props /\ db'.owners = db.owners /\ db'.links = db.links
      /\ db'.objs = db.objs /\ note' = note /\ Live(db') = Live(db)
  BY <1>1, HangingDoes DEF Others, Live
<1>6. note[x].kind \in {"table", "function"} /\ (Open(k.n, x) \/ (x \in Live(db) /\ "parts" \in note[x].wants))
  BY <1>4 DEF Finds
<1>7. Settled(x) /\ Fine(x) /\ RowHang(x)
  BY <1>4, <1>5 DEF Settled, HangInv, Fine
<1>8. RowHang(x)'
  <2>1. touched[x] \subseteq touched'[x]
    BY <1>3, <1>4 DEF Apart
  <2> QED BY <1>5, <1>6, <1>7, <2>1 DEF RowHang
<1>9. Belongs("parts", x)'
  <2>1. Open(k.n, x) => Broken(x)'
    BY <1>3, <1>4, OpenStays, BreaksNow
  <2>2. x \in Live(db) /\ "parts" \in note[x].wants => Right("parts", x)'
    BY <1>5 DEF Right
  <2> QED BY <1>1, <1>3, <1>4, <1>6, <1>7, <2>1, <2>2, BelongsKept DEF Fine
<1>10. Belongs("props", x)'
  <2>1. Right("props", x) => Right("props", x)'
    BY <1>5 DEF Right, Cascaded
  <2>2. Owes(k, "props", x) => Owes(l, "props", x)'
    BY <1>3, <1>4, OwesKept
  <2> QED BY <1>1, <1>3, <1>4, <1>7, <2>1, <2>2, BelongsKept DEF Fine
<1>11. x \in Live(db') /\ note'[x].made # None /\ "owner" \in note'[x].wants => Owned(x)'
  BY <1>1, <1>3, <1>4, <1>7, OwnedStill
<1>12. Fine(x)'
  BY <1>8, <1>9, <1>10, <1>11 DEF Fine
<1>13. \A i \in Id : Fine(i)' \/ (Quiet(i) /\ k.todo[1][2] # i)
  BY <1>3, <1>4, <1>12, SameQuiet
<1>14. Wrote(k)
  BY <1>4, <1>5 DEF Wrote, Steady
<1> QED BY <1>1, <1>3, <1>4, <1>13, <1>14, WritingHang

LEMMA SetPropsHang ==
  ASSUME TInv, TInv', RowsInv, KinInv, HangInv, NEW c \in Client, Outside, KindsStay, SetProps(c)
  PROVE  HangInv'
<1>1. PICK k, l, x : k = call[c] /\ l = call'[c] /\ x = On(c)
  OBVIOUS
<1>2. Doing(c, "props")
  BY DEF SetProps
<1>3. /\ Apart(c) /\ UNCHANGED <<met, cut>> /\ Proceed(c, << >>) /\ k.n \in touched'[x]
      /\ \A i \in Id \ {x} : Same(i)
  BY <1>1, HangingApart
<1>4. /\ k.todo # << >> /\ k # Idle /\ k.todo[1] = <<"props", x>> /\ k.todo[1][1] = "props" /\ k.todo[1][2] = x /\ x \in Id
      /\ Finds(k, 1) /\ \A y : ~Earlier(k, 1, y)
      /\ Becomes(c, l) /\ Remembers(k, l) /\ k.req.op # "delete"
  <2>1. Req(c).op # "delete" /\ "props" \in Single
    BY <1>2, OpOf DEF Single
  <2>2. \A y : ~Earlier(k, 1, y)
    BY <1>1, <1>2, <2>1, AtHang
  <2>3. k.todo # << >> /\ k # Idle /\ k.todo[1] = <<"props", x>> /\ k.todo[1][1] = "props" /\ k.todo[1][2] = x /\ x \in Id
    BY <1>1, <1>2, <2>1, HeadHang
  <2>4. Finds(k, 1) /\ Becomes(c, l) /\ Remembers(k, l) /\ k.req.op # "delete"
    BY <1>1, <1>2, <1>3, <2>1, AtHang
  <2> QED BY <2>2, <2>3, <2>4
<1>5. /\ db'.parts = db.parts /\ db'.props = db.props \cup {x} /\ db'.owners = db.owners /\ db'.links = db.links
      /\ db'.objs = db.objs /\ Live(db') = Live(db)
      /\ note'[x].kind = note[x].kind /\ note'[x].made = note[x].made /\ note'[x].gone = note[x].gone
      /\ note'[x].wants = note[x].wants \cup {"props"}
  BY <1>1, <1>4, HangingDoes, PropsWanted DEF Others, Live
<1>6. note[x].kind # "none" /\ (Open(k.n, x) \/ x \in Live(db))
  BY <1>4 DEF Finds
<1>7. Settled(x) /\ Fine(x) /\ RowHang(x)
  BY <1>4, <1>5 DEF Settled, HangInv, Fine
<1>8. RowHang(x)'
  <2>1. touched[x] \subseteq touched'[x]
    BY <1>3, <1>4 DEF Apart
  <2> QED BY <1>5, <1>6, <1>7, <2>1 DEF RowHang
<1>9. Belongs("props", x)'
  <2>1. Open(k.n, x) => Broken(x)'
    BY <1>3, <1>4, OpenStays, BreaksNow
  <2>2. x \in Live(db) => Right("props", x)'
    BY <1>5 DEF Right
  <2> QED BY <1>1, <1>3, <1>4, <1>6, <1>7, <2>1, <2>2, BelongsKept DEF Fine
<1>10. Belongs("parts", x)'
  <2>1. Right("parts", x) => Right("parts", x)'
    BY <1>5 DEF Right
  <2>2. Owes(k, "parts", x) => Owes(l, "parts", x)'
    BY <1>3, <1>4, OwesKept
  <2> QED BY <1>1, <1>3, <1>4, <1>7, <2>1, <2>2, BelongsKept DEF Fine
<1>11. x \in Live(db') /\ note'[x].made # None /\ "owner" \in note'[x].wants => Owned(x)'
  BY <1>1, <1>3, <1>4, <1>7, OwnedStill
<1>12. Fine(x)'
  BY <1>8, <1>9, <1>10, <1>11 DEF Fine
<1>13. \A i \in Id : Fine(i)' \/ (Quiet(i) /\ k.todo[1][2] # i)
  BY <1>3, <1>4, <1>12, SameQuiet
<1>14. \A i \in Id : Steady(i)
  <2>1. Steady(x)
    BY <1>5 DEF Steady
  <2> QED BY <1>3, <2>1, SameQuiet
<1>15. \A i \in Id : k.todo[1] # <<"row", i>>
  BY <1>4
<1>16. Wrote(k)
  BY <1>4, <1>14, <1>15 DEF Wrote
<1> QED BY <1>1, <1>3, <1>4, <1>13, <1>16, WritingHang

LEMMA DropHangingHang ==
  ASSUME TInv, TInv', RowsInv, KinInv, HangInv, NEW c \in Client, Outside, KindsStay,
         NEW what \in {"dropParts", "dropProps"}, IF what = "dropParts" THEN DropParts(c) ELSE DropProps(c)
  PROVE  HangInv'
<1>1. PICK k, l, x : k = call[c] /\ l = call'[c] /\ x = On(c)
  OBVIOUS
<1>2. Doing(c, what)
  BY DEF DropParts, DropProps
<1>3. /\ Apart(c) /\ UNCHANGED <<met, cut>> /\ Proceed(c, << >>) /\ k.n \in touched'[x]
      /\ \A i \in Id \ {x} : Same(i)
  BY <1>1, HangingApart
<1>4. /\ k.todo # << >> /\ k # Idle /\ k.todo[1] = <<what, x>> /\ k.todo[1][1] = what /\ k.todo[1][2] = x /\ x \in Id
      /\ Listed(k, 1) /\ \A y : Later(k, 1, y) => Has(k.todo, y)
      /\ Becomes(c, l) /\ Remembers(k, l) /\ k.req.op = "delete"
  <2>1. Req(c).op = "delete" /\ what \in Single
    BY <1>2, OpOf DEF Single, DropStep
  <2>2. \A y : Later(k, 1, y) => Has(k.todo, y)
    BY <1>1, <1>2, <2>1, AtHang
  <2>3. k.todo # << >> /\ k # Idle /\ k.todo[1] = <<what, x>> /\ k.todo[1][1] = what /\ k.todo[1][2] = x /\ x \in Id
    BY <1>1, <1>2, <2>1, HeadHang
  <2>4. Listed(k, 1) /\ Becomes(c, l) /\ Remembers(k, l) /\ k.req.op = "delete"
    BY <1>1, <1>2, <1>3, <2>1, AtHang
  <2> QED BY <2>2, <2>3, <2>4
<1>5. /\ db'.parts = (IF what = "dropParts" THEN db.parts \ {x} ELSE db.parts)
      /\ db'.props = (IF what = "dropProps" THEN db.props \ {x} ELSE db.props)
      /\ db'.owners = db.owners /\ db'.links = db.links /\ db'.objs = db.objs /\ note' = note /\ Live(db') = Live(db)
  BY <1>1, HangingDoes DEF Others, Live
<1>6. \A w : Owes(l, w, x)'
  <2>1. Has(k.todo, <<"dropRow", x>>) /\ <<"dropRow", x>> # k.todo[1]
    BY <1>4 DEF Listed
  <2>2. Has(l.todo, <<"dropRow", x>>) /\ l.n = k.n
    BY <1>4, <2>1 DEF Remembers
  <2> QED BY <1>3, <2>2 DEF Owes
<1>7. Settled(x) /\ Fine(x) /\ RowHang(x)
  BY <1>4, <1>5 DEF Settled, HangInv, Fine
<1>8. RowHang(x)'
  <2>1. touched[x] \subseteq touched'[x]
    BY <1>3, <1>4 DEF Apart
  <2>2. (x \in db'.parts => x \in db.parts) /\ (x \in db'.props => x \in db.props)
    BY <1>5
  <2> QED BY <1>5, <1>7, <2>1, <2>2 DEF RowHang
<1>9. \A w \in {"parts", "props"} : Belongs(w, x)'
  BY <1>1, <1>3, <1>4, <1>6, <1>7, BelongsKept DEF Fine
<1>10. x \in Live(db') /\ note'[x].made # None /\ "owner" \in note'[x].wants => Owned(x)'
  BY <1>1, <1>3, <1>4, <1>7, OwnedStill
<1>11. Fine(x)'
  BY <1>8, <1>9, <1>10 DEF Fine
<1>12. \A i \in Id : Fine(i)' \/ (Quiet(i) /\ k.todo[1][2] # i)
  BY <1>3, <1>4, <1>11, SameQuiet
<1>13. \A i \in Id : /\ i \in db'.parts => i \in db.parts /\ k.todo[1] # <<"dropParts", i>>
                     /\ i \in db'.props => i \in db.props /\ k.todo[1] # <<"dropProps", i>>
  <2> SUFFICES ASSUME NEW i \in Id
               PROVE  /\ i \in db'.parts => i \in db.parts /\ k.todo[1] # <<"dropParts", i>>
                      /\ i \in db'.props => i \in db.props /\ k.todo[1] # <<"dropProps", i>>
    OBVIOUS
  <2>1. \A w : k.todo[1] = <<w, i>> => what = w /\ x = i
    BY <1>4
  <2> QED BY <1>5, <2>1
<1>14. Wrote(k)
  BY <1>4, <1>5, <1>13 DEF Wrote
<1> QED BY <1>1, <1>3, <1>4, <1>12, <1>14, WritingHang

\* What a drop takes with the row, and what it leaves.
LEMMA DropOneFine ==
  ASSUME TInv, TInv', RowsInv, KinInv, HangInv, NEW c \in Client, Outside, DropOne(c), ~Fails(c), NEW h, h = Hit(c)
  PROVE  Fine(h)'
<1>1. PICK k, l, x : k = call[c] /\ l = call'[c] /\ x = On(c)
  OBVIOUS
<1>2. Doing(c, "dropRow") /\ Apart(c) /\ UNCHANGED met
  BY DropOneApart DEF DropOne
<1>3. /\ h \in Id /\ h \notin Live(db') /\ k.n \in touched'[h] /\ Proceed(c, << >>)
      /\ h = x \/ (h \in Live(db) /\ Overlaps(k.n, h))
      /\ h \notin Live(db) => note[h].kind = "model"
      /\ db'.props = db.props /\ db'.owners = db.owners /\ db'.links = db.links
      /\ h \in db'.parts <=> h \in db.parts /\ db.objs[h].kind # "function"
      /\ note'[h].kind = note[h].kind /\ note'[h].made = note[h].made /\ note'[h].wants = note[h].wants
      /\ note'[h].gone = IF note[h].kind = Req(c).kind THEN "dropped" ELSE "cascaded"
  BY <1>1, DropOneDoes
<1>4. /\ k.todo[1] = <<"dropRow", x>> /\ k.todo[1][1] = "dropRow" /\ k.todo[1][2] = x /\ x \in Id
      /\ Finds(k, 1) /\ (\A y : ~Earlier(k, 1, y)) /\ Becomes(c, l) /\ k.req = Req(c)
  <2>1. "dropRow" \in Single
    BY DEF Single
  <2>2. \A y : ~Earlier(k, 1, y)
    BY <1>1, <1>2, <2>1, AtHang
  <2>3. k.todo[1] = <<"dropRow", x>> /\ k.todo[1][1] = "dropRow" /\ k.todo[1][2] = x /\ x \in Id
    BY <1>1, <1>2, <2>1, HeadHang
  <2>4. Finds(k, 1) /\ Becomes(c, l) /\ Remembers(k, l) /\ k.req = Req(c)
    BY <1>1, <1>2, <1>3, <2>1, AtHang
  <2> QED BY <2>2, <2>3, <2>4
<1>5. Fine(h) /\ RowHang(h) /\ touched[h] \subseteq touched'[h]
  BY <1>2, <1>3 DEF HangInv, Fine, Apart
<1>6. RowHang(h)'
  BY <1>3, <1>5 DEF RowHang
<1>7. Open(k.n, h) => Broken(h)'
  BY <1>2, <1>3, OpenStays, BreaksNow
<1>8. CASE h # x
  <2>1. Broken(h)'
    BY <1>3, <1>7, <1>8 DEF Open
  <2>2. \A w \in {"parts", "props"} : Belongs(w, h)'
    BY <1>1, <1>2, <1>3, <1>4, <1>5, <2>1, BelongsKept DEF Fine
  <2> QED BY <1>3, <1>6, <2>2 DEF Fine
<1>9. CASE h = x
  <2>1. h \in db'.parts => Broken(h)'
    <3> SUFFICES ASSUME h \in db.parts, db.objs[h].kind # "function" PROVE Open(k.n, h)
      BY <1>3, <1>7
    <3>1. note[h].kind \in {"table", "function"}
      BY <1>5 DEF RowHang
    <3>2. h \in Live(db) /\ note[h].kind = db.objs[h].kind
      BY <1>3, <3>1 DEF RowsInv, RowOK
    <3>3. note[h].kind = "table"
      BY <3>1, <3>2
    <3> QED BY <1>4, <1>9, <3>3 DEF Finds
  <2>2. Belongs("parts", h)'
    <3>1. Broken(h)' \/ Right("parts", h)'
      BY <1>3, <2>1 DEF Right
    <3> QED BY <1>1, <1>2, <1>3, <1>4, <1>5, <3>1, BelongsKept DEF Fine
  <2>3. \/ h \notin db.props \/ Open(k.n, h)
        \/ note[h].kind \in {"volume", "function", "model"} /\ note[h].kind # k.req.kind
    BY <1>4, <1>9 DEF Finds
  <2>4. Broken(h)' \/ Right("props", h)'
    <3>1. CASE h \notin db.props
      BY <1>3, <3>1 DEF Right
    <3>2. CASE note[h].kind \in {"volume", "function", "model"} /\ note[h].kind # k.req.kind
      BY <1>3, <1>4, <3>2 DEF Right, Cascaded
    <3> QED BY <1>7, <2>3, <3>1, <3>2
  <2>5. Belongs("props", h)'
    BY <1>1, <1>2, <1>3, <1>4, <1>5, <2>4, BelongsKept DEF Fine
  <2> QED BY <1>3, <1>6, <2>2, <2>5 DEF Fine
<1> QED BY <1>8, <1>9

\* The catalog that was looked up, if another one had the name by then.
LEMMA MissedFine ==
  ASSUME TInv, TInv', RowsInv, UniqueInv, KinInv, HangInv, NEW c \in Client, Outside, DropOne(c), ~Fails(c), NEW x, x = On(c), x # Hit(c)
  PROVE  Fine(x)'
<1>1. PICK k, l, h : k = call[c] /\ l = call'[c] /\ h = Hit(c)
  OBVIOUS
<1>2. Doing(c, "dropRow") /\ Apart(c)
  BY DropOneApart DEF DropOne
<1>3. Proceed(c, << >>) /\ h \in Live(db)
  BY <1>1, DropOneDoes
<1>4. /\ k.todo[1] = <<"dropRow", x>> /\ k.todo[1][1] = "dropRow" /\ k.todo[1][2] = x /\ x \in Id
      /\ Finds(k, 1) /\ (\A y : ~Earlier(k, 1, y)) /\ Becomes(c, l) /\ Remembers(k, l) /\ k.req = Req(c)
  <2>1. "dropRow" \in Single
    BY DEF Single
  <2>2. \A y : ~Earlier(k, 1, y)
    BY <1>1, <1>2, <2>1, AtHang
  <2>3. k.todo[1] = <<"dropRow", x>> /\ k.todo[1][1] = "dropRow" /\ k.todo[1][2] = x /\ x \in Id
    BY <1>1, <1>2, <2>1, HeadHang
  <2>4. Finds(k, 1) /\ Becomes(c, l) /\ Remembers(k, l) /\ k.req = Req(c)
    BY <1>1, <1>2, <1>3, <2>1, AtHang
  <2> QED BY <2>2, <2>3, <2>4
<1>5. Quiet(x)
  BY <1>2, <1>4, DropOneApart, SameQuiet
<1>6. note[x].kind = "catalog" /\ h = Find(db, "catalog", None, k.req.path[1])
  BY <1>1, <1>4 DEF Hit
<1>7. Open(k.n, x)
  <2> SUFFICES ASSUME x \in Live(db), db.objs[x].name = k.req.path[1] PROVE FALSE
    BY <1>4, <1>6 DEF Finds
  <2>1. db.objs[x].kind = "catalog"
    BY <1>4, <1>6 DEF RowsInv, RowOK
  <2>2. db.objs[x].parent = None
    BY <1>4, <2>1 DEF KinInv, RowKin
  <2>3. h # None
    BY <1>3, NoneNot, LiveIs
  <2>4. db.objs[h].kind = "catalog" /\ db.objs[h].parent = None /\ db.objs[h].name = k.req.path[1]
    BY <1>6, <2>3, FindIs
  <2>5. Key(db.objs[h]) = Key(db.objs[x])
    BY <2>1, <2>2, <2>4 DEF Key
  <2> QED BY <1>1, <1>3, <2>5 DEF UniqueInv, NamesUnique
<1>8. k.n \in touched[x] => Broken(x)'
  BY <1>2, <1>4, <1>7, OpenBreaks, OpenStays
<1>9. \A y \in {"grant", "link"} : k.todo[1] # <<y, x>>
  BY <1>4
<1>10. \A y \in {"grant", "link"} : Makes(k, x, y) => Makes(l, x, y)'
  BY <1>4, <1>5, <1>9 DEF Makes, Remembers, Quiet, Settled
<1>11. Minds(k, l, x)
  BY <1>8, <1>10 DEF Minds, Owes
<1> QED BY <1>1, <1>2, <1>4, <1>5, <1>11, CalmFine DEF Quiet, HangInv

LEMMA DropOneHang ==
  ASSUME TInv, TInv', RowsInv, UniqueInv, KinInv, HangInv, NEW c \in Client, Outside, KindsStay, DropOne(c), ~Fails(c)
  PROVE  HangInv'
<1>1. PICK k, l, x, h : k = call[c] /\ l = call'[c] /\ x = On(c) /\ h = Hit(c)
  OBVIOUS
<1>2. Doing(c, "dropRow") /\ Apart(c)
  BY DropOneApart DEF DropOne
<1>3. /\ h \in Id /\ Proceed(c, << >>) /\ db'.props = db.props /\ (\A i : i \in db'.parts => i \in db.parts)
      /\ \A i \in Id \ {h} : db'.objs[i] = db.objs[i]
  BY <1>1, DropOneDoes
<1>4. /\ k.todo # << >> /\ k # Idle /\ k.todo[1][1] = "dropRow" /\ k.todo[1][2] = x /\ x \in Id /\ 1 \in DOMAIN k.todo
      /\ Listed(k, 1) /\ k.req.op = "delete"
  <2>1. "dropRow" \in Single /\ Req(c).op = "delete"
    BY <1>2, OpOf DEF Single, DropStep
  <2> QED BY <1>1, <1>2, <1>3, <2>1, AtHang
<1>5. \A i \in Id : i # h => Quiet(i)
  BY <1>1, DropOneApart, SameQuiet
<1>6. ASSUME NEW i \in Id PROVE Fine(i)' \/ (Quiet(i) /\ k.todo[1][2] # i)
  <2>1. CASE i = h
    BY <1>1, <2>1, DropOneFine
  <2>2. CASE i # h /\ i = x
    BY <1>1, <2>2, MissedFine
  <2>3. CASE i # h /\ i # x
    BY <1>4, <1>5, <1>6, <2>3
  <2> QED BY <2>1, <2>2, <2>3
<1>7. ASSUME NEW i \in Id, note[i].kind = "catalog" PROVE db'.objs[i] = db.objs[i] \/ Len(k.todo) = 1
  <2> SUFFICES ASSUME i = h PROVE Len(k.todo) = 1
    BY <1>3, <1>7
  <2>1. note[x].kind = "catalog"
    BY <1>1, <1>7 DEF Hit
  <2> QED BY <1>4, <2>1 DEF Listed
<1>8. \A i \in Id : k.todo[1] # <<"dropParts", i>> /\ k.todo[1] # <<"dropProps", i>>
  BY <1>4
<1>9. Wrote(k)
  BY <1>3, <1>4, <1>7, <1>8 DEF Wrote
<1> QED BY <1>1, <1>2, <1>3, <1>4, <1>6, <1>9, WritingHang

LEMMA CreateRowHang ==
  ASSUME TInv, TInv', RowsInv, KinInv, HangInv, NEW c \in Client, Outside, KindsStay, CreateRow(c), ~Fails(c)
  PROVE  HangInv'
<1>1. PICK k, l, x : k = call[c] /\ l = call'[c] /\ x = On(c)
  OBVIOUS
<1>2. Doing(c, "row") /\ Apart(c) /\ UNCHANGED met
  BY CreateRowApart DEF CreateRow
<1>3. /\ Others("objs") /\ Proceed(c, << >>)
      /\ \A i \in Id \ {x} : db'.objs[i] = db.objs[i] /\ note'[i] = note[i]
      /\ db'.objs[x].parent = k.parent /\ x \in Live(db')
      /\ note'[x].kind = k.req.kind /\ note'[x].made = k.n /\ note'[x].wants = Wanted(k.req) /\ note'[x].gone = "no"
      /\ note[x].kind \in {"none", "table"} /\ (note[x].kind = "table" => k.req.kind = "table")
      /\ k.n \in touched'[x]
  BY <1>1, CreateRowDoes
<1>4. /\ k.todo # << >> /\ k # Idle /\ k.todo[1] = <<"row", x>> /\ k.todo[1][1] = "row" /\ k.todo[1][2] = x /\ x \in Id
      /\ Listed(k, 1) /\ (\A y : Later(k, 1, y) => Has(k.todo, y)) /\ Becomes(c, l) /\ Remembers(k, l)
      /\ k.req.op = "create" /\ Busy(k) /\ PlaceOK(k, 1) /\ k.n \in Ordinal
  <2>1. "row" \in Single /\ Req(c).op = "create"
    BY <1>2, OpOf DEF Single
  <2>2. \A y : Later(k, 1, y) => Has(k.todo, y)
    BY <1>1, <1>2, <2>1, AtHang
  <2>3. k.todo # << >> /\ k # Idle /\ k.todo[1] = <<"row", x>> /\ k.todo[1][1] = "row" /\ k.todo[1][2] = x /\ x \in Id
    BY <1>1, <1>2, <2>1, HeadHang
  <2>4. Listed(k, 1) /\ Becomes(c, l) /\ Remembers(k, l)
    BY <1>1, <1>2, <1>3, <2>1, AtHang
  <2>5. k.req.op = "create" /\ Busy(k) /\ PlaceOK(k, 1) /\ k.n \in Ordinal
    BY <1>1, <1>2, <2>1, AtHang
  <2> QED BY <2>2, <2>3, <2>4, <2>5
<1>5. RowHang(x) /\ Fine(x)
  BY <1>4 DEF HangInv, Fine
<1>6. /\ db'.parts = db.parts /\ db'.props = db.props /\ db'.owners = db.owners /\ db'.links = db.links
  BY <1>3 DEF Others
<1>7. RowHang(x)'
  <2>1. k.req.kind # "none"
    BY <1>4, RequestIs
  <2> QED BY <1>3, <1>5, <1>6, <2>1 DEF RowHang
<1>8. note[x].kind = "none" \/ Broken(x)'
  <2>1. MakerOK(k, 1)
    BY <1>4 DEF PlaceOK, Making
  <2>2. note[x].kind = "none" \/ {note[x].made, k.n} \in met
    BY <1>4, <2>1 DEF MakerOK, Fresh
  <2>3. ASSUME {note[x].made, k.n} \in met PROVE Open(k.n, x)
    <3>1. note[x].made \in Ordinal
      BY <2>3 DEF TInv, TypeOK
    <3>2. note[x].made # None
      BY <3>1 DEF Ordinal, None
    <3> QED BY <1>5, <2>3, <3>2 DEF RowHang, Open, Overlaps
  <2>4. Open(k.n, x) => Broken(x)'
    BY <1>2, <1>3, <1>4, OpenStays, BreaksNow
  <2> QED BY <2>2, <2>3, <2>4
<1>9. note[x].kind = "none" => x \notin db.parts /\ x \notin db.props /\ \A p : <<x, p>> \notin db.links
  BY <1>5 DEF RowHang
<1>10. \A y : Later(k, 1, y) /\ y # k.todo[1] => Has(l.todo, y) /\ l.n = k.n /\ l.parent = k.parent
  BY <1>4 DEF Remembers
<1>11. \A w : <<w, x>> = k.todo[1] => w = "row"
  BY <1>4
<1>12. ASSUME NEW w \in {"parts", "props"} PROVE Belongs(w, x)'
  <2>1. CASE w \in k.req.opts
    <3>1. Has(l.todo, <<w, x>>) /\ l.n = k.n
      BY <1>4, <1>10, <1>11, <1>12, <2>1 DEF Listed
    <3>2. Owes(l, w, x)'
      BY <1>3, <3>1 DEF Owes
    <3> QED BY <1>1, <1>2, <1>4, <1>5, <3>2, BelongsKept DEF Fine
  <2>2. CASE w \notin k.req.opts
    <3>1. w \notin note'[x].wants
      BY <1>3, <1>12, <2>2 DEF Wanted
    <3>2. Broken(x)' \/ Right(w, x)'
      BY <1>6, <1>8, <1>9, <1>12, <3>1 DEF Right
    <3> QED BY <1>1, <1>2, <1>4, <1>5, <3>2, BelongsKept DEF Fine
  <2> QED BY <2>1, <2>2
<1>13. ASSUME "owner" \in note'[x].wants PROVE Owned(x)'
  <2>1. "delta" \notin k.req.opts
    BY <1>3, <1>13 DEF Wanted
  <2>2. \A w \in {"grant", "link"} : Has(l.todo, <<w, x>>) /\ l.n = k.n /\ l.parent = k.parent
    BY <1>4, <1>10, <1>11, <2>1 DEF Listed
  <2>3. \A w \in {"grant", "link"} : Makes(l, x, w)'
    BY <1>3, <2>2 DEF Makes
  <2>4. Broken(x)' \/ \A p : <<x, p>> \notin db'.links
    BY <1>6, <1>8, <1>9
  <2> QED BY <1>4, <2>3, <2>4, OwnedNow
<1>14. Fine(x)'
  BY <1>7, <1>12, <1>13 DEF Fine
<1>15. ASSUME NEW i \in Id, i # x PROVE Quiet(i) /\ Steady(i)
  <2>1. /\ db'.objs[i] = db.objs[i] /\ note'[i] = note[i] /\ (i \in Live(db') <=> i \in Live(db))
    BY <1>3, <1>15, LiveIs
  <2> QED BY <1>6, <2>1 DEF Quiet, Calm, Settled, Steady
<1>16. \A i \in Id : Fine(i)' \/ (Quiet(i) /\ k.todo[1][2] # i)
  BY <1>4, <1>14, <1>15
<1>17. Made(k, x)
  BY <1>3 DEF Made
<1>18. \A i \in Id : k.todo[1] = <<"row", i>> <=> i = x
  BY <1>4
<1>19. Wrote(k)
  BY <1>4, <1>15, <1>17, <1>18 DEF Wrote
<1> QED BY <1>1, <1>2, <1>3, <1>4, <1>16, <1>19, WritingHang

LEMMA LinkChildHang ==
  ASSUME TInv, TInv', RowsInv, KinInv, HangInv, NEW c \in Client, Outside, KindsStay, LinkChild(c)
  PROVE  HangInv'
<1>1. PICK k, l, x : k = call[c] /\ l = call'[c] /\ x = On(c)
  OBVIOUS
<1>2. Doing(c, "link")
  BY DEF LinkChild
<1>3. /\ Apart(c) /\ UNCHANGED <<met, cut>> /\ Proceed(c, << >>) /\ k.n \in touched'[x]
      /\ \A i \in Id \ {x} : Same(i)
  BY <1>1, HangingApart
<1>4. /\ k.todo # << >> /\ k # Idle /\ k.todo[1] = <<"link", x>> /\ k.todo[1][1] = "link" /\ k.todo[1][2] = x /\ x \in Id
      /\ Finds(k, 1) /\ (\A y : ~Earlier(k, 1, y)) /\ Becomes(c, l) /\ Remembers(k, l) /\ k.req.op = "create"
  <2>1. "link" \in Single /\ Req(c).op = "create"
    BY <1>2, OpOf DEF Single
  <2>2. \A y : ~Earlier(k, 1, y)
    BY <1>1, <1>2, <2>1, AtHang
  <2>3. k.todo # << >> /\ k # Idle /\ k.todo[1] = <<"link", x>> /\ k.todo[1][1] = "link" /\ k.todo[1][2] = x /\ x \in Id
    BY <1>1, <1>2, <2>1, HeadHang
  <2>4. Finds(k, 1) /\ Becomes(c, l) /\ Remembers(k, l) /\ k.req.op = "create"
    BY <1>1, <1>2, <1>3, <2>1, AtHang
  <2> QED BY <2>2, <2>3, <2>4
<1>5. PICK p : p = k.parent
  OBVIOUS
<1>6. /\ db'.parts = db.parts /\ db'.props = db.props /\ db'.owners = db.owners /\ db'.links = db.links \cup {<<x, p>>}
      /\ db'.objs = db.objs /\ note' = note /\ Live(db') = Live(db)
  BY <1>1, <1>5, HangingDoes DEF Others, Live
<1>7. note[x].kind # "none" /\ (Open(k.n, x) \/ (note[x].made = k.n /\ db.objs[x].parent = p))
  BY <1>4, <1>5 DEF Finds
<1>8. Fine(x) /\ RowHang(x) /\ touched[x] \subseteq touched'[x]
  BY <1>3, <1>4 DEF HangInv, Fine, Apart
<1>9. RowHang(x)'
  BY <1>6, <1>7, <1>8 DEF RowHang
<1>10. ASSUME NEW w \in {"parts", "props"} PROVE Belongs(w, x)'
  <2>1. Right(w, x) => Right(w, x)'
    BY <1>6, <1>10 DEF Right, Cascaded
  <2>2. Owes(k, w, x) => Owes(l, w, x)'
    BY <1>3, <1>4, <1>10, OwesKept
  <2> QED BY <1>1, <1>3, <1>4, <1>8, <2>1, <2>2, BelongsKept DEF Fine
<1>11. Open(k.n, x) => Broken(x)'
  BY <1>3, <1>4, OpenStays, BreaksNow
<1>12. x \in Live(db') /\ note'[x].made # None /\ "owner" \in note'[x].wants => Owned(x)'
  <2> SUFFICES ASSUME x \in Live(db), note[x].made # None, "owner" \in note[x].wants PROVE Owned(x)'
    BY <1>6
  <2>1. Owned(x)
    BY <1>8 DEF Fine
  <2>2. CASE Open(k.n, x)
    BY <1>4, <1>11, <2>2, OwnedNow
  <2>3. CASE db.objs[x].parent = p
    <3>1. k.todo[1] # <<"grant", x>>
      BY <1>4
    <3>2. Makes(k, x, "grant") => Makes(l, x, "grant")'
      BY <1>4, <1>6, <3>1 DEF Makes, Remembers
    <3>3. \A q : <<x, q>> \in db'.links => <<x, q>> \in db.links \/ q = p
      BY <1>6
    <3> QED BY <1>1, <1>3, <1>4, <1>6, <2>1, <2>3, <3>2, <3>3, OwnedKept, ZenonT(60)
  <2> QED BY <1>7, <2>2, <2>3
<1>13. Fine(x)'
  BY <1>9, <1>10, <1>12 DEF Fine
<1>14. \A i \in Id : Fine(i)' \/ (Quiet(i) /\ k.todo[1][2] # i)
  BY <1>3, <1>4, <1>13, SameQuiet
<1>15. Wrote(k)
  BY <1>4, <1>6 DEF Wrote, Steady
<1> QED BY <1>1, <1>3, <1>4, <1>14, <1>15, WritingHang

LEMMA GrantOwnerHang ==
  ASSUME TInv, TInv', RowsInv, KinInv, HangInv, NEW c \in Client, Outside, KindsStay, GrantOwner(c)
  PROVE  HangInv'
<1>1. PICK k, l, x : k = call[c] /\ l = call'[c] /\ x = On(c)
  OBVIOUS
<1>2. Doing(c, "grant") /\ Apart(c) /\ \A i \in Id \ {x} : Same(i)
  BY <1>1, GrantApart DEF GrantOwner
<1>3. /\ k.todo # << >> /\ k # Idle /\ k.todo[1] = <<"grant", x>> /\ k.todo[1][1] = "grant" /\ k.todo[1][2] = x /\ x \in Id
      /\ Listed(k, 1) /\ (Proceed(c, << >>) => Becomes(c, l) /\ Remembers(k, l)) /\ k.req.op \in {"create", "stage"}
  <2>1. "grant" \in Single /\ Req(c).op \in {"create", "stage"}
    BY <1>2, OpOf DEF Single
  <2> QED BY <1>1, <1>2, <2>1, AtHang
<1>4. /\ db'.parts = db.parts /\ db'.props = db.props /\ db'.links = db.links /\ db'.objs = db.objs /\ Live(db') = Live(db)
      /\ note'[x].kind = note[x].kind /\ note'[x].made = note[x].made /\ note'[x].gone = note[x].gone
  BY <1>1, <1>3, GrantDoes DEF Others, Live
<1>5. Fine(x) /\ RowHang(x) /\ touched[x] \subseteq touched'[x]
  BY <1>2, <1>3 DEF HangInv, Fine, Apart
<1>6. CASE db'.owners = db.owners \cup {x} /\ note' = note /\ Proceed(c, << >>)
  <2>1. Calm(x) /\ Settled(x)
    BY <1>4, <1>6 DEF Calm, Settled
  <2>2. RowHang(x)'
    BY <1>5, <2>1, RowHangKept
  <2>3. ASSUME NEW w \in {"parts", "props"} PROVE Belongs(w, x)'
    <3>1. Right(w, x) => Right(w, x)'
      BY <1>5, <2>1, <2>3, RightKept
    <3>2. Owes(k, w, x) => Owes(l, w, x)'
      BY <1>2, <1>3, <1>6, <2>3, OwesKept
    <3> QED BY <1>1, <1>2, <1>3, <1>5, <1>6, <3>1, <3>2, BelongsKept DEF Fine
  <2>4. x \in Live(db') /\ note'[x].made # None /\ "owner" \in note'[x].wants => Owned(x)'
    <3> SUFFICES ASSUME x \in Live(db), note[x].made # None, "owner" \in note[x].wants PROVE Owned(x)'
      BY <1>4, <1>6
    <3>1. Owned(x)
      BY <1>5 DEF Fine
    <3>2. k.todo[1] # <<"link", x>>
      BY <1>3
    <3>3. Makes(k, x, "link") => Makes(l, x, "link")'
      BY <1>3, <1>4, <1>6, <3>2 DEF Makes, Remembers
    <3>4. PICK p : p = db.objs[x].parent
      OBVIOUS
    <3> QED BY <1>1, <1>2, <1>3, <1>4, <1>6, <3>1, <3>3, <3>4, OwnedKept
  <2>5. Fine(x)'
    BY <2>2, <2>3, <2>4 DEF Fine
  <2>6. \A i \in Id : Fine(i)' \/ (Quiet(i) /\ k.todo[1][2] # i)
    BY <1>2, <1>3, <2>5, SameQuiet
  <2>7. Wrote(k)
    BY <1>3, <1>4, <1>6 DEF Wrote, Steady
  <2> QED BY <1>1, <1>2, <1>3, <1>6, <2>6, <2>7, WritingHang
<1>7. CASE /\ db' = db /\ touched' = touched /\ note'[x].wants = note[x].wants \ {"owner"}
           /\ call' = [call EXCEPT ![c] = Idle]
  <2>1. Becomes(c, Idle)
    BY <1>7 DEF Becomes
  <2>2. \A j \in DOMAIN k.todo : k.todo[j][1] \in {"grant", "link"} /\ k.todo[j][2] = x
    <3> SUFFICES ASSUME NEW j \in DOMAIN k.todo PROVE k.todo[j][1] \in {"grant", "link"} /\ k.todo[j][2] = x
      OBVIOUS
    <3>1. Listed(k, j)
      BY <1>1 DEF HangInv
    <3>2. k.todo[j][2] = x
      BY <1>3, <3>1 DEF Listed
    <3>3. j = 1 \/ j > 1
      <4>1. k.todo \in Seq(Step)
        BY <1>1, <1>3, Working
      <4>2. j \in 1..Len(k.todo)
        <5> HIDE DEF Step
        <5> QED BY <4>1
      <4> QED BY <4>2
    <3>4. j > 1 => k.todo[j][1] = "link"
      BY <1>3 DEF Listed
    <3> QED BY <1>3, <3>2, <3>3, <3>4
  <2>3. \A w \in {"parts", "props"} : \A i : ~Owes(k, w, i)
    <3> SUFFICES ASSUME NEW w \in {"parts", "props"}, NEW i, Owes(k, w, i) PROVE FALSE
      OBVIOUS
    <3>1. PICK j \in DOMAIN k.todo : k.todo[j] = <<w, i>> \/ k.todo[j] = <<"dropRow", i>>
      BY DEF Owes, Has
    <3>2. k.todo[j][1] \in {"parts", "props", "dropRow"}
      BY <3>1
    <3> QED BY <2>2, <3>2
  <2>4. \A i, y : i # x => ~Makes(k, i, y)
    <3> SUFFICES ASSUME NEW i, NEW y, i # x, Makes(k, i, y) PROVE FALSE
      OBVIOUS
    <3>1. PICK j \in DOMAIN k.todo : k.todo[j] = <<y, i>>
      BY DEF Makes, Has
    <3> QED BY <2>2, <3>1
  <2>5. ASSUME NEW i \in Id, i # x PROVE Fine(i)'
    <3>1. Quiet(i)
      BY <1>2, <2>5, SameQuiet
    <3>2. Minds(k, Idle, i)
      BY <2>3, <2>4, <2>5 DEF Minds
    <3> QED BY <1>1, <1>2, <2>1, <2>5, <3>1, <3>2, CalmFine DEF Quiet, HangInv
  <2>6. Fine(x)'
    <3>1. Calm(x) /\ Settled(x)
      BY <1>4, <1>7 DEF Calm, Settled
    <3>2. RowHang(x)'
      BY <1>5, <3>1, RowHangKept
    <3>3. ASSUME NEW w \in {"parts", "props"} PROVE Belongs(w, x)'
      <4>1. Right(w, x) => Right(w, x)'
        BY <1>5, <3>1, <3>3, RightKept
      <4> QED BY <1>1, <1>2, <1>3, <1>5, <2>1, <2>3, <3>3, <4>1, BelongsKept DEF Fine
    <3>4. "owner" \notin note'[x].wants
      BY <1>7
    <3> QED BY <3>2, <3>3, <3>4 DEF Fine
  <2>7. \A i \in Id : Fine(i)'
    BY <2>5, <2>6
  <2>8. DOMAIN Idle.todo = {}
    BY IdleCall
  <2> QED BY <1>1, <1>2, <1>3, <2>1, <2>7, <2>8, HangKept
<1>8. UNCHANGED note => note' = note
  OBVIOUS
<1> QED BY <1>1, <1>6, <1>7, <1>8, GrantDoes

LEMMA WorkHang ==
  ASSUME TInv, TInv', RowsInv, UniqueInv, KinInv, HangInv, NEW c \in Client, Work(c), ~Fails(c)
  PROVE  HangInv'
<1>1. Outside /\ Apart(c) /\ KindsStay
  BY StepApart, StepKinds DEF Work
<1>2. CASE \/ StagedTable(c) \/ FindRoot(c) \/ CheckEmpty(c) \/ ListChildren(c) \/ NextChild(c)
           \/ ReadPage(c) \/ Answer(c) \/ Rename(c)
  BY <1>1, <1>2, StagedTableHang, FindRootHang, CheckEmptyHang, ListChildrenHang, NextChildHang, ReadPageHang, AnswerHang,
     RenameHang
<1>3. CASE MarkCommitted(c) \/ StageRow(c) \/ PutVersion(c) \/ SetMax(c) \/ DropVersion(c)
  BY <1>1, <1>3, MarkingHang
<1>4. CASE CreateRow(c) \/ AddParts(c) \/ SetProps(c) \/ GrantOwner(c) \/ LinkChild(c) \/ DropOne(c)
  BY <1>1, <1>4, CreateRowHang, AddPartsHang, SetPropsHang, GrantOwnerHang, LinkChildHang, DropOneHang
<1>5. CASE DropParts(c)
  <2>1. PICK what \in {"dropParts", "dropProps"} : what = "dropParts"
    OBVIOUS
  <2> QED BY <1>1, <1>5, <2>1, DropHangingHang
<1>6. CASE DropProps(c)
  <2>1. PICK what \in {"dropParts", "dropProps"} : what = "dropProps"
    OBVIOUS
  <2> QED BY <1>1, <1>6, <2>1, DropHangingHang
<1> QED BY <1>2, <1>3, <1>4, <1>5, <1>6 DEF Work

\* Nothing is written: steps find what they found, or have lost it.
LEMMA FindsStill ==
  ASSUME Unwritten, met \subseteq met', cut \subseteq cut', NEW k, NEW j, Listed(k, j), Finds(k, j)
  PROVE  Listed(k, j)' /\ Finds(k, j)'
<1>1. db' = db /\ touched' = touched /\ note' = note
  BY DEF Unwritten
<1>2. PICK n : n = k.n
  OBVIOUS
<1>3. \A i : Open(n, i) => Open(n, i)'
  BY <1>1 DEF Open, Broken, Clash, Overlaps
<1>4. Listed(k, j)'
  BY <1>1 DEF Listed, Later
<1>5. PICK what, i : what = k.todo[j][1] /\ i = k.todo[j][2]
  OBVIOUS
<1>6. Open(k.n, i) => Open(k.n, i)'
  BY <1>2, <1>3
<1>7. \A x : Earlier(k, j, x) => Earlier(k, j, x)'
  BY DEF Earlier
<1> QED BY <1>1, <1>4, <1>5, <1>6, <1>7 DEF Finds, Live

LEMMA IdleHang ==
  ASSUME HangInv, Unwritten, UNCHANGED <<call, met, cut>>
  PROVE  HangInv'
<1>1. db' = db /\ touched' = touched /\ note' = note /\ met' = met /\ cut' = cut /\ call' = call
  BY DEF Unwritten
<1>2. ASSUME NEW i \in Id PROVE Fine(i)'
  <2>1. Fine(i)
    BY DEF HangInv
  <2>2. Broken(i) <=> Broken(i)'
    BY <1>1 DEF Broken, Clash
  <2>3. RowHang(i)'
    BY <1>1, <2>1 DEF Fine, RowHang, Live
  <2>4. \A w \in {"parts", "props"} : Belongs(w, i)'
    BY <1>1, <2>1, <2>2 DEF Fine, Belongs, Right, Cascaded, Owes, Live
  <2>5. i \in Live(db') /\ note'[i].made # None /\ "owner" \in note'[i].wants => Owned(i)'
    BY <1>1, <2>1, <2>2 DEF Fine, Owned, Makes
  <2> QED BY <2>3, <2>4, <2>5 DEF Fine
<1>3. \A c \in Client : \A k \in {call'[c]} : \A j \in DOMAIN k.todo : Listed(k, j)' /\ Finds(k, j)'
  <2> SUFFICES ASSUME NEW c \in Client, NEW k, k = call[c], NEW j \in DOMAIN k.todo PROVE Listed(k, j)' /\ Finds(k, j)'
    BY <1>1
  <2>1. Listed(k, j) /\ Finds(k, j)
    BY DEF HangInv
  <2> QED BY <1>1, <2>1, FindsStill
<1> QED BY <1>2, <1>3, ZenonT(60) DEF HangInv

LEMMA BeginHang == ASSUME TInv, TInv', HangInv, NEW c \in Client, Begin(c) PROVE HangInv'
<1>1. begun + 1 \in Ordinal
  BY ObjectsAssumption DEF TInv, TypeOK, Begin, Ordinal
<1>2. PICK req \in Requests :
        call' = [call EXCEPT ![c] = [Idle EXCEPT !.n = begun + 1, !.req = req, !.todo = << <<"look", None>> >>]]
  BY DEF Begin
<1>3. PICK l : l = Newcomer(begun + 1, req)
  OBVIOUS
<1>4. DOMAIN l.todo = {1} /\ l.todo[1] = <<"look", None>> /\ l.req = req
  BY <1>1, <1>3, NewcomerTyped
<1>5. Becomes(c, l) /\ call'[c] = l /\ \A d \in Client : d # c => call'[d] = call[d]
  BY <1>2, <1>3 DEF Newcomer, Becomes, TInv, TypeOK
<1>6. Unwritten /\ met \subseteq met' /\ cut \subseteq cut'
  BY DEF Begin
<1>7. PICK k : k = call[c]
  OBVIOUS
<1>8. \A x : ~Has(k.todo, x)
  <2>1. k.todo = << >>
    BY <1>7, IdleCall DEF Begin
  <2>2. DOMAIN << >> = {}
    OBVIOUS
  <2> QED BY <2>1, <2>2 DEF Has
<1>9. ASSUME NEW i \in Id PROVE Fine(i)'
  <2>1. Apart(c) /\ Quiet(i)
    BY <1>6, UnwrittenApart, SameQuiet
  <2>2. Minds(k, l, i)
    BY <1>8 DEF Minds, Owes, Makes
  <2> QED BY <1>5, <1>7, <2>1, <2>2, CalmFine DEF HangInv, Quiet
<1>10. ASSUME NEW d \in Client, NEW m, m = call'[d], NEW j \in DOMAIN m.todo PROVE Listed(m, j)' /\ Finds(m, j)'
  <2>1. CASE d = c
    <3>1. m = l /\ j = 1 /\ m.todo[j][1] = "look" /\ m.todo[j][2] = None /\ m.todo[1][2] = None
      BY <1>4, <1>5, <1>10, <2>1
    <3> QED BY <3>1 DEF Listed, Finds
  <2>2. CASE d # c
    <3>1. m = call[d]
      BY <1>5, <1>10, <2>2
    <3>2. Listed(m, j) /\ Finds(m, j)
      BY <1>10, <3>1 DEF HangInv
    <3> QED BY <1>6, <3>2, FindsStill
  <2> QED BY <2>1, <2>2
<1>11. \A d \in Client : \A m \in {call'[d]} : \A j \in DOMAIN m.todo : Listed(m, j)' /\ Finds(m, j)'
  BY <1>10
<1> QED BY <1>9, <1>11, ZenonT(60) DEF HangInv

LEMMA NextHang == TInv /\ TInv' /\ RowsInv /\ UniqueInv /\ KinInv /\ HangInv /\ [Next]_vars => HangInv'
<1> SUFFICES ASSUME TInv, TInv', RowsInv, UniqueInv, KinInv, HangInv, [Next]_vars PROVE HangInv'
  OBVIOUS
<1>1. CASE UNCHANGED vars \/ DeleteUser
  <2>1. Unwritten /\ UNCHANGED <<call, met, cut>>
    BY <1>1 DEF vars, DeleteUser, Unwritten
  <2> QED BY <2>1, IdleHang
<1>2. ASSUME NEW c \in Client, Begin(c) PROVE HangInv'
  BY <1>2, BeginHang
<1>3. ASSUME NEW c \in Client, Look(c) \/ Work(c) \/ Interrupt(c) PROVE HangInv'
  <2>1. CASE Fails(c)
    BY <1>3, <2>1, FailsHang
  <2>2. CASE ~Fails(c) /\ Look(c)
    BY <2>2, LookHang
  <2>3. CASE ~Fails(c) /\ Work(c)
    BY <2>3, WorkHang
  <2> QED BY <1>3, <2>1, <2>2, <2>3 DEF Interrupt
<1> QED BY <1>1, <1>2, <1>3 DEF Next

LEMMA InitHang == Init => HangInv
<1> SUFFICES ASSUME Init PROVE HangInv
  OBVIOUS
<1>1. db = Seed /\ \A c \in Client : call[c] = Idle
  BY DEF Init
<1>2. ASSUME NEW i \in Id PROVE Fine(i)
  <2>1. PICK S : S = {w \in {"parts", "props"} : i \in IF w = "parts" THEN Seed.parts ELSE Seed.props}
    OBVIOUS
  <2>2. note[i] = [NoNote EXCEPT !.kind = Seed.objs[i].kind, !.wants = S]
    BY <2>1 DEF Init
  <2>3. note[i].kind = Seed.objs[i].kind /\ note[i].made = None /\ note[i].wants = S /\ note[i].gone = "no"
    BY <2>2 DEF NoNote
  <2>4. i \in Live(db) <=> i \in Seeded
    BY <1>1 DEF Live, Seeded
  <2>5. i \in Seed.parts => i \in Seeded /\ Seed.objs[i].kind \in {"table", "function"}
    BY ObjectsAssumption DEF SeedParts
  <2>6. i \in Seed.props \/ (\E p : <<i, p>> \in Seed.links) => i \in Seeded
    <3>1. \A p : <<i, p>>[1] = i
      OBVIOUS
    <3> QED BY <3>1, ObjectsAssumption DEF SeedParts
  <2>7. i \in Seeded => Seed.objs[i].kind # "none"
    BY ObjectsAssumption DEF Seeded, Database, Object, Kinds, Leaves
  <2>8. RowHang(i)
    BY <1>1, <2>3, <2>5, <2>6, <2>7 DEF RowHang
  <2>9. Right("parts", i) /\ Right("props", i)
    BY <1>1, <2>1, <2>3, <2>4, <2>5, <2>6 DEF Right
  <2> QED BY <2>3, <2>8, <2>9 DEF Fine, Belongs
<1>3. DOMAIN Idle.todo = {}
  BY IdleCall
<1> QED BY <1>1, <1>2, <1>3 DEF HangInv

PartsInv == FamilyInv /\ HangInv

LEMMA PartsStep == PartsInv /\ [Next]_vars => PartsInv'
BY FamilyStep, NextHang DEF PartsInv, FamilyInv, ObjectsInv

LEMMA PartsInit == Init => PartsInv
BY FamilyInit, InitHang DEF PartsInv

LEMMA PartsAreThere == PartsInv => PartsFollowRows
<1> SUFFICES ASSUME PartsInv, NEW i \in Id, ~Disturbed(i) PROVE Right("parts", i) /\ Right("props", i)
  BY DEF PartsFollowRows, Right, Cascaded
<1>1. ~Broken(i)
  BY BrokenIs
<1>2. ASSUME NEW w, NEW c \in Client, Owes(call[c], w, i) PROVE FALSE
  BY <1>2 DEF Owes, Disturbed, Active
<1> QED BY <1>1, <1>2 DEF PartsInv, HangInv, Fine, Belongs

LEMMA OwnersAreThere == PartsInv => OwnedAndLinked
<1> SUFFICES ASSUME PartsInv, NEW i \in Live(db), ~Disturbed(i), note[i].made # None, "owner" \in note[i].wants
             PROVE  i \in db.owners /\ {p \in Id \cup {None} : <<i, p>> \in db.links} = {db.objs[i].parent}
  BY DEF OwnedAndLinked
<1>1. i \in Id /\ ~Broken(i)
  BY BrokenIs DEF Live
<1>2. Fine(i) /\ RowHang(i)
  BY <1>1 DEF PartsInv, HangInv, Fine
<1>3. ASSUME NEW x, NEW c \in Client, Makes(call[c], i, x) PROVE FALSE
  BY <1>2, <1>3 DEF Makes, RowHang, Disturbed, Active
<1>4. i \in db.owners /\ <<i, db.objs[i].parent>> \in db.links /\ \A p : <<i, p>> \in db.links => p = db.objs[i].parent
  BY <1>1, <1>2, <1>3 DEF Fine, Owned
<1>5. db.objs[i].parent \in Id \cup {None}
  <2>1. db.objs[i] \in Object
    BY <1>1 DEF PartsInv, FamilyInv, ObjectsInv, TInv, TypeOK, Database, Live
  <2> QED BY <2>1 DEF Object
<1> QED BY <1>4, <1>5

\* insert_columns, property::replace and their deletes are commits of their own,
\* before or after that of the row.  Unless two calls about an object meet there,
\* or one is broken off, its columns, parameters and properties are there just as
\* long as it is, except that a drop with force leaves the properties of volumes,
\* functions and models behind.
THEOREM PartsStayWithRows == Spec => []PartsFollowRows
BY PartsInit, PartsStep, PartsAreThere, PTL DEF Spec

\* The OWNER grant and add_hierarchy_child are the last two commits of a
\* creation.  Unless two calls about the object meet, or the creation is broken
\* off, an object whose creator exists has got an owner, and hangs under the
\* parent its row names and under no other, however often it was renamed since.
THEOREM OwnersAndLinksStay == Spec => []OwnedAndLinked
BY PartsInit, PartsStep, OwnersAreThere, PTL DEF Spec

=============================================================================
