----------------------------- MODULE MCDeltaLog -----------------------------
(***************************************************************************)
(* Small instances of DeltaLog for TLC.                                    *)
(***************************************************************************)
EXTENDS DeltaImplementsTable, TLC

CONSTANTS t1, t2, t3, t4, r1, r2, b1, b2

MCTask3 == {t1, t2, t3}
MCTask4 == {t1, t2, t3, t4}
MCReplica2 == {r1, r2}
MCTable1 == {b1}
MCTable2 == {b1, b2}

\* Two requests share a process and its hints, the others are served elsewhere.
MCHome3 == (t1 :> r1 @@ t2 :> r1 @@ t3 :> r2)
MCHome4 == (t1 :> r1 @@ t2 :> r1 @@ t3 :> r2 @@ t4 :> r2)

\* Requests of one process, and then the processes, are interchangeable.
MCSymmetry3 == Permutations({t1, t2})
MCSymmetry4 ==
  Permutations({t1, t2}) \cup Permutations({t3, t4})
    \cup {t1 :> t3 @@ t3 :> t1 @@ t2 :> t4 @@ t4 :> t2 @@ r1 :> r2 @@ r2 :> r1}

MCVersions == 0..2
MCWithNegative == -2..0

Ask(api, table, asserts, updates, starting, ending) ==
  [api |-> api, table |-> table, asserts |-> asserts, updates |-> updates,
   starting |-> starting, ending |-> ending]

Add(v) == [op |-> "add", version |-> v]
Mark(v) == [op |-> "mark", version |-> v]
Meta == [op |-> "meta"]

UpdateTable(b, updates) == Ask("update", b, NoTable, updates, NoVersion, NoVersion)
CommitTo(b, v) == Ask("commit", b, NoTable, <<Add(v)>>, NoVersion, NoVersion)
Load(b) == Ask("load", b, NoTable, <<>>, NoVersion, NoVersion)
GetCommits(b, from, to) == Ask("get", b, NoTable, <<>>, from, to)

\* Versions out of order, a backfill that may find nothing, a bounded listing.
MCRaces ==
  {UpdateTable(b1, <<Add(1)>>), UpdateTable(b1, <<Mark(2)>>), CommitTo(b1, 2),
   GetCommits(b1, 1, 2), Load(b1)}

\* Clients that ask first, some of them load_table, and commit right above the
\* answer, some of them with several updates at once, one of them for the wrong
\* table.
MCClients ==
  {Load(b1), UpdateTable(b1, <<Meta>>), CommitTo(b1, 0), CommitTo(b1, 1),
   UpdateTable(b1, <<Add(0), Meta, Meta>>), UpdateTable(b1, <<Meta, Add(1), Add(2)>>),
   Ask("update", b1, b2, <<Add(1)>>, NoVersion, NoVersion)}

MCNegative == {CommitTo(b1, -1), CommitTo(b1, -2), CommitTo(b1, 0)}

MCLive == {UpdateTable(b1, <<Mark(0), Add(1)>>), GetCommits(b1, 0, 1)}

=============================================================================
