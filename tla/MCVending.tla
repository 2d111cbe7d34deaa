------------------------------ MODULE MCVending -----------------------------
(***************************************************************************)
(* A small instance of Vending for TLC: a location inside another one,     *)
(* with a credential each.                                                 *)
(***************************************************************************)
EXTENDS Vending, TLC

CONSTANTS c1, c2, away, A, B

MCName == {"outer", "inner", "other"}
MCUrl == {<<1>>, <<1, 1>>}

\* The outer location has the smaller id and covers the path of the inner one.
\* Ids are free on either side of the inner one.
MCSeed ==
  [creds |-> [i \in Id |-> CASE i = 1 -> [name |-> "outer", role |-> A]
                             [] i = 2 -> [name |-> "inner", role |-> B]
                             [] OTHER -> None],
   locs |-> [i \in Id |-> CASE i = 3 -> [name |-> "outer", url |-> <<1>>, cred |-> 1]
                            [] i = 5 -> [name |-> "inner", url |-> <<1, 1>>, cred |-> 2]
                            [] OTHER -> None]]

Ask(op, url, mode, name, cred, role) ==
  [op |-> op, url |-> url, mode |-> mode, name |-> name, cred |-> cred, role |-> role]

MCRequests ==
  { Ask("path", <<1, 1>>, "Read", None, None, None),
    Ask("object", <<1, 1>>, "ReadWrite", None, None, None),
    Ask("delta", <<1, 1>>, "ReadWrite", None, None, None),
    Ask("newCredential", None, None, "other", None, A),
    Ask("setRole", None, None, "inner", None, A),
    Ask("dropCredential", None, None, "inner", None, None),
    Ask("newLocation", <<1, 1>>, None, "other", "inner", None),
    Ask("moveLocation", <<1, 1>>, None, "inner", "outer", None),
    Ask("dropLocation", None, None, "inner", None, None) }

MCGranted == {3, 5} \X {"Read"}
\* Behind by all of the buffer, the most that is harmless.
MCSkews == {-1}

Symmetry == Permutations({c1, c2})

=============================================================================
