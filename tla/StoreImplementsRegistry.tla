---------------------- MODULE StoreImplementsRegistry -----------------------
(***************************************************************************)
(* CommitStore implements Registry: the states are those of the log, a     *)
(* call takes effect when its conditional PUT lands.                       *)
(***************************************************************************)
EXTENDS CommitStore

R == INSTANCE Registry WITH
       states  <- history,
       request <- req,
       reply   <- answer,
       done    <- {log[v].by : v \in DOMAIN log \ unheard},
       Resends <- SdkRetry

\* Every behaviour of the store (StoreInner::commit, catch_up, checkpoints,
\* restarts) is one that a single atomic registry could have shown.
ImplementsRegistry == R!Spec

=============================================================================
