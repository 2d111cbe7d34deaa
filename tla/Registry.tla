------------------------------ MODULE Registry ------------------------------
(***************************************************************************)
(* What the store promises its callers, without log, replicas, locks or    *)
(* network: one sequence of states.  A call takes effect at most once, in  *)
(* one instant, on the latest state, which must accept it; this may also   *)
(* happen after its caller was told "unknown".  A refusal is justified by  *)
(* some state the registry has been in, not always the latest one: reads   *)
(* are stale.  Where requests are resent (Resends), a call that is under   *)
(* way may have effects beside that one, which it does not know of.        *)
(***************************************************************************)
EXTENDS MetadataOps

CONSTANTS Workload, NoRequest,
          Resends    \* a Boolean: requests are resent below the caller

VARIABLES states,   \* version -> state
          request,  \* what each call asks for
          reply,    \* what each caller was told
          done      \* the calls that have taken the effect they answer for

vars == <<states, request, reply, done>>

Latest == CHOOSE v \in DOMAIN states : \A u \in DOMAIN states : u <= v

Init ==
  /\ states = [v \in {0} |-> EmptySnapshot]
  /\ request = [t \in Task |-> NoRequest]
  /\ reply = [t \in Task |-> "none"]
  /\ done = {}

Invoke(t, q) ==
  /\ request[t] = NoRequest
  /\ request' = [request EXCEPT ![t] = q]
  /\ UNCHANGED <<states, reply, done>>

Pending(t) == request[t] # NoRequest /\ reply[t] = "none"

\* The registry goes on to the state that the call makes of the latest one.
Execute(t) ==
  LET now == states[Latest]
      next == Apply(now, Build(now, t, request[t]))
  IN  /\ Accepts(now, request[t])
      /\ states' = [v \in DOMAIN states \cup {Latest + 1} |->
                      IF v = Latest + 1 THEN next ELSE states[v]]

TakeEffect(t) ==
  /\ Pending(t) \/ reply[t] = "unknown"
  /\ t \notin done
  /\ Execute(t)
  /\ done' = done \cup {t}
  /\ UNCHANGED <<request, reply>>

\* The answer to this effect is lost, and the call goes on as if without it.
TakeEffectUnheard(t) ==
  /\ Resends
  /\ Pending(t)
  /\ t \notin done
  /\ Execute(t)
  /\ UNCHANGED <<request, reply, done>>

Tell(t, answer) ==
  /\ reply' = [reply EXCEPT ![t] = answer]
  /\ UNCHANGED <<states, request, done>>

Confirm(t) ==
  /\ Pending(t)
  /\ t \in done \/ \E v \in DOMAIN states : NothingToDo(states[v], request[t])
  /\ Tell(t, "ok")

Refuse(t) ==
  /\ Pending(t)
  /\ t \notin done
  /\ \E v \in DOMAIN states : Rejects(states[v], request[t])
  /\ Tell(t, "rejected")

GiveUp(t) ==
  /\ Pending(t)
  /\ t \notin done
  /\ Tell(t, "contention")

\* The callers of one process lose their answers together.
Lose(T) ==
  /\ \A t \in T : Pending(t)
  /\ reply' = [t \in Task |-> IF t \in T THEN "unknown" ELSE reply[t]]
  /\ UNCHANGED <<states, request, done>>

Next ==
  \/ \E t \in Task :
       \/ \E q \in Workload : Invoke(t, q)
       \/ TakeEffect(t) \/ TakeEffectUnheard(t) \/ Confirm(t) \/ Refuse(t) \/ GiveUp(t)
  \/ \E T \in SUBSET Task : Lose(T)

Spec == Init /\ [][Next]_vars

=============================================================================
