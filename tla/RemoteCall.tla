------------------------------ MODULE RemoteCall ------------------------------
(***************************************************************************)
(* What the virtual network promises to a caller: each call has one        *)
(* outcome.  It is an answer only if the target answered, the target       *)
(* answers at most once, and the outcome of a call that timed out says     *)
(* nothing about the target.  Calls proceed independently, so one step may *)
(* move several of them.                                                   *)
(***************************************************************************)
CONSTANT Calls

VARIABLES
    outcome,   \* how each call stands for its caller
    answered   \* the answer the target gave to each call, if any

Final == {"ok", "error", "timeout", "abandoned", "skipped"}

Init == /\ outcome = [p \in Calls |-> "idle"]
        /\ answered = [p \in Calls |-> "none"]

\* A call is made, or never will be.
Begin(p) == outcome[p] = "idle" /\ outcome'[p] \in {"waiting", "skipped"}

\* It returns the answer, expires, or loses its caller.
Return(p) == outcome[p] = "waiting" /\ outcome'[p] \in {"ok", "error"} /\ outcome'[p] = answered[p]

Expire(p) == outcome[p] = "waiting" /\ outcome'[p] \in {"timeout", "abandoned"}

\* The target answers a call that was made, whether or not someone waits.
Answer(p) == /\ outcome[p] \in (Final \cup {"waiting"}) \ {"skipped"}
             /\ answered[p] = "none"
             /\ answered'[p] \in {"ok", "error"}

Step(p) == /\ outcome'[p] = outcome[p] \/ Begin(p) \/ Return(p) \/ Expire(p)
           /\ answered'[p] = answered[p] \/ Answer(p)

Next == /\ outcome' \in [Calls -> Final \cup {"idle", "waiting"}]
        /\ answered' \in [Calls -> {"none", "ok", "error"}]
        /\ \A p \in Calls : Step(p)

Spec == Init /\ [][Next]_<<outcome, answered>>
=============================================================================
