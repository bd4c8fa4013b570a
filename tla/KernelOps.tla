------------------------------ MODULE KernelOps ------------------------------
(***************************************************************************)
(* What the components of a run share: the order in which the scheduler    *)
(* dispatches events (packages/kernel/src/scheduler.ts) and the lifecycle  *)
(* of a service (packages/kernel/src/service-runtime.ts).                  *)
(***************************************************************************)
EXTENDS Naturals

\* compare: by due time, then by insertion.
Earlier(e, f) == e.time < f.time \/ (e.time = f.time /\ e.seq < f.seq)

\* e is the event takeNext returns from the pending events.
IsFirst(e, pending) == \A f \in pending \ {e} : Earlier(e, f)

\* The states of a service and the transitions it may make.
ServiceState == {"STARTING", "RUNNING", "PAUSED", "CRASHED", "STOPPED"}

Allowed == [s \in ServiceState |->
    CASE s = "STARTING" -> {"RUNNING", "CRASHED", "STOPPED"}
      [] s = "RUNNING"  -> {"PAUSED", "CRASHED", "STOPPED"}
      [] s = "PAUSED"   -> {"RUNNING", "CRASHED", "STOPPED"}
      [] s = "CRASHED"  -> {"STARTING", "STOPPED"}
      [] s = "STOPPED"  -> {"STARTING"}]

\* A transition that ends the process: its tasks are abandoned and its
\* generation is over.
EndsProcess(before, next) == next \in {"CRASHED", "STOPPED"} /\ before # "CRASHED"
=============================================================================
