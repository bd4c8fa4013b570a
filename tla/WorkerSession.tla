----------------------------- MODULE WorkerSession -----------------------------
(***************************************************************************)
(* The page's SimulationHost (apps/web/src/host.ts), the WorkerAdapter     *)
(* (apps/web/src/worker/adapter.ts) and the controls of Simulation         *)
(* (packages/kernel/src/simulation.ts), joined by the two message queues   *)
(* of a web worker.  The page may call any method of the host at any time. *)
(*                                                                         *)
(* A simulation is the number of its events, the one that fails it, and    *)
(* whether the failure withholds the history: what is known only when it   *)
(* is run.  An action of the worker is one task of its event loop: the     *)
(* handling of a message, or the part of a run between two yields.  The    *)
(* accepted events, which the host ignores, are left out.                  *)
(***************************************************************************)
EXTENDS Integers, Sequences, FiniteSets, FiniteSetsExt

CONSTANTS
    MaxEvents,    \* the events of the longest simulation
    Budgets,      \* the maxEvents of a run
    YieldEvery,   \* maxEventsPerYield
    MaxCalls      \* bound: calls of the host's methods

ASSUME SessionAssumption ==
    MaxEvents \in Nat /\ Budgets \subseteq Nat /\ YieldEvery \in Nat \ {0} /\ MaxCalls \in Nat

VARIABLES
    worker,      \* whether the host has a worker
    pending,     \* #pending: the requests that are not settled
    projection,  \* snapshot.projection: at most one
    error,       \* snapshot.error: its code
    loading,     \* snapshot.loading
    calls,       \* #sequence
    commands,    \* the messages on their way to the worker
    events,      \* the messages on their way to the host
    session,     \* #session of the adapter: at most one simulation
    running,     \* #active of the adapter: at most one run, which has yielded
    pausing      \* the pause requests that await it

vars == <<worker, pending, projection, error, loading, calls, commands, events, session, running, pausing>>
host == <<worker, pending, projection, error, loading, calls>>

Statuses == {"READY", "RUNNING", "PAUSED", "COMPLETED", "FAILED"}

\* fails is zero for a simulation that does not fail.
Program == {p \in [length : 0..MaxEvents, fails : 0..MaxEvents, withheld : BOOLEAN] :
               p.fails <= p.length /\ (p.withheld => p.fails > 0)}

Simulation == [program : Program, status : Statuses, processed : 0..MaxEvents, pause : BOOLEAN]

Run == [id : Nat, max : Nat, count : Nat, sampled : Nat]

Command == [id : Nat, type : {"load", "run", "pause", "step", "reset"}, max : Nat]

-----------------------------------------------------------------------------
(* Events of the worker protocol                                            *)

Projected(s) == [status |-> s.status, processed |-> s.processed]

Loaded(id, s)  == [id |-> id, type |-> "loaded", projection |-> Projected(s), code |-> "none"]
Updated(id, s) == [id |-> id, type |-> "projection.updated", projection |-> Projected(s), code |-> "none"]
Finished(id, s) == [id |-> id, type |-> "run.finished", projection |-> Projected(s), code |-> "none"]
Failure(id, code) == [id |-> id, type |-> "error", code |-> code,
                      projection |-> [status |-> "READY", processed |-> 0]]

-----------------------------------------------------------------------------
(* The simulation                                                           *)

Fresh(p) == [program |-> p, status |-> "READY", processed |-> 0, pause |-> FALSE]

\* #dispatch, of the event that brings the count of processed ones to n.
After(s, n) ==
    [s EXCEPT !.processed = n,
              !.status = IF n = s.program.fails THEN "FAILED"
                         ELSE IF n = s.program.length THEN "COMPLETED" ELSE @]

\* step: an agenda without events ends the run.
Stepped(s) ==
    IF s.status \in {"COMPLETED", "FAILED"} THEN s
    ELSE IF s.processed = s.program.length THEN [s EXCEPT !.status = "COMPLETED"]
    ELSE After([s EXCEPT !.status = "PAUSED"], s.processed + 1)

\* Faulty variant: the loop looks at its budget only.
GoesOnRegardless(s, r) == s.status = "RUNNING" /\ r.count < r.max

\* The condition of run's loop.
GoesOn(s, r) == s.status = "RUNNING" /\ ~s.pause /\ r.count < r.max

\* How many events the loop dispatches before it yields or ends.
Burst(s, r) ==
    Min({YieldEvery - (r.count % YieldEvery), r.max - r.count, s.program.length - s.processed}
        \cup {n \in 1..MaxEvents : s.processed + n = s.program.fails})

Advanced(s, r) == IF GoesOn(s, r) THEN After(s, s.processed + Burst(s, r)) ELSE s

\* The run yields only where it has just dispatched the last of its share.
Yields(s, r) == GoesOn(s, r) /\ Advanced(s, r).status = "RUNNING" /\ (r.count + Burst(s, r)) % YieldEvery = 0

\* The end of run.
Ended(s) == IF s.status = "RUNNING" THEN [s EXCEPT !.status = "PAUSED"] ELSE s

-----------------------------------------------------------------------------
(* The adapter                                                              *)

\* #execute, once a control ended: what it reports of a failure.
Failed(id, s) == (IF s.program.withheld THEN <<>> ELSE <<Updated(id, s)>>) \o <<Failure(id, "SIMULATION_FAILED")>>

\* Faulty variant: a pause that ends in a failure reports the projection.
PauseAnswerUpdated(id, s) == Updated(id, s)

PauseAnswer(id, s) == IF s.status = "FAILED" THEN Failure(id, "SIMULATION_FAILED") ELSE Updated(id, s)

\* The run r goes on from s until it yields, or ends and so do its pauses.
Proceed(s, r) ==
    LET t == Advanced(s, r)
        e == Ended(t)
    IN  IF Yields(s, r)
        THEN LET first == r.count = 0   \* #streamBoundaries samples at once
             IN  /\ session' = {t}
                 /\ running' = {[r EXCEPT !.count = @ + Burst(s, r), !.sampled = IF first THEN t.processed ELSE @]}
                 /\ events' = IF first THEN Append(events, Updated(r.id, t)) ELSE events
                 /\ UNCHANGED pausing
        ELSE /\ session' = {e}
             /\ running' = {} /\ pausing' = <<>>
             /\ events' = events
                    \o (IF e.status = "FAILED" THEN Failed(r.id, e) ELSE <<Updated(r.id, e), Finished(r.id, e)>>)
                    \o [i \in DOMAIN pausing |-> PauseAnswer(pausing[i], e)]

Say(e) == events' = Append(events, e)

Load(c) ==
    /\ UNCHANGED <<running, pausing>>
    /\ \/ \E p \in Program : session' = {Fresh(p)} /\ Say(Loaded(c.id, Fresh(p)))
       \/ session' = {} /\ Say(Failure(c.id, "INVALID_SCENARIO"))

\* run: a COMPLETED simulation stays so, and a FAILED one throws its failure.
StartRun(c) ==
    \E s \in session :
        IF s.status = "FAILED"
        THEN events' = events \o Failed(c.id, s) /\ UNCHANGED <<session, running, pausing>>
        ELSE LET begun == [s EXCEPT !.pause = IF s.status = "COMPLETED" THEN @ ELSE FALSE,
                                    !.status = IF s.processed = s.program.length THEN "COMPLETED" ELSE "RUNNING"]
             IN  Proceed(begun, [id |-> c.id, max |-> c.max, count |-> 0, sampled |-> 0])

Step(c) ==
    \E s \in session :
        /\ session' = {Stepped(s)}
        /\ events' = events \o (IF Stepped(s).status = "FAILED" THEN Failed(c.id, Stepped(s))
                                ELSE <<Updated(c.id, Stepped(s))>>)
        /\ UNCHANGED <<running, pausing>>

Reset(c) ==
    \E s \in session :
        /\ session' = {Fresh(s.program)}
        /\ Say(Updated(c.id, Fresh(s.program)))
        /\ UNCHANGED <<running, pausing>>

\* Only a RUNNING simulation takes note, and its run is awaited.
Pause(c) ==
    \E s \in session :
        /\ session' = {[s EXCEPT !.pause = @ \/ s.status = "RUNNING"]}
        /\ \/ running = {} /\ Say(PauseAnswer(c.id, s)) /\ UNCHANGED pausing
           \/ running # {} /\ pausing' = Append(pausing, c.id) /\ UNCHANGED events
        /\ UNCHANGED running

Busy(c) == running # {} /\ c.type # "pause"

\* receive
Receive ==
    /\ commands # <<>>
    /\ commands' = Tail(commands)
    /\ UNCHANGED host
    /\ LET c == Head(commands)
       IN  \/ /\ Busy(c)
              /\ Say(Failure(c.id, "INVALID_WORKER_COMMAND"))
              /\ UNCHANGED <<session, running, pausing>>
           \/ /\ ~Busy(c) /\ session = {} /\ c.type # "load"
              /\ Say(Failure(c.id, "INVALID_WORKER_COMMAND"))
              /\ UNCHANGED <<session, running, pausing>>
           \/ /\ ~Busy(c)
              /\ \/ c.type = "load" /\ Load(c)
                 \/ c.type = "run" /\ StartRun(c)
                 \/ c.type = "step" /\ Step(c)
                 \/ c.type = "reset" /\ Reset(c)
                 \/ c.type = "pause" /\ Pause(c)

\* yieldToHost returns.
Resume ==
    /\ \E r \in running, s \in session : Proceed(s, r)
    /\ UNCHANGED <<host, commands>>

\* #streamBoundaries: a sample between two parts of a run.
Sample ==
    /\ \E r \in running, s \in session :
          /\ s.processed # r.sampled
          /\ running' = {[r EXCEPT !.sampled = s.processed]}
          /\ Say(Updated(r.id, s))
    /\ UNCHANGED <<host, commands, session, pausing>>

-----------------------------------------------------------------------------
(* The host                                                                 *)

Show(p, e, l) == projection' = p /\ error' = e /\ loading' = l

\* #release: the worker is terminated with all that is on its way.
Release ==
    /\ worker' = FALSE
    /\ commands' = <<>> /\ events' = <<>>
    /\ session' = {} /\ running' = {} /\ pausing' = <<>>

Unavailable == Release /\ pending' = {} /\ Show({}, "WORKER_UNAVAILABLE", FALSE)

NextCall == calls < MaxCalls /\ calls' = calls + 1

\* load: it replaces the session, if a worker can be created and the
\* scenario can be sent.
CallLoad ==
    /\ NextCall
    /\ \/ Unavailable
       \/ Release /\ pending' = {} /\ Show({}, "INVALID_WORKER_COMMAND", FALSE)
       \/ /\ worker' = TRUE
          /\ pending' = {[id |-> calls', type |-> "load"]}
          /\ Show({}, "none", TRUE)
          /\ commands' = <<[id |-> calls', type |-> "load", max |-> 0]>>
          /\ events' = <<>> /\ session' = {} /\ running' = {} /\ pausing' = <<>>

Recovering(type) == type = "reset" /\ error = "SIMULATION_FAILED"

\* #send refuses a control while there is nothing to control, or if it is
\* malformed.
Refused(type) == ~worker \/ (projection = {} /\ ~Recovering(type))

CallControl(type, max) ==
    /\ NextCall
    /\ \/ ~Refused(type) /\ Unavailable
       \/ /\ \/ Refused(type) /\ Show(projection, "WORKER_UNAVAILABLE", loading)
             \/ Show(projection, "INVALID_WORKER_COMMAND", loading)
          /\ UNCHANGED <<worker, pending, commands, events, session, running, pausing>>
       \/ /\ ~Refused(type)
          /\ pending' = pending \cup {[id |-> calls', type |-> type]}
          /\ commands' = Append(commands, [id |-> calls', type |-> type, max |-> max])
          /\ Show(projection, IF Recovering(type) /\ projection = {} THEN error ELSE "none", loading)
          /\ UNCHANGED <<worker, events, session, running, pausing>>

Dispose == NextCall /\ Release /\ pending' = {} /\ Show({}, "none", FALSE)

\* The worker stops, or a message cannot be read.
Break == worker /\ Unavailable /\ UNCHANGED calls

\* Faulty variant: the last projection outlives a failure that withholds it.
KeptProjectionAlways(p, e) == IF p.type = "load" THEN {} ELSE projection

\* What an error leaves on the screen: of a failure, only a FAILED projection.
KeptProjection(p, e) ==
    IF p.type = "load" \/ (e.code = "SIMULATION_FAILED" /\ ~\E x \in projection : x.status = "FAILED")
    THEN {} ELSE projection

\* #receive, of an error: it settles its request, and a load that failed
\* releases the worker.
OnError(p, e) ==
    /\ Show(KeptProjection(p, e), e.code, FALSE)
    /\ \/ /\ p.type = "load"
          /\ Release /\ pending' = {}
       \/ /\ p.type # "load"
          /\ pending' = pending \ {p}
          /\ events' = Tail(events)
          /\ UNCHANGED <<worker, commands, session, running, pausing>>

\* What settles p: its last event.
Settles(p, e) ==
    \/ e.type \in {"loaded", "run.finished"}
    \/ /\ e.type = "projection.updated" /\ e.projection.status # "FAILED"
       /\ p.type \in {"pause", "step", "reset"}

\* The events that are not for a request of this kind.
Ignored(p, e) ==
    \/ e.type = "loaded" /\ p.type # "load"
    \/ e.type = "run.finished" /\ p.type # "run"
    \/ e.type = "projection.updated" /\ (p.type = "load" \/ (projection = {} /\ p.type # "reset"))

OnEvent(p, e) ==
    /\ \/ /\ Ignored(p, e)
          /\ UNCHANGED <<pending, projection, error, loading>>
       \/ /\ ~Ignored(p, e)
          /\ pending' = IF Settles(p, e) THEN pending \ {p} ELSE pending
          /\ IF e.type = "run.finished" THEN UNCHANGED <<projection, error, loading>>
             ELSE Show({e.projection}, "none", FALSE)
    /\ events' = Tail(events)
    /\ UNCHANGED <<worker, commands, session, running, pausing>>

\* #receive: an event of a request that is settled is dropped.
Deliver ==
    /\ events # <<>>
    /\ UNCHANGED calls
    /\ LET e == Head(events)
           asked == {p \in pending : p.id = e.id}
       IN  \/ /\ asked = {}
              /\ events' = Tail(events)
              /\ UNCHANGED <<worker, pending, projection, error, loading, commands, session, running, pausing>>
           \/ \E p \in asked : IF e.type = "error" THEN OnError(p, e) ELSE OnEvent(p, e)

-----------------------------------------------------------------------------
Init ==
    /\ worker = FALSE /\ pending = {} /\ projection = {} /\ error = "none" /\ loading = FALSE
    /\ calls = 0 /\ commands = <<>> /\ events = <<>>
    /\ session = {} /\ running = {} /\ pausing = <<>>

Call ==
    \/ CallLoad \/ Dispose
    \/ \E max \in Budgets : CallControl("run", max)
    \/ \E type \in {"pause", "step", "reset"} : CallControl(type, 0)

Next == Call \/ Break \/ Deliver \/ Receive \/ Resume \/ Sample

Spec == Init /\ [][Next]_vars

\* The event loops of the page and of the worker go on.
FairSpec == Spec /\ WF_vars(Deliver) /\ WF_vars(Receive) /\ WF_vars(Resume)

-----------------------------------------------------------------------------
(* Properties                                                               *)

\* Every variable stays in its type.
TypeOK ==
    /\ worker \in BOOLEAN /\ loading \in BOOLEAN /\ calls \in 0..MaxCalls
    /\ pending \subseteq [id : 1..MaxCalls, type : {"load", "run", "pause", "step", "reset"}]
    /\ projection \subseteq [status : Statuses, processed : 0..MaxEvents]
    /\ error \in {"none", "WORKER_UNAVAILABLE", "INVALID_SCENARIO", "INVALID_WORKER_COMMAND", "SIMULATION_FAILED"}
    /\ \A i \in DOMAIN commands : commands[i] \in Command
    /\ session \subseteq Simulation /\ running \subseteq Run
    /\ \A set \in {projection, session, running} : Cardinality(set) <= 1

\* While a run is in progress its simulation is RUNNING, and no control
\* but a pause touches it: the worker never loses track of a run.
RunIsAlone ==
    /\ \A r \in running : \E s \in session : s.status = "RUNNING" /\ s.processed >= r.count
    /\ \A s \in session : s.status = "RUNNING" => running # {}
    /\ running = {} => pausing = <<>>

\* A request that is pending is with the worker, or its last event is on its
\* way: none is forgotten, whatever order controls and failures come in.
PendingAccounted ==
    \A p \in pending :
        \/ \E i \in DOMAIN commands : commands[i].id = p.id
        \/ \E r \in running : r.id = p.id
        \/ \E i \in DOMAIN pausing : pausing[i] = p.id
        \/ \E i \in DOMAIN events :
              events[i].id = p.id /\ (events[i].type = "error" \/ Settles(p, events[i]))

\* When the host waits for nothing, what it shows is where the simulation
\* is, and it shows nothing only of one whose history is withheld.
IdleAgrees ==
    worker /\ pending = {} =>
        \E s \in session : \/ projection = {Projected(s)}
                           \/ projection = {} /\ s.status = "FAILED" /\ s.program.withheld

\* Host, queues, adapter and simulation agree on what runs, on what is asked
\* and, when nothing is, on what is shown.
SessionAgrees == TypeOK /\ RunIsAlone /\ PendingAccounted /\ IdleAgrees

\* A simulation that has taken note of a pause dispatches no event until
\* another control is given.
PauseStops ==
    [][\A s \in session, r \in running : s.pause => \A t \in session' : t.processed = s.processed]_vars

\* A failure that withholds its projection can still be reset (host.ts:119,
\* apps/web/docs/module-reference.md:95), whatever was asked of the host since.
FailureRecoverable ==
    worker /\ pending = {} /\ projection = {} /\ (\E s \in session : s.status = "FAILED")
        => ~Refused("reset")

\* Every request is settled in the end, whatever the user asks meanwhile.
EveryRequestSettled == \A n \in 1..MaxCalls : [](n \in {p.id : p \in pending} => <>(n \notin {p.id : p \in pending}))
=============================================================================
