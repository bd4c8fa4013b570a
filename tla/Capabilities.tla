----------------------------- MODULE Capabilities -----------------------------
(***************************************************************************)
(* What the handlers of a simulation hold, and may use later than they     *)
(* should (packages/kernel/src: simulation.ts, service-runtime.ts,         *)
(* client-runtime.ts).  A context, the controller of a scenario event or   *)
(* the handle of a scheduled event can be kept by model code and called in *)
(* another dispatch, by another component, after the process crashed,      *)
(* after the run failed, between two dispatches, or after a reset.         *)
(*                                                                         *)
(* A capability remembers its owner, the run it was made in, and its epoch:*)
(* the process generation of a service, the event of a controller.  What a *)
(* port does is in the module of its part; here it is done or not.         *)
(***************************************************************************)
EXTENDS Integers, FiniteSets

CONSTANTS
    Services, Clients, None,
    MaxRun, MaxGeneration, MaxScenario, MaxHeld, MaxKept   \* bounds: resets, crashes, scenario events, work waiting, capabilities kept

VARIABLES
    run,         \* #generation of the simulation
    failure,     \* #failure: its code, or None
    stack,       \* the handler on the stack: its owner, and its scenario event or 0; or None
    state,       \* service -> lifecycle state
    generation,  \* service -> process generation
    scenarios,   \* client -> scenario events dispatched
    violated,    \* <<run, owner>> of the runtimes whose #violated is set
    kept,        \* capabilities model code has put aside
    held,        \* tasks suspended and local events scheduled
    misused,     \* for the properties: a capability of this run was refused
    last         \* for the properties: the last call

vars == <<run, failure, stack, state, generation, scenarios, violated, kept, held, misused, last>>

Owners == Services \cup Clients
Allowed == [STARTING |-> {"RUNNING", "CRASHED", "STOPPED"}, RUNNING |-> {"PAUSED", "CRASHED", "STOPPED"},
            PAUSED |-> {"RUNNING", "CRASHED", "STOPPED"}, CRASHED |-> {"STARTING", "STOPPED"}, STOPPED |-> {"STARTING"}]

Capability(kind, o, epoch) == [kind |-> kind, owner |-> o, run |-> run, epoch |-> epoch]
Epoch(o) == IF o \in Services THEN generation[o] ELSE 0
Context(o) == Capability(IF o \in Services THEN "service" ELSE "client", o, Epoch(o))
Quiet == [told |-> "nothing"]

\* What a handler is given, and what code can call: that, or what was kept.
Given == IF stack = None THEN {}
         ELSE {IF stack.scenario = 0 THEN Context(stack.owner) ELSE Capability("controller", stack.owner, stack.scenario)}
Kept(more) == kept' = kept \/ (Cardinality(kept \cup more) <= MaxKept /\ kept' = kept \cup more)

-----------------------------------------------------------------------------
(* The fences                                                               *)

\* activeTaskOwner: of the task being advanced, else of the event's handler.
ActiveOwner == IF stack = None THEN None ELSE stack.owner
\* #check
Check(c) == IF c.run # run THEN "STALE_CAPABILITY" ELSE failure

\* Faulty variant: of whichever process of the service.
ServiceFenceAnyProcess(c) ==
    IF <<c.run, c.owner>> \in violated THEN "INVALID_OPERATION"
    ELSE IF Check(c) # None THEN Check(c)
    ELSE IF ActiveOwner # c.owner THEN "INVALID_OPERATION" ELSE None

\* Why a call through a capability is refused; None when it is not.
ServiceFence(c) ==
    IF <<c.run, c.owner>> \in violated THEN "INVALID_OPERATION"
    ELSE IF Check(c) # None THEN Check(c)
    ELSE IF c.epoch # generation[c.owner] THEN "STALE_CAPABILITY"
    ELSE IF ActiveOwner # c.owner THEN "INVALID_OPERATION" ELSE None
ClientFence(c) == IF <<c.run, c.owner>> \in violated \/ ActiveOwner # c.owner THEN "INVALID_OPERATION" ELSE Check(c)
ControllerFence(c) ==
    IF c.run = run /\ stack = [owner |-> c.owner, scenario |-> c.epoch] THEN Check(c) ELSE "INVALID_CLIENT_ACTION"
Fence(c) ==
    CASE c.kind = "service" -> ServiceFence(c) [] c.kind = "client" -> ClientFence(c)
      [] c.kind = "controller" -> ControllerFence(c) [] c.kind = "handle" -> Check(c)

\* #guard and #terminal: what a refusal leaves as the failure of the run.  A
\* capability of an earlier run ends this one if a handler is at work.
Sealed(c, code) == IF failure = None /\ (stack # None \/ c.run = run) THEN code ELSE failure

-----------------------------------------------------------------------------
(* Calls                                                                    *)

Refuse(c, code) ==
    /\ failure' = Sealed(c, code)
    /\ violated' = IF c.kind = "handle" THEN violated ELSE violated \cup {<<c.run, c.owner>>}
    /\ misused' = (misused \/ c.run = run)
    /\ last' = [by |-> c, told |-> IF c.run = run THEN failure' ELSE code]
    /\ UNCHANGED <<kept, held>>

Serve(c) ==
    /\ last' = [by |-> c, told |-> "done"]
    /\ UNCHANGED <<failure, violated, misused>>

\* A port of a context, start of a controller: a modeled failure is done too,
\* any other, an argument that is not valid or a promise, breaks the contract.
Use(c) ==
    /\ c.kind # "handle"
    /\ \/ Fence(c) # None /\ Refuse(c, Fence(c))
       \/ Fence(c) = None /\ Refuse(c, "HANDLER_FAILED")
       \/ Fence(c) = None /\ Serve(c) /\ UNCHANGED <<kept, held>>
    /\ UNCHANGED <<run, stack, state, generation, scenarios>>

\* clock.schedule: a service keeps a handle; a client has no such port.
Schedule(c) ==
    /\ \/ c.kind = "client" /\ Refuse(c, "INVALID_EVENT_TYPE")
       \/ /\ c.kind = "service" /\ Fence(c) = None /\ Cardinality(held) < MaxHeld
          /\ Serve(c)
          /\ held' = held \cup {Capability("event", c.owner, c.epoch)}
          /\ Kept({Capability("handle", c.owner, c.epoch)})
    /\ UNCHANGED <<run, stack, state, generation, scenarios>>

\* The handle of a local event: #boundHandle.
Cancel(c) ==
    /\ c.kind = "handle"
    /\ IF Fence(c) # None THEN Refuse(c, Fence(c))
       ELSE Serve(c) /\ held' = held \ {[c EXCEPT !.kind = "event"]} /\ UNCHANGED kept
    /\ UNCHANGED <<run, stack, state, generation, scenarios>>

-----------------------------------------------------------------------------
(* Dispatches                                                               *)

Dispatching(o, scenario) == stack = None /\ failure = None /\ stack' = [owner |-> o, scenario |-> scenario]

\* Endpoints, consumers and background work of a service, actions and
\* callbacks of a client: #endpoint, #consumer, #background, #action, #callback.
\* A service was RUNNING when it accepted the work, and may be PAUSED since: only
\* the generation is looked at, and every other change of state ends it.
Handle(o) ==
    /\ Dispatching(o, 0) /\ (o \in Services => state[o] \in {"RUNNING", "PAUSED"})
    /\ last' = Quiet
    /\ UNCHANGED <<run, failure, state, generation, scenarios, violated, kept, held, misused>>

\* A local event of a service comes due; it is skipped unless the service runs.
Background(e) ==
    /\ e.kind = "event" /\ held' = held \ {e} /\ last' = Quiet
    /\ IF state[e.owner] = "RUNNING" THEN Dispatching(e.owner, 0) ELSE stack = None /\ failure = None /\ UNCHANGED stack
    /\ UNCHANGED <<run, failure, state, generation, scenarios, violated, kept, misused>>

\* What a suspended task waits for is there: #advance.
Advance(t) ==
    /\ t.kind = "task" /\ Dispatching(t.owner, 0) /\ held' = held \ {t} /\ last' = Quiet
    /\ UNCHANGED <<run, failure, state, generation, scenarios, violated, kept, misused>>

\* dispatch of the client runtime: the scenario adapter is given the controller.
Dispatch(c) ==
    /\ scenarios[c] < MaxScenario
    /\ Dispatching(c, scenarios[c] + 1)
    /\ scenarios' = [scenarios EXCEPT ![c] = @ + 1]
    /\ last' = Quiet
    /\ UNCHANGED <<run, failure, state, generation, violated, kept, held, misused>>

\* #run, #drive: the handler returns, yields or throws; what it was given it
\* may have put aside.
Finish ==
    /\ stack # None /\ stack' = None /\ last' = Quiet /\ Kept(Given)
    /\ \/ UNCHANGED <<failure, held>>
       \/ failure = None /\ failure' = "HANDLER_FAILED" /\ UNCHANGED held
       \/ /\ failure = None /\ stack.scenario = 0 /\ Cardinality(held) < MaxHeld
          /\ held' = held \cup {Capability("task", stack.owner, Epoch(stack.owner))} /\ UNCHANGED failure
    /\ UNCHANGED <<run, state, generation, scenarios, violated, misused>>

\* The lifecycle event of a service, or its crash by a fault.
Transition(s, next) ==
    LET ends == next \in {"CRASHED", "STOPPED"} /\ state[s] # "CRASHED" IN
    /\ stack = None /\ failure = None /\ next # state[s] /\ last' = Quiet
    /\ IF next \notin Allowed[state[s]] THEN failure' = "INVALID_SERVICE_TRANSITION" /\ UNCHANGED <<state, generation, held>>
       ELSE /\ ends => generation[s] < MaxGeneration
            /\ state' = [state EXCEPT ![s] = next]
            /\ generation' = IF ends THEN [generation EXCEPT ![s] = @ + 1] ELSE generation
            /\ held' = IF ends THEN {x \in held : x.owner # s} ELSE held
            /\ UNCHANGED failure
    /\ UNCHANGED <<run, stack, scenarios, violated, kept, misused>>

\* reset: every part is made again; model code keeps what it has.
Reset ==
    /\ stack = None /\ run < MaxRun
    /\ run' = run + 1 /\ failure' = None /\ held' = {} /\ misused' = FALSE /\ last' = Quiet
    /\ state' = [s \in Services |-> "STARTING"] /\ generation' = [s \in Services |-> 0] /\ scenarios' = [c \in Clients |-> 0]
    /\ UNCHANGED <<stack, violated, kept>>

Init ==
    /\ run = 1 /\ failure = None /\ stack = None /\ violated = {} /\ kept = {} /\ held = {} /\ misused = FALSE /\ last = Quiet
    /\ state = [s \in Services |-> "STARTING"] /\ generation = [s \in Services |-> 0] /\ scenarios = [c \in Clients |-> 0]

Next ==
    \/ \E c \in kept \cup Given : Use(c) \/ Schedule(c) \/ Cancel(c)
    \/ \E o \in Owners : Handle(o)
    \/ \E x \in held : Background(x) \/ Advance(x)
    \/ \E c \in Clients : Dispatch(c)
    \/ \E s \in Services, next \in DOMAIN Allowed : Transition(s, next)
    \/ Finish \/ Reset

Spec == Init /\ [][Next]_vars

-----------------------------------------------------------------------------
(* Properties                                                               *)

Called == last.told # "nothing"

\* What is served belongs to the run, the process and the component at work.
ServedLive ==
    Called /\ last.told = "done" =>
        /\ failure = None /\ last.by.run = run
        /\ last.by.kind # "handle" => ActiveOwner = last.by.owner
        /\ last.by.kind = "service" => last.by.epoch = generation[last.by.owner]
\* No task and no event of a process outlives it, or its run.
WorkLive == \A x \in held : x.run = run /\ x.epoch = Epoch(x.owner)
\* "Caught cross-owner and stale capability use still seals the run": a handler
\* that catches the error of its misuse has ended its run all the same.  Said of
\* the capabilities of the run itself: those of an earlier run are to "reject
\* after reset without affecting the new run" (docs/spec/virtual-clock.md:208),
\* which Sealed does not.
MisuseSeals == misused => failure # None

\* Whatever model code keeps and whenever it calls it, nothing is done in the
\* name of a component, a process or a run that is not at work, and a run has
\* failed when one of its own was refused (SVC-AC-4, #capability, #guard).
Fenced == ServedLive /\ WorkLive /\ MisuseSeals
=============================================================================
