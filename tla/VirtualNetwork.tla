--------------------------- MODULE VirtualNetwork ---------------------------
(***************************************************************************)
(* The request/response transport of a run, packages/kernel/src/network.ts,*)
(* with the runtimes that call through it and answer: service endpoints    *)
(* (service-runtime.ts) and client actions and callbacks                   *)
(* (client-runtime.ts).  One step dispatches the earliest pending event to *)
(* the end of its handler, tasks it resumes included (simulation.ts).      *)
(*                                                                         *)
(* A call is one request.  The task that made it waits; when the call is   *)
(* settled it makes the next call of Retry if it timed out, else answers   *)
(* the request it is serving (Upstream), else ends.  The handler of a      *)
(* request answers, sleeps, or calls further down (Downstream).            *)
(*                                                                         *)
(* Left to the environment: the scenario (Scripts), jitter, loss and fault *)
(* of every leg (Decisions), and what a handler does.  Bodies, traces and  *)
(* observations are left out; times stay far from 2^53.                    *)
(***************************************************************************)
EXTENDS Integers, Sequences, FiniteSets, KernelOps

CONSTANTS
    Components, Clients,   \* a client has no lifecycle
    Calls,
    Source, Target,        \* [Calls -> Components]
    Upstream,              \* the request a call's task is serving, if any
    Retry,                 \* the call its task makes after a timeout, if any
    Unknown,               \* calls to an endpoint the target does not have
    RequestLatency, ResponseLatency, Timeout, Jitter,  \* policy of the call's link
    Losses,                \* outcomes of the loss draw: {FALSE} at rate 0, {TRUE} at rate 1
    LegFaults,             \* decisions of the network fault points
    Sleeps, Scripts

Step == [time : Nat, type : {"start"}, call : Calls]
   \cup [time : Nat, type : {"lifecycle", "control"}, component : Components \ Clients, next : ServiceState]

\* A call's task makes it first (FirstCalls), or after another timed out.
FirstCalls == {p \in Calls : \A q \in Calls : p \notin Retry[q]}

Downstream(p) == {q \in FirstCalls : p \in Upstream[q]}

ASSUME CallsAssumption ==
    /\ Clients \subseteq Components
    /\ Source \in [Calls -> Components]
    /\ Target \in [Calls -> Components]
    /\ Upstream \in [Calls -> SUBSET Calls]
    /\ Retry \in [Calls -> SUBSET Calls]
    /\ Unknown \subseteq Calls
    /\ \A p \in Calls :
          /\ \A u, v \in Upstream[p] : u = v
          /\ \A u \in Upstream[p] : Target[u] = Source[p]
          /\ \A q, r \in Retry[p] : q = r
          /\ \A q \in Retry[p] : Source[q] = Source[p] /\ Upstream[q] = Upstream[p]
          /\ \A q \in Calls : Retry[p] \cap Retry[q] # {} => p = q
          /\ \A q, r \in Downstream(p) : q = r

ASSUME PolicyAssumption ==
    /\ RequestLatency \in [Calls -> Nat]
    /\ ResponseLatency \in [Calls -> Nat]
    /\ Timeout \in [Calls -> Nat \ {0}]
    /\ Jitter \in [Calls -> Nat]
    /\ Losses \subseteq BOOLEAN /\ Losses # {}
    /\ LegFaults \subseteq [drop : BOOLEAN, extraDelay : Nat] /\ LegFaults # {}
    /\ Sleeps \subseteq Nat

\* The scenario starts first calls that serve no request, each at most once.
ASSUME ScriptsAssumption ==
    /\ Scripts \subseteq Seq(Step)
    /\ \A s \in Scripts : \A i, j \in DOMAIN s :
          /\ s[i].type = "start" => s[i].call \in FirstCalls /\ Upstream[s[i].call] = {}
          /\ s[i].type = "start" /\ s[j].type = "start" /\ s[i].call = s[j].call => i = j

VARIABLES
    now,         \* DeterministicVirtualClock.#time
    nextSeq,     \* DeterministicScheduler.#next
    agenda,      \* the pending events
    flights,     \* #flights
    calls,       \* how each call stands for the task that makes it
    answers,     \* what the target replied
    handlers,    \* endpoint handlers suspended in a sleep
    lifecycle,   \* DeterministicServiceRuntime.#state
    generation,  \* DeterministicServiceRuntime.#generation
    status       \* Simulation.#status

procVars == <<lifecycle, generation>>
vars == <<now, nextSeq, agenda, flights, calls, answers, handlers, procVars, status>>

-----------------------------------------------------------------------------
(* Flights and events                                                       *)

Flight == [state : {"NONE", "SENT", "ADMITTED", "REPLIED", "TIMED_OUT"},
           replied : BOOLEAN, settled : BOOLEAN, deadline : Nat]

NoFlight == [state |-> "NONE", replied |-> FALSE, settled |-> FALSE, deadline |-> 0]

Handler == [call : Calls, generation : Nat]

StartEvent(t, n, p)        == [time |-> t, seq |-> n, type |-> "start", call |-> p]
LifecycleEvent(t, n, c, s) == [time |-> t, seq |-> n, type |-> "lifecycle", component |-> c, next |-> s]
ControlEvent(t, n, c, s)   == [time |-> t, seq |-> n, type |-> "control", component |-> c, next |-> s]
DeadlineEvent(t, n, p)     == [time |-> t, seq |-> n, type |-> "deadline", call |-> p]
DeliveryEvent(t, n, p)     == [time |-> t, seq |-> n, type |-> "delivery", call |-> p]
ResponseEvent(t, n, p, a)  == [time |-> t, seq |-> n, type |-> "response", call |-> p, answer |-> a]
EndpointEvent(t, n, p, g)  == [time |-> t, seq |-> n, type |-> "endpoint", call |-> p, generation |-> g]
WakeEvent(t, n, p)         == [time |-> t, seq |-> n, type |-> "wake", call |-> p]

Event == [time : Nat, seq : Nat, type : {"start", "deadline", "delivery", "wake"}, call : Calls]
    \cup [time : Nat, seq : Nat, type : {"lifecycle", "control"}, component : Components, next : ServiceState]
    \cup [time : Nat, seq : Nat, type : {"response"}, call : Calls, answer : {"ok", "error"}]
    \cup [time : Nat, seq : Nat, type : {"endpoint"}, call : Calls, generation : Nat]

Ready(c) == lifecycle[c] = "RUNNING"

\* #decision: the fate of one leg.
Decisions(p) == {[dropped |-> lost \/ f.drop, delay |-> j + f.extraDelay] :
                    lost \in Losses, f \in LegFaults, j \in 0..Jitter[p]}

Take(e) == agenda \ {e}

\* #boundary, at the end of a dispatch; failed when the handler threw.
Waiting == {p \in Calls : calls[p] = "waiting"}

Boundary(failed) ==
    status' = IF failed THEN "FAILED"
              ELSE IF agenda' # {} THEN status
              ELSE IF Waiting' = {} /\ handlers' = {} THEN "COMPLETED" ELSE "DEADLOCK"

-----------------------------------------------------------------------------
(* Parts of handlers.  F and C are the flights and the calls as the handler *)
(* has left them so far, base the pending events.                           *)

\* Faulty variant: no deadline is set.
RequestWithoutDeadline(p, F, C, base) ==
    \E d \in Decisions(p) :
        /\ flights' = [F EXCEPT ![p] = [state |-> "SENT", replied |-> FALSE, settled |-> FALSE,
                                        deadline |-> now' + Timeout[p]]]
        /\ calls' = [C EXCEPT ![p] = "waiting"]
        /\ agenda' = base
             \cup (IF d.dropped THEN {}
                   ELSE {DeliveryEvent(now' + RequestLatency[p] + d.delay, nextSeq, p)})
        /\ nextSeq' = nextSeq + 1
        /\ UNCHANGED answers
        /\ Boundary(FALSE)

\* request: the deadline is scheduled, then the request leg is sent.
Request(p, F, C, base) ==
    \E d \in Decisions(p) :
        /\ flights' = [F EXCEPT ![p] = [state |-> "SENT", replied |-> FALSE, settled |-> FALSE,
                                        deadline |-> now' + Timeout[p]]]
        /\ calls' = [C EXCEPT ![p] = "waiting"]
        /\ agenda' = base
             \cup {DeadlineEvent(now' + Timeout[p], nextSeq, p)}
             \cup (IF d.dropped THEN {}
                   ELSE {DeliveryEvent(now' + RequestLatency[p] + d.delay, nextSeq + 1, p)})
        /\ nextSeq' = IF d.dropped THEN nextSeq + 1 ELSE nextSeq + 2
        /\ UNCHANGED answers
        /\ Boundary(FALSE)

\* reply: only the first answer is sent; one to a request that was not
\* delivered fails the run.
Reply(p, answer, F, base) ==
    IF F[p].state \in {"NONE", "SENT"} \/ F[p].replied
    THEN /\ flights' = F
         /\ agenda' = base
         /\ UNCHANGED <<nextSeq, answers>>
         /\ Boundary(F[p].state \in {"NONE", "SENT"})
    ELSE \E d \in Decisions(p) :
           /\ flights' = [F EXCEPT ![p].replied = TRUE,
                                   ![p].state = IF F[p].settled THEN @ ELSE "REPLIED"]
           /\ answers' = [answers EXCEPT ![p] = answer]
           /\ agenda' = base
                \cup (IF d.dropped THEN {}
                      ELSE {ResponseEvent(now' + ResponseLatency[p] + d.delay, nextSeq, p, answer)})
           /\ nextSeq' = IF d.dropped THEN nextSeq ELSE nextSeq + 1
           /\ Boundary(FALSE)

\* operations.complete: the call is settled with outcome; its task, unless it
\* was abandoned, goes on.  A timeout that is not retried fails the handler.
Complete(p, outcome, F, base) ==
    LET C == [calls EXCEPT ![p] = outcome]
    IN  \/ /\ calls[p] # "waiting"
           /\ flights' = F
           /\ agenda' = base
           /\ UNCHANGED <<calls, answers, nextSeq>>
           /\ Boundary(FALSE)
        \/ /\ calls[p] = "waiting" /\ outcome = "timeout"
           /\ \E q \in Retry[p] : Request(q, F, C, base)
        \/ /\ calls[p] = "waiting" /\ (outcome = "timeout" => Retry[p] = {})
           /\ calls' = C
           /\ \E u \in Upstream[p] : Reply(u, IF outcome = "ok" THEN "ok" ELSE "error", F, base)
        \/ /\ calls[p] = "waiting" /\ (outcome = "timeout" => Retry[p] = {}) /\ Upstream[p] = {}
           /\ flights' = F
           /\ calls' = C
           /\ agenda' = base
           /\ UNCHANGED <<answers, nextSeq>>
           /\ Boundary(FALSE)

-----------------------------------------------------------------------------
(* The handlers of the events                                               *)

\* A client action or a service's background work that begins with a call.
Start(e) ==
    /\ e.type = "start"
    /\ UNCHANGED <<handlers, procVars>>
    /\ IF Ready(Source[e.call])
       THEN Request(e.call, flights, calls, Take(e))
       ELSE /\ calls' = [calls EXCEPT ![e.call] = "skipped"]
            /\ agenda' = Take(e)
            /\ UNCHANGED <<nextSeq, flights, answers>>
            /\ Boundary(FALSE)

\* #deliver: an unavailable target or an unknown endpoint is answered by the
\* transport; otherwise the request becomes an event of the target.
Deliver(e) ==
    LET p == e.call
        F == [flights EXCEPT ![p].state = "ADMITTED"]
    IN  /\ e.type = "delivery"
        /\ UNCHANGED <<calls, handlers, procVars>>
        /\ IF Ready(Target[p]) /\ p \notin Unknown
           THEN /\ flights' = F
                /\ agenda' = Take(e) \cup {EndpointEvent(now', nextSeq, p, generation[Target[p]])}
                /\ nextSeq' = nextSeq + 1
                /\ UNCHANGED answers
                /\ Boundary(FALSE)
           ELSE Reply(p, "error", F, Take(e))

\* Faulty variant: work accepted by an earlier generation is run.
CurrentAlways(e) == TRUE

Current(e) == e.generation = generation[Target[e.call]]

\* service.<id>.endpoint and client.<id>.callback: run the handler to its
\* end, to its first sleep or to its first call.
Endpoint(e) ==
    LET p == e.call
    IN  /\ e.type = "endpoint"
        /\ UNCHANGED procVars
        /\ \/ /\ ~Current(e)
              /\ agenda' = Take(e)
              /\ UNCHANGED <<nextSeq, flights, calls, answers, handlers>>
              /\ Boundary(FALSE)
           \/ /\ Current(e)
              /\ UNCHANGED <<calls, handlers>>
              /\ \E answer \in {"ok", "error"} : Reply(p, answer, flights, Take(e))
           \/ /\ Current(e)
              /\ UNCHANGED handlers
              /\ \E q \in Downstream(p) : Request(q, flights, calls, Take(e))
           \/ /\ Current(e)
              /\ \E delay \in Sleeps : agenda' = Take(e) \cup {WakeEvent(now' + delay, nextSeq, p)}
              /\ nextSeq' = nextSeq + 1
              /\ handlers' = handlers \cup {[call |-> p, generation |-> e.generation]}
              /\ UNCHANGED <<flights, calls, answers>>
              /\ Boundary(FALSE)

\* kernel.wake: the handler that slept answers, if its task still exists.
Wake(e) ==
    LET mine == {h \in handlers : h.call = e.call}
    IN  /\ e.type = "wake"
        /\ UNCHANGED <<calls, procVars>>
        /\ handlers' = handlers \ mine
        /\ IF mine # {}
           THEN Reply(e.call, "ok", flights, Take(e))
           ELSE /\ agenda' = Take(e)
                /\ UNCHANGED <<nextSeq, flights, answers>>
                /\ Boundary(FALSE)

\* The deadline a response in time cancels.
DeadlinesOf(p) == {d \in agenda : d.type = "deadline" /\ d.call = p}

\* Faulty variant: a late response completes the call again.
ReceiveLate(e) ==
    /\ e.type = "response"
    /\ flights' = [flights EXCEPT ![e.call].settled = TRUE]
    /\ calls' = [calls EXCEPT ![e.call] = e.answer]
    /\ agenda' = Take(e) \ DeadlinesOf(e.call)
    /\ UNCHANGED <<answers, nextSeq, handlers, procVars>>
    /\ Boundary(FALSE)

\* #receive: a response after the deadline is late and changes nothing;
\* otherwise it settles the flight and cancels the deadline.
Receive(e) ==
    LET p == e.call
    IN  /\ e.type = "response"
        /\ UNCHANGED <<handlers, procVars>>
        /\ \/ /\ flights[p].settled
              /\ agenda' = Take(e)
              /\ UNCHANGED <<nextSeq, flights, calls, answers>>
              /\ Boundary(FALSE)
           \/ /\ ~flights[p].settled
              /\ Complete(p, e.answer, [flights EXCEPT ![p].settled = TRUE], Take(e) \ DeadlinesOf(p))

\* #deadline
Deadline(e) ==
    LET p == e.call
    IN  /\ e.type = "deadline"
        /\ UNCHANGED <<handlers, procVars>>
        /\ IF flights[p].settled
           THEN /\ agenda' = Take(e)
                /\ UNCHANGED <<nextSeq, flights, calls, answers>>
                /\ Boundary(FALSE)
           ELSE Complete(p, "timeout", [flights EXCEPT ![p].settled = TRUE, ![p].state = "TIMED_OUT"],
                         Take(e))

\* The calls whose tasks abandon() ends with the process of c.
Abandoned(c) == {p \in Calls : calls[p] = "waiting" /\ Source[p] = c}

\* #transition: ending the process abandons its tasks, with their wakes, but
\* not the requests they have sent.
Lifecycle(e) ==
    LET c      == e.component
        before == lifecycle[c]
        ends   == EndsProcess(before, e.next)
        mine   == {h \in handlers : Target[h.call] = c}
        wakes  == {w \in agenda : w.type = "wake" /\ \E h \in mine : h.call = w.call}
    IN  /\ e.type = "lifecycle"
        /\ UNCHANGED <<nextSeq, flights, answers>>
        /\ \/ /\ e.next = before \/ e.next \notin Allowed[before]
              /\ agenda' = Take(e)
              /\ UNCHANGED <<calls, handlers, procVars>>
              /\ Boundary(e.next # before)
           \/ /\ e.next \in Allowed[before]
              /\ lifecycle' = [lifecycle EXCEPT ![c] = e.next]
              /\ generation' = IF ends THEN [generation EXCEPT ![c] = @ + 1] ELSE generation
              /\ handlers' = IF ends THEN handlers \ mine ELSE handlers
              /\ calls' = [p \in Calls |-> IF ends /\ p \in Abandoned(c) THEN "abandoned" ELSE calls[p]]
              /\ agenda' = IF ends THEN Take(e) \ wakes ELSE Take(e)
              /\ Boundary(FALSE)

\* A handler the host registers for a service schedules a transition of it
\* (HandlerContext.schedule), after all that is pending at this time.
Control(e) ==
    /\ e.type = "control"
    /\ agenda' = Take(e) \cup {LifecycleEvent(now', nextSeq, e.component, e.next)}
    /\ nextSeq' = nextSeq + 1
    /\ UNCHANGED <<flights, calls, answers, handlers, procVars>>
    /\ Boundary(FALSE)

-----------------------------------------------------------------------------
ScriptEvent(step, n) ==
    CASE step.type = "start"     -> StartEvent(step.time, n, step.call)
      [] step.type = "lifecycle" -> LifecycleEvent(step.time, n, step.component, step.next)
      [] step.type = "control"   -> ControlEvent(step.time, n, step.component, step.next)

Init ==
    /\ \E s \in Scripts :
          /\ agenda = {ScriptEvent(s[i], i - 1) : i \in DOMAIN s}
          /\ nextSeq = Len(s)
    /\ now = 0
    /\ flights = [p \in Calls |-> NoFlight]
    /\ calls = [p \in Calls |-> "idle"]
    /\ answers = [p \in Calls |-> "none"]
    /\ handlers = {}
    /\ lifecycle = [c \in Components |-> IF c \in Clients THEN "RUNNING" ELSE "STARTING"]
    /\ generation = [c \in Components |-> 0]
    /\ status = "RUNNING"

Dispatch(e) ==
    /\ IsFirst(e, agenda)
    /\ now' = e.time
    /\ \/ Start(e) \/ Deliver(e) \/ Endpoint(e) \/ Wake(e)
       \/ Receive(e) \/ Deadline(e) \/ Lifecycle(e)
       \/ Control(e)

Next == status = "RUNNING" /\ \E e \in agenda : Dispatch(e)

Spec == Init /\ [][Next]_vars

\* run() dispatches until the agenda is empty.
FairSpec == Spec /\ WF_vars(Next)
-----------------------------------------------------------------------------
(* Properties                                                               *)

CallStatus == {"idle", "waiting", "ok", "error", "timeout", "abandoned", "skipped"}

\* Every variable stays in its type.
TypeOK ==
    /\ now \in Nat
    /\ nextSeq \in Nat
    /\ agenda \subseteq Event
    /\ flights \in [Calls -> Flight]
    /\ calls \in [Calls -> CallStatus]
    /\ answers \in [Calls -> {"none", "ok", "error"}]
    /\ handlers \subseteq Handler
    /\ lifecycle \in [Components -> ServiceState]
    /\ generation \in [Components -> Nat]
    /\ status \in {"RUNNING", "COMPLETED", "DEADLOCK", "FAILED"}

\* A flight that is not settled has exactly one deadline pending, at the time
\* it records, and a settled one has none, whichever of #receive and
\* #deadline settled it; a task never waits on a settled flight.
DeadlinesMatch ==
    /\ \A p \in Calls :
          flights[p].state # "NONE" /\ ~flights[p].settled
            <=> \E e \in agenda : e.type = "deadline" /\ e.call = p /\ e.time = flights[p].deadline
    /\ \A e, f \in agenda : e.type = "deadline" /\ f.type = "deadline" /\ e.call = f.call => e = f
    /\ \A p \in Calls : calls[p] = "waiting" => flights[p].state # "NONE" /\ ~flights[p].settled

\* The work under way for a request: its event at the target, its sleeping
\* handler, or the call its handler waits for.
WorkFor(u) == {e \in agenda : e.type = "endpoint" /\ e.call = u}
         \cup {h \in handlers : h.call = u}
         \cup {p \in Calls : calls[p] = "waiting" /\ u \in Upstream[p]}

\* A request is worked on by at most one task, only after its delivery, and
\* not after it was answered: reply never fails the run, and never has a
\* second answer to discard.
OneTaskPerRequest ==
    \A u \in Calls :
        /\ \A x, y \in WorkFor(u) : x = y
        /\ WorkFor(u) # {} => flights[u].state \notin {"NONE", "SENT"} /\ ~flights[u].replied

\* No task outlives its process: suspended handlers belong to the present
\* generation of their service, and each has its one wake.
NoZombieWork ==
    /\ \A h \in handlers : h.generation = generation[Target[h.call]]
    /\ \A h \in handlers : \E e \in agenda : e.type = "wake" /\ e.call = h.call
    /\ \A e \in agenda : e.type = "wake" => \E h \in handlers : h.call = e.call

\* When a run completes every flight is settled and nobody waits, and a
\* request whose handler called further down was answered if one of those
\* calls came back to it: only the end of its process keeps a handler from
\* answering.  The transport alone never deadlocks a run.
Quiescent ==
    /\ status # "DEADLOCK"
    /\ status = "COMPLETED" => \A p \in Calls :
          /\ flights[p].state # "NONE" => flights[p].settled
          /\ calls[p] \in {"ok", "error"} \/ (calls[p] = "timeout" /\ Retry[p] = {})
                => \A u \in Upstream[p] : flights[u].replied

\* Deadlines, tasks, wakes and answers agree with the flights, whatever is
\* lost, retried, handled or crashes, and so does what a run leaves behind.
WorkMatches == TypeOK /\ DeadlinesMatch /\ OneTaskPerRequest /\ NoZombieWork /\ Quiescent

\* A caller gets an answer strictly before its deadline and a timeout exactly
\* at it: at the exact time the deadline, scheduled first, wins.
AnswerBeforeDeadline ==
    [][\A p \in Calls : calls[p] = "waiting" =>
          /\ calls'[p] \in {"ok", "error"} => now' < flights[p].deadline
          /\ calls'[p] = "timeout" => now' = flights[p].deadline]_vars

\* Every call has one outcome and answers are given once and returned as
\* given: late responses, retries and crashes included (NET-INV-2), answers
\* before the deadline and timeouts at it.
Remote == INSTANCE RemoteCall WITH outcome <- calls, answered <- answers

ImplementsRemoteCall == Remote!Spec /\ AnswerBeforeDeadline

\* Every call that is made is settled, whatever is lost.
EveryCallReturns == \A p \in Calls : calls[p] = "waiting" ~> calls[p] # "waiting" \/ status = "FAILED"
=============================================================================
