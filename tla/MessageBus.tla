----------------------------- MODULE MessageBus -----------------------------
(***************************************************************************)
(* The broker of a run, packages/kernel/src/message-bus.ts, together with  *)
(* the part of the service runtime (service-runtime.ts) that consumes its  *)
(* deliveries and of the kernel (simulation.ts, scheduler.ts) that runs    *)
(* both: one step dispatches the earliest pending event, at its time, to   *)
(* the end of its handler.  The loop of #onDispatch is cut into its        *)
(* iterations (ReserveNext) because each asks the fault port for a         *)
(* decision; no other event runs while draining is TRUE.                   *)
(*                                                                         *)
(* Left to the environment, hence chosen nondeterministically: the         *)
(* scenario (Scripts), the fault decision of every attempt (Faults), how a *)
(* consumer's handler ends and how long it sleeps first (Sleeps).          *)
(*                                                                         *)
(* Abstractions: message bodies, observations and trace identities are     *)
(* left out; a routing record is named by its publication and subscriber   *)
(* and a delivery by its record, attempt and index instead of by counters; *)
(* 53-bit overflow of times and counters is not reached.                   *)
(***************************************************************************)
EXTENDS Integers, Sequences, FiniteSets, KernelOps

CONSTANTS
    Queues,           \* destinations of kind "queue"
    Topics,           \* destinations of kind "topic"
    Components,       \* the services, publishers and consumers alike
    Publications,     \* the publish calls of a run
    NoSubscriber,     \* Routing.subscriber and Routing.consumer when undefined
    Subscribers,      \* [Destinations -> Seq(Components)], registration order
    Destination,      \* [Publications -> Destinations]
    Publisher,        \* [Publications -> Components]
    Follow,           \* the publication a publisher's task makes after one
    DeliveryDelay, AckTimeout, RetryDelay,  \* destination policy
    MaxAttempts, Capacity,
    Faults,           \* the decisions of the message.delivery fault point
    Sleeps,           \* durations a consumer's handler may sleep
    Scripts           \* the scenarios: sequences of scheduled steps

Destinations == Queues \cup Topics

FaultDecision == [drop : BOOLEAN, extraDelay : Nat, additionalCopies : Nat, copySpacing : Nat]

Step == [time : Nat, type : {"publish"}, pub : Publications]
   \cup [time : Nat, type : {"lifecycle", "control"}, component : Components, next : ServiceState]

ASSUME DestinationsAssumption ==
    /\ Queues \cap Topics = {}
    /\ Subscribers \in [Destinations -> Seq(Components)]
    /\ \A d \in Destinations : \A i, j \in DOMAIN Subscribers[d] :
           Subscribers[d][i] = Subscribers[d][j] => i = j
    /\ DeliveryDelay \in [Destinations -> Nat]
    /\ RetryDelay \in [Destinations -> Nat]
    /\ AckTimeout \in [Destinations -> Nat \ {0}]
    /\ MaxAttempts \in [Destinations -> Nat \ {0}]
    /\ Capacity \in [Destinations -> Nat \ {0}]

ASSUME PublicationsAssumption ==
    /\ NoSubscriber \notin Components
    /\ Destination \in [Publications -> Destinations]
    /\ Publisher \in [Publications -> Components]
    /\ Follow \in [Publications -> SUBSET Publications]
    /\ \A p \in Publications : \A f, g \in Follow[p] : f = g
    /\ \A p, q \in Publications : Follow[p] \cap Follow[q] # {} => p = q
    /\ \A p \in Publications : \A f \in Follow[p] : Publisher[f] = Publisher[p]

\* Each publication has one origin: a step of the script, or the
\* publication it follows.
ASSUME ScriptsAssumption ==
    /\ Faults \subseteq FaultDecision
    /\ Sleeps \subseteq Nat
    /\ Scripts \subseteq Seq(Step)
    /\ \A s \in Scripts : \A i, j \in DOMAIN s :
          /\ s[i].type = "publish" /\ s[j].type = "publish" /\ s[i].pub = s[j].pub => i = j
          /\ s[i].type = "publish" => \A p \in Publications : s[i].pub \notin Follow[p]

VARIABLES
    now,             \* DeterministicVirtualClock.#time
    nextSeq,         \* DeterministicScheduler.#next
    agenda,          \* the pending events, DeterministicScheduler.#heap
    records,         \* #records
    nextOrder,       \* #nextOrder
    delivered,       \* the copies of #copies whose delivered flag is set
    accepted,        \* each delivery with the generation its consumer took it in
    reserved,        \* the subscriptions whose reserved flag is set
    cursors,         \* #cursors
    dispatchPending, \* #dispatchPending
    draining,        \* the while of #onDispatch has another iteration to make
    dead,            \* #dead
    lifecycle,       \* DeterministicServiceRuntime.#state of each service
    generation,      \* DeterministicServiceRuntime.#generation
    pubs,            \* how each publish call stands
    tasks,           \* deliveries whose handler is suspended in a sleep
    status           \* Simulation.#status

busVars == <<records, nextOrder, delivered, accepted, reserved, cursors, dead>>
runVars == <<lifecycle, generation, pubs, tasks>>
vars == <<now, nextSeq, agenda, busVars, dispatchPending, draining, runVars, status>>

-----------------------------------------------------------------------------
(* Routing records, copies and events                                       *)

\* A queue has one record for all its subscribers, a topic one for each.
Routings == Publications \X (Components \cup {NoSubscriber})

DestinationOf(r) == Destination[r[1]]

SubscriberSet(d) == {Subscribers[d][i] : i \in DOMAIN Subscribers[d]}

RecordState == {"ABSENT", "QUEUED", "IN_FLIGHT", "ACKED", "RETRY", "DEAD"}

Record == [state : RecordState, attempt : Nat, settled : BOOLEAN,
           consumer : Components \cup {NoSubscriber}, order : Nat]

Unattempted(state, order) == [state |-> state, attempt |-> 0, settled |-> FALSE,
                              consumer |-> NoSubscriber, order |-> order]

Copy == [routing : Routings, attempt : Nat, index : Nat,
         consumer : Components, dropped : BOOLEAN]

PublishEvent(t, n, p)      == [time |-> t, seq |-> n, type |-> "publish", pub |-> p]
LifecycleEvent(t, n, c, s) == [time |-> t, seq |-> n, type |-> "lifecycle", component |-> c, next |-> s]
ControlEvent(t, n, c, s)   == [time |-> t, seq |-> n, type |-> "control", component |-> c, next |-> s]
AdmissionEvent(t, n, p)    == [time |-> t, seq |-> n, type |-> "admission", pub |-> p]
DispatchEvent(t, n)        == [time |-> t, seq |-> n, type |-> "dispatch"]
ArrivalEvent(t, n, c)      == [time |-> t, seq |-> n, type |-> "arrival", copy |-> c]
TimeoutEvent(t, n, r, a)   == [time |-> t, seq |-> n, type |-> "timeout", routing |-> r, attempt |-> a]
RetryEvent(t, n, r)        == [time |-> t, seq |-> n, type |-> "retry", routing |-> r]
ConsumerEvent(t, n, c, g)  == [time |-> t, seq |-> n, type |-> "consumer", copy |-> c, generation |-> g]
WakeEvent(t, n, c)         == [time |-> t, seq |-> n, type |-> "wake", copy |-> c]

Event == [time : Nat, seq : Nat, type : {"publish", "admission"}, pub : Publications]
    \cup [time : Nat, seq : Nat, type : {"lifecycle", "control"}, component : Components, next : ServiceState]
    \cup [time : Nat, seq : Nat, type : {"dispatch"}]
    \cup [time : Nat, seq : Nat, type : {"arrival", "wake"}, copy : Copy]
    \cup [time : Nat, seq : Nat, type : {"timeout"}, routing : Routings, attempt : Nat]
    \cup [time : Nat, seq : Nat, type : {"retry"}, routing : Routings]
    \cup [time : Nat, seq : Nat, type : {"consumer"}, copy : Copy, generation : Nat]

\* The event of a copy's deadline; a record holds the handle of the last one.
IsTimeout(e, r, a) == e.type = "timeout" /\ e.routing = r /\ e.attempt = a

Deadlines(r) == {e \in agenda : IsTimeout(e, r, records[r].attempt)}

-----------------------------------------------------------------------------
(* Selection of a record and of its consumer                                *)

Ready(c) == lifecycle[c] = "RUNNING"

Free(d, c) == <<d, c>> \notin reserved /\ Ready(c)

\* The consumers a record may be delivered to: #selectTopic, #selectQueue.
Candidates(r) == {c \in SubscriberSet(DestinationOf(r)) :
                     r[2] \in {c, NoSubscriber} /\ Free(DestinationOf(r), c)}

CanReserve(r) == records[r].state = "QUEUED" /\ Candidates(r) # {}

SomeReservable == \E r \in Routings : CanReserve(r)

\* The offset at which #selectQueue finds a free subscriber, from the cursor.
At(d, k) == Subscribers[d][((cursors[d] + k) % Len(Subscribers[d])) + 1]

SelectQueue(d, k) == /\ Free(d, At(d, k))
                     /\ \A j \in 0..(k - 1) : ~Free(d, At(d, j))

-----------------------------------------------------------------------------
(* Parts of several handlers.  base and n are the pending events and the    *)
(* next sequence number as the handler has left them so far.                *)

\* Faulty variant: tests the state as it was before the handler.
ScheduleDispatchStale(base, n) ==
    IF ~dispatchPending /\ SomeReservable
    THEN /\ dispatchPending' = TRUE
         /\ agenda' = base \cup {DispatchEvent(now', n)}
         /\ nextSeq' = n + 1
    ELSE /\ dispatchPending' = dispatchPending
         /\ agenda' = base
         /\ nextSeq' = n

\* #scheduleDispatch: reads the state the rest of the handler has written.
ScheduleDispatch(base, n) ==
    IF ~dispatchPending /\ SomeReservable'
    THEN /\ dispatchPending' = TRUE
         /\ agenda' = base \cup {DispatchEvent(now', n)}
         /\ nextSeq' = n + 1
    ELSE /\ dispatchPending' = dispatchPending
         /\ agenda' = base
         /\ nextSeq' = n

\* #consumerChanged
ConsumerChanged(c, base) ==
    IF \E d \in Destinations : c \in SubscriberSet(d)
    THEN ScheduleDispatch(base, nextSeq)
    ELSE /\ agenda' = base
         /\ UNCHANGED <<dispatchPending, nextSeq>>

\* Faulty variant of #fail: the reservation is kept.
FailAttemptKeepingReservation(r, reason, base) ==
    LET d         == DestinationOf(r)
        exhausted == records[r].attempt >= MaxAttempts[d]
    IN  /\ records' = [records EXCEPT ![r].settled = TRUE,
                                      ![r].state = IF exhausted THEN "DEAD" ELSE "RETRY"]
        /\ UNCHANGED reserved
        /\ dead' = IF exhausted
                   THEN dead \cup {[routing |-> r, attempts |-> records[r].attempt, reason |-> reason]}
                   ELSE dead
        /\ IF exhausted
           THEN ScheduleDispatch(base, nextSeq)
           ELSE ScheduleDispatch(base \cup {RetryEvent(now' + RetryDelay[d], nextSeq, r)}, nextSeq + 1)

\* #fail: end a live attempt without an acknowledgement.
FailAttempt(r, reason, base) ==
    LET d         == DestinationOf(r)
        exhausted == records[r].attempt >= MaxAttempts[d]
    IN  /\ records' = [records EXCEPT ![r].settled = TRUE,
                                      ![r].state = IF exhausted THEN "DEAD" ELSE "RETRY"]
        /\ reserved' = reserved \ {<<d, records[r].consumer>>}
        /\ dead' = IF exhausted
                   THEN dead \cup {[routing |-> r, attempts |-> records[r].attempt, reason |-> reason]}
                   ELSE dead
        /\ IF exhausted
           THEN ScheduleDispatch(base, nextSeq)
           ELSE ScheduleDispatch(base \cup {RetryEvent(now' + RetryDelay[d], nextSeq, r)}, nextSeq + 1)

\* Faulty variants: any attempt in flight will do; any state will do.
OpenAnyAttempt(copy) == /\ records[copy.routing].state = "IN_FLIGHT"
                        /\ ~records[copy.routing].settled

OpenAnyState(copy) == records[copy.routing].attempt = copy.attempt

\* The copy belongs to the attempt that is in flight.
Open(copy) == /\ records[copy.routing].state = "IN_FLIGHT"
              /\ records[copy.routing].attempt = copy.attempt
              /\ ~records[copy.routing].settled

\* #acknowledge and #ack, called when the handler of a delivery ends.  A
\* settlement of anything but the attempt in flight is stale.
Acknowledge(copy, outcome, base) ==
    LET r == copy.routing
    IN  /\ UNCHANGED <<nextOrder, delivered, accepted, cursors>>
        /\ \/ /\ copy \in delivered /\ ~copy.dropped /\ Open(copy)
              /\ \/ /\ outcome = "ack"
                    /\ records' = [records EXCEPT ![r].settled = TRUE, ![r].state = "ACKED"]
                    /\ reserved' = reserved \ {<<DestinationOf(r), records[r].consumer>>}
                    /\ UNCHANGED dead
                    /\ ScheduleDispatch(base \ Deadlines(r), nextSeq)
                 \/ /\ outcome = "nack"
                    /\ FailAttempt(r, "nack", base \ Deadlines(r))
           \/ /\ ~(copy \in delivered /\ ~copy.dropped /\ Open(copy))
              /\ UNCHANGED <<records, reserved, dead, dispatchPending, nextSeq>>
              /\ agenda' = base

-----------------------------------------------------------------------------
(* The handlers.  e is the event being dispatched.                          *)

Take(e) == agenda \ {e}

\* #boundary, at the end of every dispatch: with nothing left to run the
\* simulation completes, or is deadlocked when a task still waits.
Waiting == {p \in Publications : pubs[p] = "waiting"}

Boundary ==
    status' = IF agenda' # {} \/ draining' THEN status
              ELSE IF Waiting' = {} /\ tasks' = {} THEN "COMPLETED" ELSE "DEADLOCK"

\* service.<id>.background: start the task that publishes e.pub, unless the
\* service is not running.  #publish schedules the admission.
Publish(e) ==
    /\ e.type = "publish"
    /\ IF Ready(Publisher[e.pub])
       THEN /\ pubs' = [pubs EXCEPT ![e.pub] = "waiting"]
            /\ agenda' = Take(e) \cup {AdmissionEvent(now', nextSeq, e.pub)}
            /\ nextSeq' = nextSeq + 1
       ELSE /\ pubs' = [pubs EXCEPT ![e.pub] = "skipped"]
            /\ agenda' = Take(e)
            /\ UNCHANGED nextSeq
    /\ UNCHANGED <<busVars, dispatchPending, draining, lifecycle, generation, tasks>>
    /\ Boundary

\* operations.complete: the outcome resumes the publisher's task inside the
\* handler, unless it was abandoned, and the task makes its next publication.
Resumed(p) == IF pubs[p] = "waiting" THEN Follow[p] ELSE {}

Complete(p, outcome) ==
    pubs' = [q \in Publications |->
                IF q = p /\ pubs[p] = "waiting" THEN outcome
                ELSE IF q \in Resumed(p) THEN "waiting" ELSE pubs[q]]

\* The admission events the resumed task schedules: at most one.
FollowUp(p, n) == {AdmissionEvent(now', n, q) : q \in Resumed(p)}

AfterFollowUp(p, n) == IF Resumed(p) = {} THEN n ELSE n + 1

ActiveCount(d) == Cardinality({r \in Routings :
    DestinationOf(r) = d /\ records[r].state \notin {"ABSENT", "ACKED", "DEAD"}})

\* Faulty variant: fan-out is forgotten.
RecipientsOfQueue(d) == 1

Recipients(d) == IF d \in Topics THEN Len(Subscribers[d]) ELSE 1

\* #admit when the destination is full.
Reject(e) ==
    LET d == Destination[e.pub]
    IN  /\ e.type = "admission"
        /\ ActiveCount(d) + Recipients(d) > Capacity[d]
        /\ Complete(e.pub, "rejected")
        /\ agenda' = Take(e) \cup FollowUp(e.pub, nextSeq)
        /\ nextSeq' = AfterFollowUp(e.pub, nextSeq)
        /\ UNCHANGED <<busVars, dispatchPending, draining, lifecycle, generation, tasks>>
        /\ Boundary

\* The position of a new record among those of its publication.
Position(r) == IF r[2] = NoSubscriber THEN 0
               ELSE (CHOOSE i \in DOMAIN Subscribers[DestinationOf(r)] :
                        Subscribers[DestinationOf(r)][i] = r[2]) - 1

Created(p) == {p} \X (IF Destination[p] \in Topics THEN SubscriberSet(Destination[p])
                      ELSE {NoSubscriber})

\* #admit otherwise: create the records, complete the call, then dispatch.
Admit(e) ==
    LET d == Destination[e.pub]
    IN  /\ e.type = "admission"
        /\ ActiveCount(d) + Recipients(d) <= Capacity[d]
        /\ records' = [r \in Routings |->
                          IF r \in Created(e.pub)
                          THEN Unattempted("QUEUED", nextOrder + Position(r))
                          ELSE records[r]]
        /\ nextOrder' = nextOrder + Recipients(d)
        /\ Complete(e.pub, "published")
        /\ UNCHANGED <<delivered, accepted, reserved, cursors, dead, draining, lifecycle, generation, tasks>>
        /\ ScheduleDispatch(Take(e) \cup FollowUp(e.pub, nextSeq), AfterFollowUp(e.pub, nextSeq))
        /\ Boundary

\* #onDispatch up to the first test of its loop.
OnDispatch(e) ==
    /\ e.type = "dispatch"
    /\ dispatchPending' = FALSE
    /\ agenda' = Take(e)
    /\ draining' = SomeReservable
    /\ UNCHANGED <<busVars, nextSeq, runVars>>
    /\ Boundary

\* Faulty variant: reserves for the consumer of the previous attempt.
ReserveForPrevious(r, c, f) ==
    LET d       == DestinationOf(r)
        attempt == records[r].attempt + 1
        arrival == now + DeliveryDelay[d] + f.extraDelay
    IN  /\ records' = [records EXCEPT ![r].attempt = attempt, ![r].settled = FALSE,
                                      ![r].state = "IN_FLIGHT", ![r].consumer = c]
        /\ reserved' = reserved \cup {<<d, records[r].consumer>>}
        /\ agenda' = agenda
             \cup {TimeoutEvent(arrival + AckTimeout[d], nextSeq, r, attempt)}
             \cup {ArrivalEvent(arrival, nextSeq + 1, [routing |-> r, attempt |-> attempt, index |-> 0,
                                                      consumer |-> c, dropped |-> f.drop])}
        /\ nextSeq' = nextSeq + 2

\* #reserve: a new attempt of r by consumer c under fault decision f.  The
\* deadline is scheduled before the arrivals.
Reserve(r, c, f) ==
    LET d       == DestinationOf(r)
        attempt == records[r].attempt + 1
        copies  == IF f.drop THEN 1 ELSE 1 + f.additionalCopies
        arrival == now + DeliveryDelay[d] + f.extraDelay
        CopyOf(i) == [routing |-> r, attempt |-> attempt, index |-> i,
                      consumer |-> c, dropped |-> f.drop]
    IN  /\ records' = [records EXCEPT ![r].attempt = attempt, ![r].settled = FALSE,
                                      ![r].state = "IN_FLIGHT", ![r].consumer = c]
        /\ reserved' = reserved \cup {<<d, c>>}
        /\ agenda' = agenda
             \cup {TimeoutEvent(arrival + AckTimeout[d], nextSeq, r, attempt)}
             \cup {ArrivalEvent(arrival + i * f.copySpacing, nextSeq + 1 + i, CopyOf(i)) :
                      i \in 0..(copies - 1)}
        /\ nextSeq' = nextSeq + 1 + copies

\* The record #reserveNext serves: the oldest of those that have a consumer.
OldestReservable(r) ==
    CanReserve(r) /\ \A q \in Routings : CanReserve(q) => records[r].order <= records[q].order

\* One iteration of #reserveNext.
ReserveNext ==
    \E r \in Routings :
        /\ OldestReservable(r)
        /\ \E f \in Faults :
             \/ /\ r[2] # NoSubscriber
                /\ Reserve(r, r[2], f)
                /\ UNCHANGED cursors
             \/ /\ r[2] = NoSubscriber
                /\ \E k \in 0..(Len(Subscribers[DestinationOf(r)]) - 1) :
                      /\ SelectQueue(DestinationOf(r), k)
                      /\ Reserve(r, At(DestinationOf(r), k), f)
                      /\ cursors' = [cursors EXCEPT ![DestinationOf(r)] =
                                       (@ + k + 1) % Len(Subscribers[DestinationOf(r)])]
        /\ UNCHANGED <<now, nextOrder, delivered, accepted, dead, dispatchPending, runVars, status>>
        /\ draining' = SomeReservable'

\* #arrive: a copy that was dropped or comes after its attempt was settled is
\* discarded, one that finds its consumer unavailable ends the attempt, any
\* other is handed to the consumer, whose work is a new event.
Arrive(e) ==
    LET copy == e.copy
        r    == copy.routing
    IN  /\ e.type = "arrival"
        /\ UNCHANGED <<nextOrder, cursors, draining, runVars>>
        /\ \/ /\ copy.dropped \/ ~Open(copy)
              /\ agenda' = Take(e)
              /\ UNCHANGED <<records, reserved, dead, delivered, accepted, dispatchPending, nextSeq>>
           \/ /\ ~copy.dropped /\ Open(copy) /\ ~Ready(copy.consumer)
              /\ FailAttempt(r, "unavailable", Take(e) \ Deadlines(r))
              /\ UNCHANGED <<delivered, accepted>>
           \/ /\ ~copy.dropped /\ Open(copy) /\ Ready(copy.consumer)
              /\ delivered' = delivered \cup {copy}
              /\ accepted' = accepted \cup {<<copy, generation[copy.consumer]>>}
              /\ agenda' = Take(e) \cup {ConsumerEvent(now', nextSeq, copy, generation[copy.consumer])}
              /\ nextSeq' = nextSeq + 1
              /\ UNCHANGED <<records, reserved, dead, dispatchPending>>
        /\ Boundary

\* Faulty variant: work is done whatever became of the process it was given to.
OfAnyProcess(e) == TRUE

\* The work was accepted by the process that runs now.
OfThisProcess(e) == e.generation = generation[e.copy.consumer]

\* service.<id>.consumer: run the handler to its end or to its first sleep.
\* Work accepted by an earlier generation of the process is discarded.
Consume(e) ==
    LET copy == e.copy
    IN  /\ e.type = "consumer"
        /\ UNCHANGED <<draining, lifecycle, generation, pubs>>
        /\ \/ /\ ~OfThisProcess(e)
              /\ agenda' = Take(e)
              /\ UNCHANGED <<busVars, dispatchPending, nextSeq, tasks>>
           \/ /\ OfThisProcess(e)
              /\ \E outcome \in {"ack", "nack"} : Acknowledge(copy, outcome, Take(e))
              /\ UNCHANGED tasks
           \/ /\ OfThisProcess(e)
              /\ \E delay \in Sleeps :
                    agenda' = Take(e) \cup {WakeEvent(now' + delay, nextSeq, copy)}
              /\ nextSeq' = nextSeq + 1
              /\ tasks' = tasks \cup {copy}
              /\ UNCHANGED <<busVars, dispatchPending>>
        /\ Boundary

\* kernel.wake: resume the task that slept, if it still exists.
Wake(e) ==
    /\ e.type = "wake"
    /\ UNCHANGED <<draining, lifecycle, generation, pubs>>
    /\ IF e.copy \in tasks
       THEN /\ tasks' = tasks \ {e.copy}
            /\ \E outcome \in {"ack", "nack"} : Acknowledge(e.copy, outcome, Take(e))
       ELSE /\ agenda' = Take(e)
            /\ UNCHANGED <<busVars, dispatchPending, nextSeq, tasks>>
    /\ Boundary

\* #onTimeout
OnTimeout(e) ==
    /\ e.type = "timeout"
    /\ UNCHANGED <<nextOrder, delivered, accepted, cursors, draining, runVars>>
    /\ IF /\ records[e.routing].attempt = e.attempt
          /\ records[e.routing].state = "IN_FLIGHT" /\ ~records[e.routing].settled
       THEN FailAttempt(e.routing, "timeout", Take(e))
       ELSE /\ agenda' = Take(e)
            /\ UNCHANGED <<records, reserved, dead, dispatchPending, nextSeq>>
    /\ Boundary

\* #onRetry
OnRetry(e) ==
    /\ e.type = "retry"
    /\ UNCHANGED <<nextOrder, delivered, accepted, reserved, cursors, dead, draining, runVars>>
    /\ IF records[e.routing].state = "RETRY"
       THEN /\ records' = [records EXCEPT ![e.routing].state = "QUEUED",
                                          ![e.routing].consumer = NoSubscriber,
                                          ![e.routing].settled = FALSE]
            /\ ScheduleDispatch(Take(e), nextSeq)
       ELSE /\ agenda' = Take(e)
            /\ UNCHANGED <<records, dispatchPending, nextSeq>>
    /\ Boundary

\* The suspended tasks of a process and the wakes that abandon cancels.
TasksOf(c) == {copy \in tasks : copy.consumer = c}

WakesOf(c) == {w \in agenda : w.type = "wake" /\ w.copy \in TasksOf(c)}

\* service.<id>.lifecycle and #transition.  A transition the table does not
\* allow fails the run.  Leaving for CRASHED or STOPPED abandons the tasks of
\* the process, with their wakes, and starts a new generation; every
\* transition tells the bus that the consumer changed.
Lifecycle(e) ==
    LET c      == e.component
        before == lifecycle[c]
        ends   == EndsProcess(before, e.next)
    IN  /\ e.type = "lifecycle"
        /\ UNCHANGED <<busVars, draining>>
        /\ \/ /\ e.next = before
              /\ agenda' = Take(e)
              /\ UNCHANGED <<runVars, dispatchPending, nextSeq>>
              /\ Boundary
           \/ /\ e.next # before /\ e.next \notin Allowed[before]
              /\ agenda' = Take(e)
              /\ UNCHANGED <<runVars, dispatchPending, nextSeq>>
              /\ status' = "FAILED"
           \/ /\ e.next \in Allowed[before]
              /\ lifecycle' = [lifecycle EXCEPT ![c] = e.next]
              /\ generation' = IF ends THEN [generation EXCEPT ![c] = @ + 1] ELSE generation
              /\ tasks' = IF ends THEN tasks \ TasksOf(c) ELSE tasks
              /\ pubs' = [p \in Publications |->
                            IF ends /\ pubs[p] = "waiting" /\ Publisher[p] = c
                            THEN "abandoned" ELSE pubs[p]]
              /\ ConsumerChanged(c, IF ends THEN Take(e) \ WakesOf(c) ELSE Take(e))
              /\ Boundary

\* A handler the host registers for a service schedules a transition of it
\* (HandlerContext.schedule): the transition comes after all that is pending
\* at this time, so it may fall between an arrival and its consumer's work.
Control(e) ==
    /\ e.type = "control"
    /\ agenda' = Take(e) \cup {LifecycleEvent(now', nextSeq, e.component, e.next)}
    /\ nextSeq' = nextSeq + 1
    /\ UNCHANGED <<busVars, dispatchPending, draining, runVars>>
    /\ Boundary

-----------------------------------------------------------------------------
ScriptEvent(step, n) ==
    CASE step.type = "publish"   -> PublishEvent(step.time, n, step.pub)
      [] step.type = "lifecycle" -> LifecycleEvent(step.time, n, step.component, step.next)
      [] step.type = "control"   -> ControlEvent(step.time, n, step.component, step.next)

\* The run as #compose leaves it: services STARTING, the scenario's steps
\* scheduled in their order.
Init ==
    /\ \E s \in Scripts :
          /\ agenda = {ScriptEvent(s[i], i - 1) : i \in DOMAIN s}
          /\ nextSeq = Len(s)
    /\ now = 0
    /\ records = [r \in Routings |-> Unattempted("ABSENT", 0)]
    /\ nextOrder = 0
    /\ delivered = {}
    /\ accepted = {}
    /\ reserved = {}
    /\ cursors = [d \in Queues |-> 0]
    /\ dispatchPending = FALSE
    /\ draining = FALSE
    /\ dead = {}
    /\ lifecycle = [c \in Components |-> "STARTING"]
    /\ generation = [c \in Components |-> 0]
    /\ pubs = [p \in Publications |-> "idle"]
    /\ tasks = {}
    /\ status = "RUNNING"

Handle(e) ==
    \/ Publish(e) \/ Reject(e) \/ Admit(e) \/ OnDispatch(e) \/ Arrive(e)
    \/ Consume(e) \/ Wake(e) \/ OnTimeout(e) \/ OnRetry(e) \/ Lifecycle(e)
    \/ Control(e)

\* #dispatch: take the earliest event, advance the clock, run its handler.
Dispatch(e) == /\ ~draining
               /\ IsFirst(e, agenda)
               /\ now' = e.time
               /\ Handle(e)

Next == /\ status = "RUNNING"
        /\ \/ \E e \in agenda : Dispatch(e)
           \/ draining /\ ReserveNext

Spec == Init /\ [][Next]_vars

\* run() dispatches until the agenda is empty.
FairSpec == Spec /\ WF_vars(Next)
-----------------------------------------------------------------------------
(* Properties                                                               *)

PubStatus == {"idle", "waiting", "published", "rejected", "abandoned", "skipped"}

\* Every variable stays in its type: in particular no field of a record, an
\* event or a reservation ever names something that does not exist.
TypeOK ==
    /\ now \in Nat
    /\ nextSeq \in Nat
    /\ agenda \subseteq Event
    /\ records \in [Routings -> Record]
    /\ nextOrder \in Nat
    /\ delivered \subseteq Copy
    /\ accepted \subseteq Copy \X Nat
    /\ reserved \subseteq (Destinations \X Components)
    /\ cursors \in [Queues -> Nat]
    /\ dispatchPending \in BOOLEAN
    /\ draining \in BOOLEAN
    /\ dead \subseteq [routing : Routings, attempts : Nat, reason : {"nack", "timeout", "unavailable"}]
    /\ lifecycle \in [Components -> ServiceState]
    /\ generation \in [Components -> Nat]
    /\ pubs \in [Publications -> PubStatus]
    /\ tasks \subseteq Copy
    /\ status \in {"RUNNING", "COMPLETED", "DEADLOCK", "FAILED"}

\* No lost wake-up: whenever a queued record has a free, ready consumer and
\* the broker is not selecting, a dispatch event is on its way.  This is why
\* #ack, #fail, #onRetry, #admit and #consumerChanged end in
\* #scheduleDispatch, and why #dispatchPending may coalesce their calls.
NoStrandedBacklog ==
    /\ ~draining /\ SomeReservable => dispatchPending
    /\ dispatchPending <=> \E e \in agenda : e.type = "dispatch"
    /\ \A e, f \in agenda : e.type = "dispatch" /\ f.type = "dispatch" => e = f

\* A subscription is reserved exactly while one record of its destination is
\* in flight to its consumer: #unreserve never leaks a reservation and never
\* frees one that another record holds.
ReservationsMatch ==
    /\ \A x \in reserved : \E r \in Routings :
          /\ records[r].state = "IN_FLIGHT"
          /\ x = <<DestinationOf(r), records[r].consumer>>
    /\ \A r \in Routings : records[r].state = "IN_FLIGHT" =>
          <<DestinationOf(r), records[r].consumer>> \in reserved
    /\ \A r, s \in Routings :
          /\ records[r].state = "IN_FLIGHT" /\ records[s].state = "IN_FLIGHT"
          /\ DestinationOf(r) = DestinationOf(s) /\ records[r].consumer = records[s].consumer
          => r = s

\* Timers are exact: an attempt in flight has its deadline pending, a record
\* in RETRY has its retry pending, and no other deadline or retry is left
\* behind, whichever of acknowledgement, NACK, unavailability and timeout
\* settled the attempt.
TimersMatch ==
    /\ \A r \in Routings :
          /\ records[r].state = "IN_FLIGHT" => \E e \in agenda : IsTimeout(e, r, records[r].attempt)
          /\ records[r].state = "RETRY" => \E e \in agenda : e.type = "retry" /\ e.routing = r
    /\ \A e \in agenda :
          /\ e.type = "timeout" => /\ records[e.routing].state = "IN_FLIGHT"
                                   /\ records[e.routing].attempt = e.attempt
          /\ e.type = "retry" => records[e.routing].state = "RETRY"
    /\ \A e, f \in agenda :
          e.type = f.type /\ e.type \in {"timeout", "retry"} /\ e.routing = f.routing => e = f

\* The nonterminal records of a destination never exceed its capacity,
\* fan-out of a topic included (BUS-INV-3).
CapacityRespected == \A d \in Destinations : ActiveCount(d) <= Capacity[d]

\* Attempts are bounded, and a record is dead exactly when the dead letters
\* hold it once, with all its attempts used.
DeadLettersExact ==
    /\ \A r \in Routings : records[r].attempt <= MaxAttempts[DestinationOf(r)]
    /\ \A r \in Routings : records[r].state = "DEAD" <=> \E l \in dead : l.routing = r
    /\ \A l \in dead : l.attempts = MaxAttempts[DestinationOf(l.routing)]
    /\ \A l, m \in dead : l.routing = m.routing => l = m

\* Records of a queue, and those of one subscriber of a topic, are first
\* attempted in publication order, whatever is retried in between.
Rivals(r, s) == /\ DestinationOf(r) = DestinationOf(s) /\ r[2] = s[2]
                /\ records[r].state # "ABSENT" /\ records[s].state # "ABSENT"

PublicationOrder ==
    \A r, s \in Routings :
        Rivals(r, s) /\ records[r].order < records[s].order /\ records[s].attempt > 0
            => records[r].attempt > 0

\* A suspended handler has exactly one wake, and no wake survives the process
\* it was to resume: a crash between a sleep and its wake leaves neither.
TasksMatch ==
    /\ \A copy \in tasks : \E e \in agenda : e.type = "wake" /\ e.copy = copy
    /\ \A e \in agenda : e.type = "wake" => e.copy \in tasks
    /\ \A e, f \in agenda : e.type = "wake" /\ f.type = "wake" /\ e.copy = f.copy => e = f

\* A run that ends has settled every record except those queued for
\* consumers that are not ready, holds no reservation, and has answered every
\* publisher: the bus alone never deadlocks a run.
Quiescent ==
    /\ status # "DEADLOCK"
    /\ status = "COMPLETED" =>
          /\ reserved = {}
          /\ \A p \in Publications : pubs[p] # "waiting"
          /\ \A r \in Routings :
                \/ records[r].state \in {"ABSENT", "ACKED", "DEAD"}
                \/ records[r].state = "QUEUED" /\ Candidates(r) = {}

\* What the broker keeps beside the records agrees with them: reservations,
\* timers, dead letters and the wakes of handlers, on every path that settles,
\* retries or abandons an attempt.
BooksMatch == ReservationsMatch /\ TimersMatch /\ DeadLettersExact /\ TasksMatch

\* A record is acknowledged by the process that accepted it: a copy of the
\* attempt in flight, handed to the consumer that holds the record in the
\* generation it still runs in.  A dropped copy, a copy of an older attempt and
\* the work of a process that died acknowledge nothing (BUS-INV-2), also when
\* the consumer has restarted before the deadline.
AcknowledgedBy(r, copy) ==
    /\ copy.routing = r /\ copy.attempt = records[r].attempt /\ ~copy.dropped
    /\ copy.consumer = records[r].consumer
    /\ <<copy, generation[copy.consumer]>> \in accepted

AckedByItsProcess ==
    \A r \in Routings : records[r].state # "ACKED" /\ records'[r].state = "ACKED" =>
        \E copy \in delivered : AcknowledgedBy(r, copy)

\* What is acknowledged was accepted by the process that acknowledges it, and
\* first attempts keep the order of publication, through drops, duplicates,
\* retries, crashes and restarts.
DeliveredInOrder == [][AckedByItsProcess]_vars /\ []PublicationOrder

\* A topic has room for every subscriber it admits a publication for, and a
\* run comes to rest with everything settled that could be.
BoundedAndSettled == CapacityRespected /\ Quiescent

\* A settled record stays as it is and attempts are never taken back: late
\* arrivals, stale acknowledgements and duplicated copies change nothing.  The
\* consumer settles an attempt strictly before its deadline: at the exact time
\* the deadline, scheduled before the arrivals, goes first.
TerminalIsFinal ==
    [][\A r \in Routings :
          /\ records[r].state \in {"ACKED", "DEAD"} => records'[r] = records[r]
          /\ records'[r].attempt >= records[r].attempt
          /\ records[r].state = "IN_FLIGHT" /\ records'[r].state = "ACKED" =>
                \A e \in agenda : IsTimeout(e, r, records[r].attempt) => now' < e.time]_vars

\* Every run ends: retries are bounded and records that wait for a consumer
\* cost no events.
Terminates == <>(status # "RUNNING")

\* A record that is neither acknowledged nor dead gets there, as long as a
\* consumer is running: the broker never forgets one that waits behind a
\* busy consumer, a retry or a restart.
NeverStarved ==
    \A r \in Routings :
        records[r].state \in {"QUEUED", "IN_FLIGHT", "RETRY"} ~>
            \/ records[r].state \in {"ACKED", "DEAD"}
            \/ status = "FAILED"
            \/ \A c \in SubscriberSet(DestinationOf(r)) : r[2] \in {c, NoSubscriber} => ~Ready(c)

\* The bus makes progress: runs end and records reach an outcome.
Progress == Terminates /\ NeverStarved
=============================================================================
