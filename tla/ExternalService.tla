--------------------------- MODULE ExternalService ---------------------------
(***************************************************************************)
(* A scenario-controlled provider,                                         *)
(* packages/kernel/src/external-service-runtime.ts, between a caller that  *)
(* retries with a new request when its deadline passes and a scenario that *)
(* changes the provider's availability and behaviour.  One step dispatches *)
(* the earliest pending event to the end of its handler.                   *)
(*                                                                         *)
(* The provider's private state is the sequence of requests it applied.    *)
(* Bodies, parameters, observations and the texts of errors are left out.  *)
(* A leg of the network takes a delay of Legs or is lost.  MaxTime stands  *)
(* for the greatest safe integer.                                          *)
(***************************************************************************)
EXTENDS Integers, Sequences, FiniteSets, KernelOps

CONSTANTS
    Requests,      \* requests of the caller, numbers
    Retry,         \* [Requests -> SUBSET Requests]: what it sends after a timeout
    Operation,     \* [Requests -> operations, known to the provider or not]
    Operations,    \* those it knows
    Callbacks,     \* what apply may return: sequences of delays
    Legs, Timeout, \* of the network, for the caller and for callbacks
    Scripts,       \* sequences of steps of the scenario
    MaxTime

\* Steps of a scenario.  A misuse is a controller kept after its dispatch, or
\* given an operation, behaviour or state the provider does not know.  A relay
\* schedules the next step itself, with a delay.
Step(t, does, with) == [time |-> t, does |-> does, with |-> with]

VARIABLES
    now, seq, agenda,   \* events [time, seq, type, id]: of a request, or of a step of script
    script, status,
    availability, behaviors,
    admissions,    \* captured when a request is accepted, until it is applied
    applied,       \* the provider's state: the requests applied, in order
    counts,        \* the counters of boundary()
    answered,      \* what the provider replied to each request
    outcome        \* what the caller knows of each request

vars == <<now, seq, agenda, script, status, availability, behaviors, admissions, applied, counts, answered, outcome>>

Event(delay, type, id) == [delay |-> delay, type |-> type, id |-> id]

\* e is dispatched: the events in gone are cancelled, those of list scheduled.
Dispatched(e, gone, list) ==
    /\ now' = e.time
    /\ agenda' = (agenda \ (gone \cup {e}))
         \cup {[time |-> e.time + list[i].delay, seq |-> seq + i, type |-> list[i].type, id |-> list[i].id] :
                   i \in DOMAIN list}
    /\ seq' = seq + Len(list)
    /\ UNCHANGED script

\* The events of a leg that takes some delay or is lost.
Leg(type, id) == {<<>>} \cup {<<Event(d, type, id)>> : d \in Legs}

Refusal(r) == CASE availability \in {"UNAVAILABLE", "RATE_LIMITED"} -> availability
                [] availability \notin {"UNAVAILABLE", "RATE_LIMITED"} /\ Operation[r] \notin Operations -> "ENDPOINT_NOT_FOUND"
                [] OTHER -> "none"

\* Faulty variant: the latency follows the availability of the moment.
DelayNow(a) == a.behavior.latency + (IF availability = "DEGRADED" THEN a.behavior.degradedExtraLatency ELSE 0)

\* #delay, of what was captured.
Delay(a) == a.behavior.latency + (IF a.availability = "DEGRADED" THEN a.behavior.degradedExtraLatency ELSE 0)

Fail(e) == /\ Dispatched(e, {}, <<>>)
           /\ status' = "FAILED"
           /\ UNCHANGED <<availability, behaviors, admissions, applied, counts, answered, outcome>>

\* The caller sends r: its deadline first, then the request's leg.
Send(e, r) == \E leg \in Leg("delivery", r) : Dispatched(e, {}, <<Event(Timeout, "deadline", r)>> \o leg)

AskFirst(e) == /\ script[e.id].does = "ask"
               /\ Send(e, script[e.id].with)
               /\ outcome' = [outcome EXCEPT ![script[e.id].with] = "waiting"]
               /\ UNCHANGED <<status, availability, behaviors, admissions, applied, counts, answered>>

SetAvailability(e) ==
    /\ script[e.id].does = "availability"
    /\ Dispatched(e, {}, <<>>)
    /\ availability' = script[e.id].with
    /\ UNCHANGED <<status, behaviors, admissions, applied, counts, answered, outcome>>

ConfigureBehavior(e) ==
    /\ script[e.id].does = "configure"
    /\ Dispatched(e, {}, <<>>)
    /\ behaviors' = [behaviors EXCEPT ![script[e.id].with.operation] = script[e.id].with.behavior]
    /\ UNCHANGED <<status, availability, admissions, applied, counts, answered, outcome>>

Relay(e) == /\ script[e.id].does = "relay"
            /\ Dispatched(e, {}, <<Event(script[e.id].with, "step", e.id + 1)>>)
            /\ UNCHANGED <<status, availability, behaviors, admissions, applied, counts, answered, outcome>>

Misuse(e) == script[e.id].does = "misuse" /\ Fail(e)

\* #reject: answered at once, nothing is kept.
Reject(e) == /\ Refusal(e.id) # "none"
             /\ counts' = [counts EXCEPT !.rejected = @ + 1]
             /\ answered' = [answered EXCEPT ![e.id] = Refusal(e.id)]
             /\ \E leg \in Leg("response", e.id) : Dispatched(e, {}, leg)
             /\ UNCHANGED <<status, availability, behaviors, admissions, applied, outcome>>

\* #accept: the terms are captured, the arrival is an event of its own.
Admit(e) == /\ Refusal(e.id) = "none"
            /\ admissions' = [r \in DOMAIN admissions \cup {e.id} |->
                  IF r = e.id THEN [behavior |-> behaviors[Operation[r]], availability |-> availability]
                  ELSE admissions[r]]
            /\ Dispatched(e, {}, <<Event(0, "arrival", e.id)>>)
            /\ UNCHANGED <<status, availability, behaviors, applied, counts, answered, outcome>>

Arrival(e) == LET delay == Delay(admissions[e.id]) IN
    \/ e.time + delay > MaxTime /\ Fail(e)
    \/ /\ e.time + delay <= MaxTime
       /\ counts' = [counts EXCEPT !.admitted = @ + 1]
       /\ Dispatched(e, {}, <<Event(delay, "complete", e.id)>>)
       /\ UNCHANGED <<status, availability, behaviors, admissions, applied, answered, outcome>>

Drops(r) == admissions[r].behavior.dropResponse

\* Faulty variant: the admission is kept.
ReleasedNone(r) == admissions

Released(r) == [q \in DOMAIN admissions \ {r} |-> admissions[q]]

\* #complete: the effect, then its callbacks, then the reply unless dropped.
Complete(e) ==
    \/ Fail(e)    \* apply returned no decision
    \/ \E delays \in Callbacks :
         LET events == [i \in DOMAIN delays |-> Event(delays[i], "callback", e.id)] IN
         /\ applied' = Append(applied, e.id)
         /\ admissions' = Released(e.id)
         /\ counts' = [counts EXCEPT !.effect = @ + 1, !.callbacks = @ + Len(delays),
                                     !.suppressed = @ + IF Drops(e.id) THEN 1 ELSE 0]
         /\ \E leg \in IF Drops(e.id) THEN {<<>>} ELSE Leg("response", e.id) : Dispatched(e, {}, events \o leg)
         /\ answered' = IF Drops(e.id) THEN answered ELSE [answered EXCEPT ![e.id] = "ok"]
         /\ UNCHANGED <<status, availability, behaviors, outcome>>

\* #callback: its task waits for a reply or for the network's timeout.
Callback(e) ==
    /\ \E back \in {Event(Timeout, "callbackTimeout", e.id)}
                     \cup {Event(d, "callbackReply", e.id) : d \in {l \in Legs : l < Timeout}} :
          Dispatched(e, {}, <<back>>)
    /\ UNCHANGED <<status, availability, behaviors, admissions, applied, counts, answered, outcome>>

FinishCallback(e) ==
    /\ Dispatched(e, {}, <<>>)
    /\ counts' = [counts EXCEPT !.callbackTimeouts = @ + IF e.type = "callbackTimeout" THEN 1 ELSE 0,
                                !.finished = @ + 1]
    /\ UNCHANGED <<status, availability, behaviors, admissions, applied, answered, outcome>>

\* The network gives the caller the first of response and deadline.
Response(e) ==
    /\ Dispatched(e, {d \in agenda : d.type = "deadline" /\ d.id = e.id}, <<>>)
    /\ outcome' = [outcome EXCEPT ![e.id] = IF @ = "waiting" THEN answered[e.id] ELSE @]
    /\ UNCHANGED <<status, availability, behaviors, admissions, applied, counts, answered>>

Deadline(e) ==
    /\ \/ Retry[e.id] = {} /\ Dispatched(e, {}, <<>>)
       \/ \E r \in Retry[e.id] : Send(e, r)
    /\ outcome' = [r \in Requests |-> IF r = e.id THEN "timeout"
                                      ELSE IF r \in Retry[e.id] THEN "waiting" ELSE outcome[r]]
    /\ UNCHANGED <<status, availability, behaviors, admissions, applied, counts, answered>>

Init == /\ now = 0
        /\ script \in Scripts
        /\ agenda = {[time |-> script[i].time, seq |-> i, type |-> "step", id |-> i] :
                         i \in {j \in DOMAIN script : j = 1 \/ script[j - 1].does # "relay"}}
        /\ seq = Len(script)
        /\ status = "RUNNING"
        /\ availability = "AVAILABLE"
        /\ behaviors = [o \in Operations |-> [latency |-> 0, degradedExtraLatency |-> 0, dropResponse |-> FALSE]]
        /\ admissions = <<>>
        /\ applied = <<>>
        /\ counts = [effect |-> 0, admitted |-> 0, rejected |-> 0, suppressed |-> 0,
                     callbacks |-> 0, callbackTimeouts |-> 0, finished |-> 0]
        /\ answered = [r \in Requests |-> "none"]
        /\ outcome = [r \in Requests |-> "idle"]

Handle(e) == \/ e.type = "step" /\ (AskFirst(e) \/ SetAvailability(e) \/ ConfigureBehavior(e) \/ Relay(e) \/ Misuse(e))
             \/ e.type = "delivery" /\ (Reject(e) \/ Admit(e))
             \/ e.type = "arrival" /\ Arrival(e)
             \/ e.type = "complete" /\ Complete(e)
             \/ e.type = "callback" /\ Callback(e)
             \/ e.type \in {"callbackReply", "callbackTimeout"} /\ FinishCallback(e)
             \/ e.type = "response" /\ Response(e)
             \/ e.type = "deadline" /\ Deadline(e)

Next == /\ status = "RUNNING"
        /\ \E e \in agenda : IsFirst(e, agenda) /\ Handle(e)

Spec == Init /\ [][Next]_vars

-----------------------------------------------------------------------------

Pending(type) == {e \in agenda : e.type = type}

\* The counters a test or an assessment reads agree with the work in hand: what
\* is captured is on its way to be applied, each effect was replied to or its
\* response suppressed, each callback is to come, waiting or over
\* (external-service-runtime.ts:330-343, 443-480).
BooksMatch ==
    /\ status = "RUNNING" =>
         /\ DOMAIN admissions = {e.id : e \in Pending("arrival") \cup Pending("complete")}
         /\ counts.admitted = counts.effect + Cardinality(Pending("complete"))
    /\ counts.effect = Len(applied)
    /\ counts.effect = counts.suppressed + Cardinality({r \in Requests : answered[r] = "ok"})
    /\ counts.rejected = Cardinality({r \in Requests : answered[r] \notin {"none", "ok"}})
    /\ counts.callbacks = counts.finished + Cardinality(UNION {Pending(t) : t \in {"callback", "callbackReply", "callbackTimeout"}})

Terms(r) == [refusal |-> Refusal(r),
             delay |-> IF Refusal(r) # "none" THEN 0
                       ELSE Delay([behavior |-> behaviors[Operation[r]], availability |-> availability]),
             drop |-> Refusal(r) = "none" /\ behaviors[Operation[r]].dropResponse]

DueOf(r) == IF \E e \in Pending("complete") : e.id = r
            THEN (CHOOSE e \in Pending("complete") : e.id = r).time
            ELSE (CHOOSE e \in Pending("arrival") : e.id = r).time + Delay(admissions[r])

\* What the provider still has to do.  A run that failed does nothing more.
Promised == IF status = "FAILED" THEN <<>>
            ELSE [r \in DOMAIN admissions |-> [due |-> DueOf(r), drop |-> Drops(r)]]

Kept == INSTANCE Provider WITH going <- status = "RUNNING", offer <- [r \in Requests |-> Terms(r)],
                               promised <- Promised, answer <- answered

\* The provider keeps the terms of the instant of acceptance: availability and
\* behaviour may change before the arrival, the effect and the response
\* (external-service-runtime.ts:382-402, 443-480).
ImplementsProvider == Kept!Spec
=============================================================================
