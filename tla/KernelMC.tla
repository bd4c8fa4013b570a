------------------------------- MODULE KernelMC -------------------------------
(***************************************************************************)
(* Parts of the kernel that share nothing but the clock, each by itself,   *)
(* the others as they begin: a store; an external service; the fault       *)
(* engine; the history; and what model code keeps of a simulation.         *)
(***************************************************************************)
EXTENDS KeyValueStore, TLC

CONSTANTS
    lease, text, None,
    Requests, Retry, OperationOf, Operations, Callbacks, Legs, Timeout, Scripts, Horizon,    \* of the external service
    Rules, Points, Names, Subjects, Scheduled, Span, MaxResets, MaxProbes,                 \* of the fault engine
    Bursts, Kinds, Limit, Events, MaxListeners,                                            \* of the history
    Services, Clients, MaxRun, MaxProcess, MaxScenario, MaxHeld, MaxKept                   \* of what is kept

\* None is no code of an error, nor a handler on the stack.
ASSUME KeepsakesAssumption ==
    /\ MaxScenario \in Nat
    /\ None \notin {"STALE_CAPABILITY", "INVALID_OPERATION", "INVALID_CLIENT_ACTION", "INVALID_EVENT_TYPE",
                   "HANDLER_FAILED", "INVALID_SERVICE_TRANSITION"}
    /\ \A o \in Services \cup Clients, n \in 0..MaxScenario : None # [owner |-> o, scenario |-> n]

VARIABLES
    part,
    serviceTime, seq, queue, script, serviceStatus, availability, behaviors, admissions, applied, counts, answered, outcome,
    faultTime, engine, candidates, applications, probes, faulted, log,
    left, status, records, sealed, rejected, pending, batch, next, delivering, listeners, told,
    run, failure, stack, lifecycle, process, scenarios, violated, kept, held, misused, last

serviceVars == <<serviceTime, seq, queue, script, serviceStatus, availability, behaviors, admissions, applied, counts, answered, outcome>>
faultVars == <<faultTime, engine, candidates, applications, probes, faulted, log>>
historyVars == <<left, status, records, sealed, rejected, pending, batch, next, delivering, listeners, told>>
capabilityVars == <<run, failure, stack, lifecycle, process, scenarios, violated, kept, held, misused, last>>

-----------------------------------------------------------------------------
\* The caller's requests are each sent once, by a step of the scenario or as the
\* retry of one other; a relay has a step to relay.
ASSUME ProviderAssumption ==
    /\ IsFiniteSet(Requests)
    /\ Retry \in [Requests -> SUBSET Requests]
    /\ \A q, r \in Requests : q # r => Retry[q] \cap Retry[r] = {}
    /\ Legs \subseteq Nat /\ Timeout \in Nat /\ Callbacks \subseteq Seq(Nat)
    /\ \A s \in Scripts :
          /\ Len(s) \in Nat /\ DOMAIN s = 1..Len(s)
          /\ \A i \in DOMAIN s :
                /\ s[i].time \in Nat
                /\ s[i].does = "ask" => s[i].with \in Requests /\ \A q \in Requests : s[i].with \notin Retry[q]
                /\ s[i].does = "relay" => i < Len(s) /\ s[i].with \in Nat
                /\ s[i].does = "configure" =>
                      s[i].with.behavior \in [latency : Nat, degradedExtraLatency : Nat, dropResponse : BOOLEAN]
                /\ \A j \in DOMAIN s : s[i].does = "ask" /\ s[j].does = "ask" /\ s[i].with = s[j].with => i = j

\* A history has room for the record of its creation (history.ts:37), and
\* handlers append observations.
ASSUME HistoryAssumption ==
    /\ Limit \in Nat \ {0}
    /\ Bursts \subseteq Seq([type : STRING, source : STRING, target : STRING, entities : Seq(STRING)])

External == INSTANCE ExternalService WITH
    Operation <- OperationOf, MaxTime <- Horizon, now <- serviceTime, agenda <- queue, status <- serviceStatus

Faults == INSTANCE FaultEngine WITH
    Faults <- Scheduled, MaxTime <- Span, now <- faultTime, generation <- engine, applied <- faulted

Recorder == INSTANCE History

Keepsakes == INSTANCE Capabilities WITH MaxGeneration <- MaxProcess, state <- lifecycle, generation <- process

-----------------------------------------------------------------------------
(* The small instance                                                       *)

\* One key, as keys share nothing but the clock: a lease that is there from the
\* start, for two instants.
LeaseAtStart == [k \in Keys |-> {[value |-> 0, ttl |-> {2}]}]

\* A caller that asks twice, the first time with one retry, while the scenario
\* changes the terms before, at and after the arrivals; the relayed change may
\* come between an acceptance and its arrival.
Does(t, does, with) == [time |-> t, does |-> does, with |-> with]
Slow == [latency |-> 2, degradedExtraLatency |-> 0, dropResponse |-> TRUE]
Steady == [latency |-> 1, degradedExtraLatency |-> 2, dropResponse |-> FALSE]
Configured(t, o, b) == Does(t, "configure", [operation |-> o, behavior |-> b])
Misused == <<Does(0, "ask", 1), Configured(0, "charge", [Steady EXCEPT !.latency = 9]), Does(2, "misuse", 0)>>
ProviderScripts ==
    {<<Does(0, "ask", 1), Configured(0, "charge", Steady), Does(t, "relay", 1), Does(t + 1, "availability", s),
       Configured(2 - t, "charge", Slow), Does(2, "ask", 3), Does(3, "availability", "AVAILABLE"), Does(3, "ask", 4)>> :
        t \in 0..1, s \in {"DEGRADED", "RATE_LIMITED"}}
    \cup {Misused}
RetryOnce == <<{2}, {}, {}, {}>>
FourOperations == <<"charge", "charge", "refund", "unknown">>
NoneOrTwo == {<<>>, <<1, 0>>}

\* Three rules at one point, by occurrence, without end and by chance, and two
\* at another, where the first occurrence may escape, in windows that overlap.
Rule(point, name, from, until, occurrence, max, chance, effect) ==
    [point |-> point, name |-> name, from |-> from, until |-> until, occurrence |-> occurrence,
     max |-> max, chance |-> chance, effect |-> effect]
FiveRules == <<Rule("delivery", "orders", 0, 2, 2, 1, "always", "drop"),
               Rule("delivery", "any", 1, 9, 0, 1, "always", "duplicate"),
               Rule("delivery", "any", 0, 9, 0, 2, "draw", "delay"),
               Rule("commit", "any", 0, 9, 1, 1, "draw", "fail"),
               Rule("commit", "any", 0, 9, 0, 1, "never", "fail")>>

\* Handlers that append nothing, or two observations, one of them about two
\* components and an entity, in a history that ends within the second event.
Observed(type, target, entities) == [type |-> type, source |-> "shop", target |-> target, entities |-> entities]
FewBursts == {<<>>, <<Observed("sent", "bank", <<"order">>), Observed("log", "none", <<>>)>>}

-----------------------------------------------------------------------------
KernelInit ==
    /\ part \in {"store", "external", "faults", "history", "capabilities"}
    /\ Init /\ External!Init /\ Faults!Init /\ Recorder!Init /\ Keepsakes!Init
    /\ part # "external" => script = CHOOSE s \in Scripts : TRUE

Still(p, others) == part = p \/ UNCHANGED others
Others == /\ UNCHANGED part
          /\ Still("store", vars) /\ Still("external", serviceVars) /\ Still("faults", faultVars)
          /\ Still("history", historyVars) /\ Still("capabilities", capabilityVars)

KernelNext ==
    \/ part = "store" /\ Next /\ Others
    \/ part = "external" /\ External!Next /\ Others
    \/ part = "faults" /\ Faults!Next /\ Others
    \/ part = "history" /\ Recorder!Next /\ Others
    \/ part = "capabilities" /\ Keepsakes!Next /\ Others

KernelSpec == KernelInit /\ [][KernelNext]_<<part, vars, serviceVars, faultVars, historyVars, capabilityVars>>

-----------------------------------------------------------------------------
(* Properties, beside ExpiriesExact and ImplementsTtlMap of the store; each *)
(* is stated and commented in the module of its part.                       *)

\* The counters of an external service agree with its work in hand.
ProviderBooksMatch == part = "external" => External!BooksMatch

\* An external service keeps the terms of the instant of acceptance.
ImplementsProvider == External!ImplementsProvider

\* Every fault decision is what the probes and draws so far call for.
DecisionsFollowProbes == part = "faults" => Faults!DecisionsFollowProbes

\* Listeners are told the history in order; it is sealed when a run fails, and
\* its indexes answer as a reading of it would.
HistoryIsTold == part = "history" => Recorder!ToldInOrder /\ Recorder!SealedHonestly /\ Recorder!QueryIsLinear

\* What is kept serves no run, process or component that is not at work.
Fenced == part = "capabilities" => Keepsakes!Fenced

\* What observability.md promises of listeners, and a control from one breaks.
ListenersHarmless == Recorder!ListenersHarmless
=============================================================================
