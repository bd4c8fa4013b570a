# A verification project for DistLab

DistLab is a deterministic, event-driven simulator of distributed systems that
runs in a web page. A *kernel* (`packages/kernel`) dispatches the events of a run
one by one in virtual time; on it live a message bus, a network, databases and
key-value stores, the services and clients that use them, and faults that disturb
them. A *scenario engine* (`packages/scenario`) builds a run from a document, a
*catalog* (`packages/catalogs`) supplies the services of the lessons, and a *web
application* (`apps/web`) runs everything in a worker and shows what it records.

This directory holds TLA+ modules translated from that code, the configurations
that check them with TLC, and theorems about them that TLAPS proves. Every
definition that stands for code is listed in `PROJECT.json` under `map`, with the
lines it was translated from; `hazards` lists what in this code is hard to test,
and the properties that would notice it going wrong.

Contents: [inventory](#1-inventory), [modules](#2-modules-and-the-code),
[runs](#3-runs), [bounds](#4-bounds), [fairness](#5-fairness),
[proofs](#6-proofs), [findings](#7-findings), [what is not
modelled](#8-what-is-not-modelled), [plan](#9-plan).

## 1. Inventory

### How a run works

`Simulation` (`kernel/src/simulation.ts`) owns the agenda (`DeterministicScheduler`),
the clock, the history and the *tasks*: controlled promises of handler code. A
dispatch takes the earliest event (by due time, then by insertion), advances the
clock to its time and runs its handler to the end. A handler may schedule
events, and may resume a task by completing the operation it waits for: the task
runs inside that handler until it waits again. Nothing runs in parallel, so what
must be right is the *order* of events: two that are due at one time run in the
order in which they were scheduled, and everything that can come between two
events of one conversation will, in some scenario. When the agenda is empty the
run is complete, or deadlocked if a task is still waiting.

A service is a process: it is started, paused, crashed, stopped and restarted by
events of the run. Each crash or stop abandons its tasks and starts a new
*generation*, so that work accepted by the previous one is discarded.

### Components

| Component | State | Operations | Hard behaviours | Correct when |
|---|---|---|---|---|
| Event scheduler | heap, index, counter, era | schedule, cancel, take, export, restore, reset | removal from the middle; handles of earlier eras | events come in order, a handle cancels its own event and no other |
| Message bus | routing records, copies, reservations, cursors, dead letters | publish, admit, dispatch, reserve, arrive, ack/nack, timeout, retry, consumer change | lost, duplicated, late copies; deadline against ack; crash of consumer or publisher; full destination | no record is lost, stranded, settled twice or delivered beyond its budget |
| Virtual network | flights | request, deliver, reply, receive, deadline | lost and late legs, retry after a timeout, crash of either side | one outcome for each call, before or at its deadline, answered once |
| Database | committed rows, revision, open and pending transactions | begin, read, write, scan, commit, roll back, abandon | overlapping snapshots, deferred commit, crash between commit and its event | serial: commits are atomic over the rows they started from |
| Key-value store | entries, generations, expiry events | get, set, delete, increment, compareAndSet, expire | operations at the instant of an expiry, on either side of its event | a map whose entries vanish exactly when they expire |
| Service runtime | lifecycle, generation, tasks, open operations | transition, endpoint, consumer and background work, finish | stale work of an old generation; tasks left with resources | no work outlives its process |
| Client runtime | state, calls, callbacks | action, callback, activation | callbacks to an inactive client | as the services |
| External services | availability, replies, applied operations | request, admit, effect, respond, callback | answer lost after the effect; a retry applies it again | what was accepted is carried out once, on the terms of that instant |
| Fault engine | occurrence and application counts | decide, reset | limits, stale decision ports | counts those decisions of this run that match |
| Simulation core | status, tasks, operations, guard | run, step, pause, reset, dispatch, sleep, complete, abandon | controls during a run, failure in a handler | ends or can be continued; never stuck |
| History | records, limit, listeners | record, seal, notify, subscribe | listeners that call back | append-only, ordered, sealed once |
| Scenario engine | assertions, schedule, session | compose, evaluate at boundaries, finalise | order of evaluation, failed runs | each verdict is given once |
| Documents, overlays | none (pure); the parser's stack | parse, validate in stages, compose, apply an overlay | several mistakes at once; edits that undo each other; constructors that refuse what validation let through | an accepted document composes, a refused one is told why, an overlay means what it says |
| Commerce catalog | orders, outbox, breaker, stock, cache | saga, outbox, breaker, reservation, cache, retry | timeouts that say nothing, crash between two effects, late outcomes | what each pattern promises |
| Checkout catalog | orders, payments, stock | one publication, call or commit per handler | those of bus, network and database | as the lessons |
| Worker host and adapter | requests, snapshot; session, active run | load, run, pause, step, reset, dispose | commands during a run, failure without history, a worker that dies | every request is answered, the page shows the simulation |
| Drafts of faults and designs | entries, choices, form, applied overlay | compose, edit, apply, discard, load, compare | identifiers across reloads; a form open while its entry goes | the draft describes what will run |
| Timeline and review | query, draft of it, view, selection, cue | filter, select, move, reveal, narrow, publish | a history that grows and is replaced under the reader | what is held on to is shown |
| Architecture playback | cursor, phase | play, pause, step, follow | records lost, late or hidden | the graph paints what was recorded |
| Identity, randomness, canonical data; contracts; build | none of their own | pure functions and types | none | see section 8 |

They interact in three ways. *Events*: bus, network, database and store schedule
into the one agenda, and their order there decides every race. *Callbacks*: a
part completes an operation and the waiting task runs on inside its handler, so
state is read and written by others in the middle of it (`#admit` completes the
publisher's call before it schedules the dispatch); the service runtime tells bus,
database and store of a process that ended. *Messages*: only page and worker run
concurrently, joined by the two queues of `postMessage`.

## 2. Modules and the code

```
KernelOps  order of events, lifecycle table
  |-- MessageBus      <- MessageBusMC                              MessageBus_proofs
  |-- VirtualNetwork  <- VirtualNetworkMC  implements RemoteCall   VirtualNetwork_proofs
  |-- Scheduler                            implements Agenda       Scheduler_proofs
  `-- ExternalService                      implements Provider
Database              <- DatabaseMC        implements SerialStore  Database_proofs
WorkerSession         host, queues, adapter and simulation         WorkerSession_proofs

KernelMC     KeyValueStore (implements TtlMap), ExternalService, FaultEngine,
             History, Capabilities                                 Kernel_proofs
LessonsMC    CircuitBreaker, Reservations, PriceCache, PaymentRetry, Outbox,
             Saga, Assessment                                      Lessons_proofs
DocumentsMC  DocumentPolicy over DocumentEnvelope, DocumentText
PageMC       ScenarioDocument, Overlay, StudentDraft,
             ReviewNavigation, Playback                            PageMC_proofs
```

The last four hold parts that share no state. Such a module has a variable (`part`,
`lesson`) that says which of them is at work; the others stay as they begin, and
their free initial choices are fixed, so that the states are the sum of those of
the parts and not their product. Each part is checked as if alone.

The models of the kernel share one form. A step is a dispatch of the earliest
event of `agenda`, and does what its handler does to the end: tasks that it
resumes, events it schedules with their sequence numbers, and the boundary check
that ends the run. What scenarios, fault decisions, random draws and user code may
do is chosen by `\E`. Definitions that no other uses and whose comment speaks of a
*faulty variant* or a *mutant* are not part of a specification: they are plausible
mistakes, used to see that a property notices them (`mutants` in `PROJECT.json`).

### Kernel

**MessageBus** (`message-bus.ts`; the consumer side of `service-runtime.ts`; the
dispatch, sleep and abandonment of `simulation.ts`). `records`, `reserved`,
`cursors`, `dead`, `dispatchPending` are the fields of the same names; a record is
named by its publication and its subscriber. An action per handler: `Publish`,
`Reject`/`Admit`, `OnDispatch`, `Arrive`, `Consume`, `Wake`, `OnTimeout`,
`OnRetry`, `Lifecycle`, `Control`. `accepted` keeps, beside the code's state, the
generation of the process to which each copy was given: an acknowledgement is to be
work of that one. The `while` of `#onDispatch` is cut into its
iterations (`ReserveNext`, while `draining`), since each asks for a fault
decision; no other event runs in between. `ScheduleDispatch` and `FailAttempt` are
the private methods that several handlers end in. `Complete` and `FollowUp` are
the publisher resumed inside `#admit`, who may publish again there.

**VirtualNetwork** (`network.ts`; endpoints and client actions). A call is a
request with its flight. `Request`, `Reply` and `Complete` are the parts handlers
share; `Complete` resumes the caller, who retries, answers the request it serves
or ends, all inside the handler. `RemoteCall` is what a caller may rely on: one
outcome, the answer given by the target or none.

**Scheduler** (`scheduler.ts`). The binary heap and its index as in the code,
with `#up`, `#down` and `#remove`; `Agenda` is a set of events with handles.

**KeyValueStore** (`key-value-store.ts`). Entries, generations and pending
expiries; operations at every instant before or after the expiry events due then.
`TtlMap` has no events: an entry is there until its time.

**Database** (`database.ts`; `#finish` and `#transition` of the service runtime).
`open` and `pending` transactions carry snapshot, writes and base revision;
`Dispatch` is the commit event with its three refusals. `Crash` stands for a crash
or a stop with the restart after it. Interleavings of tasks are finer than the
code's, where only a task that waits lets another run. In `SerialStore` a
transaction has no revision: it commits over the very rows it started from.

**ExternalService** (`external-service-runtime.ts`, and the legs and the deadline
of its caller). A request is accepted, its arrival and its completion are events,
and the scenario changes availability and behaviour between them, from a controller
that may be misused. `admissions` is what `#admissions` captures. **Provider** has
neither events nor availability: it promises on the terms of one instant, and
carries out each promise once, when it is due.

**FaultEngine** (`fault-engine.ts`). Every evaluation of a probe with the draws of
the rules that leave it to chance, scheduled faults, resets and ports of an
earlier attempt. `log` keeps the evaluations, over which the property counts.

**History** (`history.ts`, with `step`, `#dispatch`, `#record` and `#terminal` of
`simulation.ts`). A step appends the observations of an event, up to the limit,
and then tells the listeners one at a time: one may leave (or throw, which is the
same), subscribe another, dismiss its neighbour or step the simulation. `Turn` is an
event of `run`, which tells nobody before its end (`EndRun`, or a last `Step`); who
reads the history may subscribe and leave while it yields.

**Capabilities** (`simulation.ts`, `service-runtime.ts`, `client-runtime.ts`). What
model code keeps (a context, a controller, a handle) and calls later: `Check`,
`ServiceFence`, `ClientFence` and `ControllerFence` are the guards in their order,
`Refuse` what `#guard` and `#terminal` leave. What a port does is elsewhere. Work a
service has accepted is handled while it is paused too: every other change of its
state begins a new generation. That a misuse ends the run is asked of what was given
in this run; what is left of an earlier one is told so and serves nobody, and what it
does to this run is a [finding](#7-findings).

### Lessons

Each is the handler code of one file of `catalogs/src/commerce`, cut where it
waits; what it waits for is what the abstract specifications of the kernel allow:
a call may be done and not answered, a commit is accepted, refused or overtaken, a
message comes any number of times, a process crashes.

**CircuitBreaker** (`circuit.ts`): admission, outcomes and the cooldown.
**Reservations** (`inventory.ts`): read, commit and retry, with and without
`optimistic`. **PriceCache** (`cache.ts`): cached prices, change and invalidation,
cart and checkout. A commit is decided in an event of the instant at which it was
submitted (`Committing`), so changes and orders may share one. **PaymentRetry** (`retry.ts`, the client of `common.ts`): the
retries of a client and the idempotency key. **Outbox** (`outbox.ts`): payment,
relay and consumer. **Saga** (`saga.ts`): the calls of one checkout and their
compensation.

**Assessment** (`scenario/src/assessment.ts`, `engine.ts`) is what judges a lesson's run:
assertions with their markers, in a run of any events. It keeps all boundaries, from
which the verdicts are recomputed. A run fails in a handler, whose event is not
evaluated (`Fail`), in a predicate, or at its end with a task suspended, after the
evaluation of its last event (`AfterEvent`).

### Documents

**DocumentText** is the loop of the parser over its stack, one token a step; the
reference it is compared with is a recursive reading of the JSON grammar.
**DocumentEnvelope** and **DocumentPolicy** are the stages of
`document.ts` over tagged JSON values; `DocumentsMC` lists what an author may
write wrong, with what each mistake should report and which reports it hides.
**ScenarioDocument** has two sides: the checks of `validate.ts` and
`composition.ts`, and every condition under which a constructor of the kernel or
`engine.ts` refuses what it is given. Checks are names that a model has or has not,
and are looked up by the validator only for tables with rows
(`docs/modules/scenario.md:156`); the property exempts those of the others.
**Overlay** reads, normalizes and applies what
a student submits (`overlay.ts`, `architecture-edits.ts`). **StudentDraft** is the
draft in the page (`break-faults.ts`, `design-choices.ts`, `BreakPanel.tsx`,
`App.tsx`): a form that is filled in and added (`Fill`), an entry edited, updated or
removed, choices, and the loads that rewrite all of it (`Apply`, `Load`, `Compare`).

### Page and worker

**WorkerSession** (`host.ts`, `protocol.ts`, `adapter.ts`, and the controls of
`simulation.ts`). One action per method of the host (`CallLoad`, `CallControl`,
`Dispose`), per message (`Deliver`, `Receive`), per slice of a run between two
yields (`Resume`), per sample of a running simulation (`Sample`), and `Break`, the
loss of the worker. A simulation is the number of its events, the one that fails
and whether the failure withholds the history. Messages of a worker that was
released are dropped with it, as the host's listener checks. The `accepted`
events, which the host ignores, are left out.

**ReviewNavigation** (`review-navigation.ts` over `timeline-query.ts`,
`timeline-quick-views.ts` and `story-timeline.ts`): one action per intent of the
reader, and `Publish`, which grows or replaces the history.
**Playback** (`flight-playback.ts` over `flight.ts`, `activity.ts`, `records.ts`):
a history that grows record by record, in any order the kernel could record it,
and a cursor over its movements.

## 3. Runs

| Run | Property | What it shows |
|---|---|---|
| `queue` | `TypeOK`, `NoStrandedBacklog` | two competing consumers, room for two, drops and duplicates, handlers that sleep up to the deadline, a crash or pause and a restart: whatever could be reserved has a dispatch to come |
| | `BooksMatch` | reservations, timers and tasks are exact; dead letters have used every attempt |
| | `DeliveredInOrder` | the first attempts follow publication order; a record is acknowledged by work on its present attempt in the process that was given it, and by nothing that outlived a crash |
| | `TerminalIsFinal` | terminal records never change |
| `topic` | `BoundedAndSettled` | fan-out to two subscribers, one on a queue too: the capacity holds, and a run that ends leaves only records nobody could consume, with no publisher waiting |
| | `Progress` | under fairness every run ends, and a record with a running consumer is settled |
| `network` | `WorkMatches` | lost and delayed legs, a retry, sleeping handlers, crashes, an unknown endpoint: deadlines are exact, a request is worked on once and never for a dead process |
| | `ImplementsRemoteCall`, `EveryCallReturns` | one outcome for a call, no answer after the deadline; under fairness there is one |
| `scheduler` | `HeapExact`, `ImplementsAgenda` | the heap order and the index survive every removal, reset and restore; old handles do nothing |
| `database` | `TypeOK`, `TransactionsMatch`, `ImplementsSerialStore` | no task waits in vain; commits are serial, constraints included |
| `session` | `SessionAgrees`, `PauseStops`, `EveryRequestSettled` | a run is alone with its simulation, no request is forgotten, what is shown at rest is the simulation's state, a pause stops it, and under fairness every request is settled |
| `kernel` | `ExpiriesExact`, `ImplementsTtlMap` | the pending expiries are exact, no entry expires twice, the store is a map with lifetimes |
| | `ProviderBooksMatch`, `ImplementsProvider` | the counters of an external service agree with its work; terms are those of acceptance |
| | `DecisionsFollowProbes` | a decision is the one that the evaluations before it call for |
| | `HistoryIsTold` | listeners are told consecutive records in order; the seal is honest; queries equal a linear reading, as long as a record names a component or an entity once |
| | `Fenced` | nothing is done in the name of a run, process or component that is not at work, and an attempt with what this run gave ends it |
| `lessons` | `OneProbe` | with a timeout below the cooldown, the probe alone decides what the breaker does |
| | `NoOversell`, `BoundedStaleness`, `ChargedOnce`, `NotifiedOnce`, `OrderStandsOnBoth` | what each pattern promises, with the option on, and what remains with it off |
| | `VerdictsFollowHistory` | each verdict is that of the first boundary that decides it |
| `documents` | `TellsWhatIsWrong` | two mistakes anywhere: the first stage that fails reports each at its place, and neither hides the other unless it must |
| | `ParsesJson` | the parser accepts the grammar, gives up on no prefix of a text, and reports what is wrong |
| `page` | `AcceptedComposes` | a scenario without diagnostics is refused by no constructor, but for unknown checks of tables without rows |
| | `OverlayMeansWhatItSays` | the applied document is the design asked for; the normal form is accepted and is its own |
| | `DraftDescribesTheRun` | entries keep their own identities, survive the form unless it cannot show their probability, are marked where they act, and are what is applied |
| | `NavigationKeepsFaith` | selection and cue are of the history shown; a revealed record is shown at the cost of no other constraint |
| | `PaintsTheRecord` | activity, hops and cursor are what the records say |
| `recovery`, `history_reentry` | expect a violation | see [findings](#7-findings) |

`CHECK_DEADLOCK FALSE` stands in every configuration because each of these systems
may stop: a run completes, sequence numbers, calls, edits or moves are used up, and
a reader, author or student may do nothing more. That a run does not stop with
someone waiting is checked instead, by `BoundedAndSettled`, `TransactionsMatch` and
`SessionAgrees`, and by the three liveness properties.

## 4. Bounds

* **Bus.** Three publications (two in one task, one in another), at most two
  attempts, two consumers, capacity two (queue) or three (topic, where a message
  needs two). This is the least with a follow-up published inside `#admit`, a
  rejection, a record waiting behind a busy consumer, and a retry that exhausts
  its budget. Delays are such that a sleeping handler ends exactly at the
  deadline, and that a crash, an arrival and a consumer's work fall on one time.
* **Network.** Five calls: one, its retry, the call downstream of each, and one to
  an endpoint that is not there. Latencies and timeouts make one round trip take
  exactly its timeout. Losses, delays and jitter are chosen per leg.
* **Scheduler.** Heaps of three levels: it takes six events for the one moved into a
  gap to have to rise, which is why `#remove` calls `#up`. Two times suffice, as
  ties are decided by the number. Resets and restores are bounded by the constraint
  `FewRestarted`: once there was one, or the state was exported, a heap has at most
  three events; two eras follow the first.
* **Store.** One key (keys share only the clock), lifetimes of one and two, time to
  four, four generations, and counters to two so that the greatest is reached.
* **Database.** Three transactions are needed for one that is overtaken by another
  while a third has begun since; two keys for a constraint over rows; one crash.
  The two tasks are interchangeable: no definition orders them.
* **Session.** Simulations of up to three events, four calls, a yield after every
  event, so that calls and samples of the boundaries come between any two of them,
  a budget that stops a run and one that does not.
* **Kernel.** External service: a caller with one retry and two more requests, an
  operation that is refused and one that is unknown, four sequences of changes on
  either side of each arrival, and a misuse. Fault engine: five rules at two
  points with occurrence, limit, chance and overlapping windows, three probes in
  each of two attempts. History: two events, dispatched by `step` or in one `run`, up
  to two listeners, and a limit reached within the second event's observations; a
  reset begins anew, as nothing of the old history is left. Capabilities: one service, one client, one crash, one reset, and one
  thing kept at a time, which is enough as refusals do not depend on each other.
* **Lessons.** Four calls make the breaker open, cool down and be probed with others
  still in flight; four requests for two units leave two refused; two price
  changes, payments and retrying clients, two relays and two deliveries are the
  pairs that race. `Timeout` is below `Cooldown`, as the 20 of the packaged links is
  below the 30 of the breaker. Assessment: one assertion of each mode, one marker at the
  time of an action, one event more.
* **Documents.** Two mistakes at once (what one hides of another); JSON texts of nine
  tokens with nesting one beyond the limit.
* **Page.** Two edits of a scenario (one that is wrong by itself and one more that
  makes it right or is at odds with it), four entries in an overlay; two faults in a draft, which is what it takes for an
  identifier to be given while another is held, and two lessons that share a link, one
  kind of fault and one parameter, and differ in the other kind and in the default of
  the other parameter: what one lesson allows and the other does not; six records and the replay of another lesson, four intents; sixteen
  records of a call with its transaction and event, recorded in every order in which
  one follows from another, and two moves of the reader.

## 5. Fairness

`WF_vars(Next)` for bus and network is the loop of `Simulation.run`, which
dispatches as long as the run is RUNNING and the agenda is not empty. Every step of
these models is such a dispatch (or an iteration of one), so this is no more than
the loop going on; which scenario, fault or handler outcome is chosen is not
subject to fairness. `WorkerSession` assumes that the event loops of page and
worker go on: weak fairness of `Deliver`, `Receive` and `Resume`. Nothing is
assumed of calls by the page, of `Break`, or of `Sample`, which may never come.
The other models are of safety only: what authors, readers and handlers do next is
theirs to decide.

## 6. Proofs

The theorems hold for all constants that satisfy the modules' named assumptions,
which say what sort of thing a constant is and what the constructors of the code
refuse: `DestinationsAssumption`, `PublicationsAssumption` and `ScriptsAssumption`
of the bus, `CallsAssumption`, `PolicyAssumption` and `ScriptsAssumption` of the
network, `SchedulerAssumption`, `DatabaseAssumption`, `StoreAssumption`,
`ProviderAssumption`, `HistoryAssumption`, `KeepsakesAssumption`,
`SessionAssumption`, `CircuitAssumption`, `ReservationsAssumption`,
`LifetimesAssumption`, `AssessmentAssumption`, and of the page `DocumentsAssumption`,
`LessonAssumption`, `TextAssumption`, `ReviewAssumption` and `RecordsAssumption`. So they are about any number of
destinations, consumers, publications, calls, events, tasks, keys, listeners, rules,
simulations, requests, assertions, documents, overlays, lessons and records, and any
faults and scenarios. TLC evaluates
every assumption in a run. Each inductive invariant was checked by TLC before it was
proved, that of the session with one call more than the run has.

**MessageBus_proofs.** `TypeCorrectness` rests on the inductive invariant `TypeInv`,
which adds to `TypeOK` that a record which exists is one its publication creates
(`RoutingOK`): without it the consumer of a topic's record could be no component.
`NoLostWakeUp` proves `NoStrandedBacklog`, which is inductive together with
`TypeInv`. The argument is about `ScheduleDispatch`: a handler that calls it last
leaves either a pending dispatch or nothing to reserve, and the lemmas show of each
handler that does not call it that it cannot make a record reservable.

The other theorems of the bus rest on `BusInv`:
`BusInv` is `TypeInv` with `BooksInv` and `CarriedOnce`.
`BooksInv` adds to `BooksMatch` how attempts and states of a record go together
(`AttemptsMatch`), and that a publication is announced once and has no records
before (`PublishedOnce`); `CarriedOnce`, that an arrival, a reservation of a
consumer and a sleeping handler of one attempt are one thing, and that a deadline
comes before whatever it could race with at its instant. Handlers are classified by
what they do to records and events (the effects `Book`, `Carry`, `Announce`), and a
part of the invariant is proved once for each effect. From `BusInv` follow
`BooksAgree`, `DeliveredAsPublished` (order of publication, and the action property
that a record is acknowledged only by the process its present attempt was given to)
and `SettledForGood`, an action property: a settled record stays as it is, and an
acknowledgement comes before the deadline.
`BoundedAndAtRest` needs `CapacityInv`, as a destination that admits has room for
what it admits, and `EndInv`, that a run which ends has nothing in its agenda:
what still waits then is refuted by the books.

**VirtualNetwork_proofs.** The invariant follows a request as one token: from its
delivery to its endpoint event, to the handler that sleeps or the downstream call
that handler waits for, and to the answer (`OneToken`, `ServedByOne`, `WakesKept`,
`AnswersKept`). `MadeOnce` says that a call is made once, by its start, its server
or the timeout it retries; `DeadlinesKept`, that it has its one deadline until it is
settled. A handler consists of parts that others share (settle, then reply or
request), so the invariant is an operator of what a part leaves behind, and each
part has its lemma. `WorkAgrees` proves `WorkMatches`. `CallsReturnOnce` proves
`Spec => ImplementsRemoteCall`; the instants of the abstract specification need
besides that nothing pending is overdue (`Passed`) and that a deadline is older in
the agenda than the response of its call (`Fresh`).

**Database_proofs.** The inductive invariant is `IInv`, of three parts, each needed
for the next:

* `TypeOK`;
* `MatchInv`: `TransactionsMatch`, and `Numbered` (no event pending and no
  transaction open has a number that may be given again), and at most one
  transaction open for each task. Without `Numbered` a new transaction could
  be decided by the event of one that a crash abandoned;
* `Faithful`: the copy of a transaction carries exactly its writes, and while its
  base is the current revision, what it started from are the committed rows.

`TypeCorrectness` and `NobodyWaitsInVain` are the safety
invariants. `DatabaseIsSerial` proves `Spec => ImplementsSerialStore`: each action
maps to a step of `SerialStore` or to a stutter. The heart is the commit:
by `Faithful` a candidate built from the changes and the *present* rows is the
transaction's own copy whenever the revisions agree, so an accepted commit is the
abstract one, and the comparison of revisions refuses precisely those overtaken.

**Scheduler_proofs.** `HeapIsExact` proves `HeapExact`, `SchedulerIsAnAgenda` proves
`Spec => ImplementsAgenda`. `Up` and `Down` are the loops of the code, written as
recursive functions; what a loop leaves is shown by an induction in terms of sets (a
set of naturals that holds zero and each successor is all of them, from the
well-foundedness of `<`), and `Recursion` says once that such a function satisfies
its defining equation. A loop starts from a heap that is in order but for one place,
which is early or late (`ButEarly`, `ButLate`), and ends with one that is `Repaired`:
in order, with the same events, and the index telling the place of each. `RootFirst`
is what a heap is for: its root is the first of its events in the agenda's order.
`SchedulerInv` adds, for the refinement, that every pending event is of this era and
has a number that was given, that a handle of this era names no pending event but
its own, and that what was exported can be restored.

**Kernel_proofs.** A part for each component of `KernelMC`, and `KernelKept`, which
puts their invariants together.

* *Store.* `ExpiriesAgree` proves `ExpiriesExact` with the help of `LastGeneration`
  (an entry is the last generation of its key, an expiration that was observed is of
  an earlier one) and `NotOverdue`. `StoreIsATtlMap` proves `Spec =>
  ImplementsTtlMap`: an operation on an entry that is due but whose event is still to
  come maps to one on a map where the entry is already gone, and the expiry event
  itself to a stutter.
* *External service.* `ServiceInv` follows a request as one token, from its delivery
  to its arrival and its completion (`OneToken`); steps of the scenario are taken once
  (`StepsOnce`) and requests are sent once (`SentOnce`), and every counter is what is
  counted over the agenda and the applied operations (`Booked`). From it follow
  `ProviderBooksAgree` and, with `Promised` (the terms captured at an acceptance are
  kept by the one event that still carries them), `ServiceIsAProvider`: an acceptance
  maps to a promise, an effect to one carried out, a failure to a halt, all else to a
  stutter.
* *Fault engine.* `FaultsFollowProbes` proves `DecisionsFollowProbes` from
  `CountersExact`: the two counters of a rule are what is counted over the
  evaluations since the reset.
* *History.* `HistoryTold` proves `HistoryIsTold`. Of the telling and the seal,
  `HistoryInv` says that what is pending and what is being told are the end of the
  history, and who has heard up to where: a listener before `next` is one record ahead
  of those after it (`Heirs`). Of the queries, what a concatenation gathers is found by
  an induction in terms of sets (`InOrderGathers`): a list of pieces, each empty or of
  one record, gives the records of the pieces in their order (`SiftedSelects`). An
  index is such a list (`TypeSifted`, `ComponentSifted`, `EntitySifted`; for the last
  two each record must name the component or the entity once), it has every record
  that matches (`CandidatesSelected`), and the filter over it is one again
  (`QueryFinds`).
* *Capabilities.* `KeepsakesFenced` proves `Fenced`, from what the guards in their
  order leave.

**WorkerSession_proofs.** The invariant is of what is on its way between page and
worker. A request is in one place, and nothing is sent for it after its last event
(`Placed`, `Ledger`). The events on their way are read in order, so they determine
what the page will have shown; after the last of them that is where the simulation
is (`Screen`, a chain of what is shown after each event). While a load is pending
nothing else is (`Stages`), and a run is alone with its simulation (`Alone`). From it
follow `Agreement`, which is `SessionAgrees`, and `PauseHolds`, the action property
`PauseStops`. The proof showed that two cases of the definition `Stepped`
overlapped, with `CASE` free to take either; it now follows the order of
the returns in the code.

**Lessons_proofs.** A theorem and an inductive invariant for each lesson:

* `ProbeAlone`: `OneProbe`, from the assumption `ShortTimeout` that the link gives up
  before the breaker has cooled down. The strengthening says how long a call may wait
  (`InTime`) and that what waits while the breaker is open was admitted before it
  opened (`Stragglers`): together they leave nothing in flight when a probe is let
  through (`NothingWaits`). Without `ShortTimeout` it is false ([findings](#7-findings)).
* `SoldOnce`: `NoOversell`. A reservation is counted at its commit (`Counted`,
  `Reserved`), a transaction whose base is the present revision saw the present stock
  (`Seen`), and with `optimistic` such a one saw a unit left (`Safe`).
* `PricesRecent`: `BoundedStaleness`, with the prices in force at each time
  (`HistoryOrdered`) and how old what is cached or ordered may be; several changes may
  take effect at one instant.
* `RetriesChargeOnce`: `ChargedOnce`; with the key only the first of a client's
  payments is of record, and whoever is told of one is told of that (`FirstOnly`).
* `OutboxNotifiesOnce`: `NotifiedOnce`; a payment and its row are of one commit, and
  what a relay or a consumer does follows the row (`RowTold`, `TasksFollow`).
* `SagaSettles`: `OrderStandsOnBoth`, from the order of the effects on the way forward
  and on the way back (`Forward`, `Backward`).
* `VerdictsAgree`: `VerdictsFollowHistory`. Each row agrees with the boundaries so far
  (`Agrees`: it is as the first that settles it has it, open if none does), and a
  marker still to come is of an assertion that waits for it (`MarkersWait`). The
  heart is `OneMoreAgrees`: one evaluation more keeps the agreement.

**PageMC_proofs.** A part for each component of `PageMC`. What `filter`, `flatMap`
and `splice` yield is a sequence at some of its places; one induction in terms of sets
gives the order of its elements and their places in the other (`AtPlacesChained`).

* *Scenarios.* `AcceptedDocumentsCompose`: `AcceptedComposes`, for any catalog,
  documents and edits. What is inductive is only that an edit leaves a document of the
  language (`IsDocument`: the sections are sequences, times and policies are numbers;
  `DocumentsAssumption` says so of the documents and entries one begins with, as the
  readers of `validate.ts` do). The rest is one implication, a lemma for each
  constructor: from the silence of the readers it relies on (`Silent`) to what it
  would refuse. It needs that components without diagnostics are found by their
  identity (`SilentIdentifies`), and that a bound peer is such a component
  (`PeerIsRight`).
* *Overlays.* `OverlaysMeanWhatTheySay`: `OverlayMeansWhatItSays`. A normal list has
  the entries of the submitted one that are not without effect, each once (`ListOf`,
  `KeptIs`). An entry that was kept is kept again, because the models in the slots,
  against which bindings and storage are read, are the same after the slots were
  normalized (`SlotsStable`); so the normal form is its own (`NormalStable`) and is
  accepted (`NormalAccepted`). That the applied document is the design asked for goes
  field by field: models (`SlottedIs`), peers and options (`PeerIsAsked`,
  `OptionIsAsked`), storage (`OwnedIsAsked`), subscriptions (`SubscribedIsAsked`),
  values (`ValueIsAsked`).
  `LessonAssumption` says that the packaged lesson is one its catalog accepts and what
  entries are made of.
* *Drafts.* `DraftsDescribeTheRun`: `DraftDescribesTheRun`. By `DraftInv` every entry
  of the draft was built by the form for a target of some lesson, the identifiers are
  distinct (`NextStudentId` finds one not taken by a count of pigeonholes,
  `IdentifierIsFree`), the choices are legal in the lesson, and what is applied is what
  a draft and choices send. An entry that names a target of the lesson shown then
  fits that target only (`OneTarget`, `MarkedTarget`), so the form restores it
  (`RoundTrip`) and its marks are where it hits (`MarksAreHits`). The property leaves out
  a probability that the form cannot show again, for which it is false
  ([findings](#7-findings), `break-faults.ts:232`). `TextAssumption` says what the
  texts of the form denote, and that lessons name what they have.
* *Review.* `ReaderKeepsFaith`: `NavigationKeepsFaith`. `ReviewInv`: the history is
  numbered in its order, the draft is one of the form, the error shown is that of the
  draft, and selection and cue are of records that exist (`PositionIsRecorded`). The
  lemma on reveals, `RevealIs`, says field by field what is cleared, `ParsedMatches`
  that the query asks what the draft says, and `OnlyHidingIsCleared` that what is
  cleared hid the record. `ReviewAssumption`: records are told apart by their
  identifiers, in all histories.
* *Playback.* `GraphPaintsTheRecord`: `PaintsTheRecord`. The reading of a history
  (a fold over its records) has at each record what an earlier one opened and none
  since ended (`IsOpen`, with `PlaceOpens`, `PlaceCloses` and `PlacePasses` for a
  record that does the one, the other or neither; `ReadingStep`). An end of a hop is
  paired with the last departure of its leg (`DepartedIs`, from `Latest`), and a
  cursor stays on a movement as the history grows (`Followed`). `RecordsAssumption`:
  records are told apart by their identifiers, those of one request, transaction,
  message or delivery agree on its components, and an end of a leg is recorded after
  its departure.

**Only model-checked.** Liveness (`Progress`, `EveryCallReturns`,
`EveryRequestSettled`) is out of the prover's reach, as it rests on fairness and
`ENABLED`. `DocumentPolicy` and `DocumentText` use recursive operators, with which the
provers cannot work: `TellsWhatIsWrong` and `ParsesJson` are TLC's results. Every other
property of a passing run is a theorem.

## 7. Findings

* **A failed session that can no longer be reset** (`recovery`, property
  `FailureRecoverable`). After a failure that withholds its history the host has no
  projection, and a reset is accepted only while the snapshot's error is
  `SIMULATION_FAILED` (`apps/web/src/host.ts:111`). Any other control is refused at
  line 114 with `WORKER_UNAVAILABLE`, which *replaces* the error; from then on the
  reset is refused as well. The comment at line 119 and
  `apps/web/docs/module-reference.md:95` say that such a failure can be reset. The
  shipped buttons do not offer the refused controls in that state, so another
  caller of `SimulationHost` is needed to meet it.
* **A listener that ends the run it listens to** (`history_reentry`, property
  `ListenersHarmless`). `step` releases its lock before it notifies
  (`kernel/src/simulation.ts:491`), so a listener that calls `step` is let in; the
  event is taken from the agenda, its record is refused as reentrant
  (`history.ts:53`), and the run fails. `docs/spec/observability.md:258` promises
  that a subscriber changes nothing.

Met while modelling, and kept here rather than as runs, since each is visible in the
lines quoted once one looks for it; the properties above are stated so that they
hold beside them:

| Code | says otherwise | What happens |
|---|---|---|
| `kernel/src/simulation.ts:225` | `docs/spec/virtual-clock.md:209` | what an earlier run gave, called inside a handler of the new one, ends the new run, the error caught or not |
| `kernel/src/client-runtime.ts:141` | `docs/spec/virtual-network.md:135` | a client port of an earlier run is refused with INVALID_OPERATION, not STALE_CAPABILITY, when its owner is not at work |
| `kernel/src/network.ts:96`, `message-bus.ts:189` | `docs/spec/contracts.md:214,228` | bus and network count spans apart, with one prefix: identifiers coincide |
| `kernel/src/history.ts:132` | `docs/spec/observability.md:366` | a record that names a component (as source and target) or an entity twice comes twice from a query for it |
| `catalogs/src/commerce/circuit.ts:55` | line 7 | with a timeout above the cooldown a second probe starts while the first waits |
| `catalogs/src/commerce/index.ts:36` | lines 30-31 | of two prices valid from one instant the first is taken to be the latest, and an order placed before a change of its own instant is judged by the new price |
| `catalogs/src/commerce/cache.ts:126` | `scenarios.ts:308` | a cart that expires while Catalog is asked for the price is checked out; the lesson's assertion reports such an order |
| `scenario/src/validate.ts:406` | `kernel/src/database.ts:55` | an unknown check of a table without rows is accepted (`docs/modules/scenario.md:156` says so), and refused at composition |
| `catalogs/src/commerce/saga.ts:41,51` | `scenarios.ts:275,277` | the replies of `POST /ship` and `POST /compensate` are not looked at: an order is confirmed though the carrier refused, and a cancelled one may keep its payment |
| `scenario/src/architecture-edits.ts:204` | `docs/spec/adr/005-architecture-editor.md:310` | a slot's packaged model without its options and a binding back to the packaged peer compose the packaged document together, and both stay as edits |
| `apps/web/src/break-faults.ts:232` | line 216 | a probability below 0.000001 is shown with an exponent, which the form refuses when the entry is updated |
| `apps/web/src/BreakPanel.tsx:163` | line 93 | Discard leaves the form on an entry it dropped; Update then changes nothing, and says that it did |
| `apps/web/src/activity.ts:99` | line 12 | a transaction the database rejected is painted as open for the rest of the run |
| `apps/web/src/review-navigation.ts:417` | `docs/learning-timeline.md:113` | narrowing to a trace asks for the focus of the selected record, which the quick view it keeps may hide |
| `apps/web/src/timeline.ts:106` | `docs/learning-timeline.md:150` | when a filter hides the first started event, later scheduling records are folded too |

Examined and found right: a paused service finishing work it has admitted; a
deadline that comes before the arrival due at the same instant; the revision
that grows when staged writes cancel out; the task that a nested `#advance` leaves;
an outbox row marked by a second relay.

## 8. What is not modelled

Message bodies, rows as records, trace identities, log text and the wording of
errors are data that no property depends on: they are left out or are model
values. Times and counters overflow at 2^53 only after more steps than any run
makes; the limits of scheduler, store and external service are modelled, with small
values for `Number.MAX_SAFE_INTEGER`. Hashing, random streams and canonical encoding
(`identity.ts`, `random.ts`, `canonical.ts`) are pure arithmetic and strings. The
type declarations of `packages/contracts` have no behaviour.

* *Checkout catalog* (`catalogs/src/models.ts` and its scenarios): each handler is
  one publication, call or commit of parts that are modelled.
* *Commerce catalog*: the notification and CQRS lessons, placeholders, descriptors
  and packaged documents.
* *Registration* of components, models and schemas, the visibility and
  validation of observations, and the views of a session.
* *Documents*: characters and escapes of the JSON text, JSON types inside a
  scenario, digests, and which edit a diagnostic of an applied document is
  attributed to.
* *Pages*: rendering (`*.tsx`), geometry, captions, facts, suggestions, the grouping
  of the learning timeline, the fault inspection report, the placement of
  diagnostics, the files to save.

## 9. Plan

Done: the kernel, the lessons of the commerce catalog, documents with their
drafts and overlays, and what the page derives from a history; their safety
invariants, action properties and refinements are proved, but for the two of the
documents' text and stages. What would add most next:

1. **Documents** without recursive operators: `DocumentText` over a parser whose
   reference is a set of derivations, `DocumentPolicy` over a value unfolded to the
   depth of the schema, so that `ParsesJson` and `TellsWhatIsWrong` can be proved.
2. **Checkout**, composed of `MessageBus`, `VirtualNetwork` and `Database` instead
   of what each of them promises, once its handlers do more than one effect each.
3. **LearningTimeline** (`timeline.ts`): groups and their bounds under growth.
