-------------------------- MODULE MessageBus_proofs --------------------------
(***************************************************************************)
(* The books of the bus are exact, for any destinations, subscriptions,    *)
(* policies, faults and scenarios: nothing waits without a dispatch to     *)
(* come; reservations, timers, dead letters and suspended handlers agree   *)
(* with the records; settled records stay as they are; deliveries keep the *)
(* order of publication; capacity holds and a run that ends leaves nothing *)
(* to do.                                                                  *)
(*                                                                         *)
(* The first part proves types and backlogs, handler by handler.  In the   *)
(* second, handlers are classified by what they do to the records and to   *)
(* the events of one kind (the effects named Book, Carry and Announce);    *)
(* each part of the invariant is then proved once for each effect.         *)
(***************************************************************************)
EXTENDS MessageBus, FiniteSetTheorems, TLAPS

-----------------------------------------------------------------------------
(* Events                                                                   *)

\* What an event of each type carries.
LEMMA EventFields ==
    ASSUME NEW e \in Event
    PROVE  /\ e.time \in Nat /\ e.seq \in Nat
           /\ e.type \in {"publish", "admission"} => e.pub \in Publications
           /\ e.type \in {"lifecycle", "control"} => e.component \in Components /\ e.next \in ServiceState
           /\ e.type \in {"arrival", "wake", "consumer"} => e.copy \in Copy
           /\ e.type \in {"timeout", "retry"} => e.routing \in Routings
           /\ e.type = "timeout" => e.attempt \in Nat
           /\ e.type = "consumer" => e.generation \in Nat
  BY DEF Event

\* Every constructor builds an event.
LEMMA EventConstructors ==
    ASSUME NEW t \in Nat, NEW n \in Nat
    PROVE  /\ \A p \in Publications : PublishEvent(t, n, p) \in Event /\ AdmissionEvent(t, n, p) \in Event
           /\ \A c \in Components, s \in ServiceState : LifecycleEvent(t, n, c, s) \in Event /\ ControlEvent(t, n, c, s) \in Event
           /\ DispatchEvent(t, n) \in Event
           /\ \A c \in Copy : ArrivalEvent(t, n, c) \in Event /\ WakeEvent(t, n, c) \in Event
           /\ \A r \in Routings : RetryEvent(t, n, r) \in Event
           /\ \A r \in Routings, a \in Nat : TimeoutEvent(t, n, r, a) \in Event
           /\ \A c \in Copy, g \in Nat : ConsumerEvent(t, n, c, g) \in Event
  BY DEF Event, PublishEvent, AdmissionEvent, LifecycleEvent, ControlEvent, DispatchEvent, ArrivalEvent,
         WakeEvent, RetryEvent, TimeoutEvent, ConsumerEvent

-----------------------------------------------------------------------------
(* Type correctness                                                         *)

\* A record exists only under the name #admit gives it.
RoutingOK == \A r \in Routings : records[r].state # "ABSENT" => r \in Created(r[1])

TypeInv == TypeOK /\ RoutingOK

\* The data of the records of a routing name.
LEMMA RoutingFacts ==
    ASSUME NEW r \in Routings
    PROVE  /\ r[1] \in Publications /\ r[2] \in Components \cup {NoSubscriber}
           /\ DestinationOf(r) \in Destinations
           /\ SubscriberSet(DestinationOf(r)) \subseteq Components
  <1>1. r[1] \in Publications /\ r[2] \in Components \cup {NoSubscriber}
    BY DEF Routings
  <1>2. DestinationOf(r) \in Destinations
    BY <1>1, PublicationsAssumption DEF DestinationOf
  <1>3. Subscribers[DestinationOf(r)] \in Seq(Components)
    BY <1>2, DestinationsAssumption
  <1> QED
    BY <1>1, <1>2, <1>3 DEF SubscriberSet

LEMMA PositionIsNat ==
    ASSUME NEW p \in Publications, NEW r \in Created(p)
    PROVE  Position(r) \in Nat
  <1> DEFINE d == DestinationOf(r)
  <1>1. CASE r[2] = NoSubscriber
    BY <1>1 DEF Position
  <1>2. CASE r[2] # NoSubscriber
    <2>1. r[1] = p /\ r[2] \in SubscriberSet(Destination[p])
      BY <1>2 DEF Created
    <2>2. \E i \in DOMAIN Subscribers[d] : Subscribers[d][i] = r[2]
      BY <2>1 DEF SubscriberSet, DestinationOf
    <2>3. d \in Destinations
      BY <2>1, PublicationsAssumption DEF DestinationOf
    <2>4. Subscribers[d] \in Seq(Components)
      BY <2>3, DestinationsAssumption
    <2>5. \A i \in DOMAIN Subscribers[d] : i - 1 \in Nat
      BY <2>4
    <2> HIDE DEF d
    <2>6. (CHOOSE i \in DOMAIN Subscribers[d] : Subscribers[d][i] = r[2]) \in DOMAIN Subscribers[d]
      BY <2>2
    <2> QED
      BY <1>2, <2>5, <2>6 DEF Position, d
  <1> QED
    BY <1>1, <1>2

LEMMA InitTypeInv == Init => TypeInv
  <1> SUFFICES ASSUME Init PROVE TypeInv
    OBVIOUS
  <1>1. PICK s \in Scripts : /\ agenda = {ScriptEvent(s[i], i - 1) : i \in DOMAIN s}
                             /\ nextSeq = Len(s)
    BY DEF Init
  <1>2. s \in Seq(Step)
    BY <1>1, ScriptsAssumption
  <1>3. ASSUME NEW i \in DOMAIN s PROVE ScriptEvent(s[i], i - 1) \in Event
    <2>1. s[i] \in Step /\ i - 1 \in Nat
      BY <1>2
    <2> QED
      BY <2>1, EventConstructors DEF ScriptEvent, Step
  <1>4. agenda \subseteq Event /\ nextSeq \in Nat
    BY <1>1, <1>2, <1>3
  <1> QED
    BY <1>4 DEF Init, TypeInv, TypeOK, RoutingOK, Record, RecordState, Unattempted, ServiceState, PubStatus

\* The common end of handlers: only a dispatch event may be added.
LEMMA ScheduleDispatchType ==
    ASSUME NEW base, NEW n \in Nat, base \subseteq Event, now' \in Nat,
           dispatchPending \in BOOLEAN, ScheduleDispatch(base, n)
    PROVE  agenda' \subseteq Event /\ nextSeq' \in Nat /\ dispatchPending' \in BOOLEAN
  <1>1. DispatchEvent(now', n) \in Event
    BY EventConstructors
  <1>2. CASE ~dispatchPending /\ SomeReservable'
    BY <1>1, <1>2 DEF ScheduleDispatch
  <1>3. CASE ~(~dispatchPending /\ SomeReservable')
    <2>1. dispatchPending' = dispatchPending /\ agenda' = base /\ nextSeq' = n
      BY <1>3 DEF ScheduleDispatch
    <2> QED
      BY <2>1
  <1> QED
    BY <1>2, <1>3

LEMMA FailAttemptType ==
    ASSUME TypeInv, now' \in Nat, NEW r \in Routings, NEW base, base \subseteq Event,
           NEW reason \in {"nack", "timeout", "unavailable"}, records[r].state = "IN_FLIGHT",
           FailAttempt(r, reason, base)
    PROVE  /\ records' \in [Routings -> Record] /\ reserved' \subseteq (Destinations \X Components)
           /\ dead' \subseteq [routing : Routings, attempts : Nat, reason : {"nack", "timeout", "unavailable"}]
           /\ agenda' \subseteq Event /\ nextSeq' \in Nat /\ dispatchPending' \in BOOLEAN
           /\ RoutingOK'
  <1> USE DEF TypeInv, TypeOK
  <1>1. DestinationOf(r) \in Destinations /\ records[r] \in Record
    BY RoutingFacts
  <1>2. RetryDelay[DestinationOf(r)] \in Nat
    BY <1>1, DestinationsAssumption
  <1>3. records' \in [Routings -> Record] /\ RoutingOK'
    BY <1>1 DEF FailAttempt, Record, RecordState, RoutingOK
  <1>4. reserved' \subseteq (Destinations \X Components)
    BY DEF FailAttempt
  <1>5. dead' \subseteq [routing : Routings, attempts : Nat, reason : {"nack", "timeout", "unavailable"}]
    BY <1>1 DEF FailAttempt, Record
  <1>6. base \cup {RetryEvent(now' + RetryDelay[DestinationOf(r)], nextSeq, r)} \subseteq Event
    BY <1>2, EventConstructors
  <1>7. agenda' \subseteq Event /\ nextSeq' \in Nat /\ dispatchPending' \in BOOLEAN
    BY <1>6, ScheduleDispatchType DEF FailAttempt
  <1> QED
    BY <1>3, <1>4, <1>5, <1>7

LEMMA AcknowledgeType ==
    ASSUME TypeInv, now' \in Nat, NEW copy \in Copy, NEW base, base \subseteq Event,
           NEW outcome, Acknowledge(copy, outcome, base)
    PROVE  /\ records' \in [Routings -> Record] /\ reserved' \subseteq (Destinations \X Components)
           /\ dead' \subseteq [routing : Routings, attempts : Nat, reason : {"nack", "timeout", "unavailable"}]
           /\ agenda' \subseteq Event /\ nextSeq' \in Nat /\ dispatchPending' \in BOOLEAN
           /\ nextOrder' = nextOrder /\ delivered' = delivered /\ accepted' = accepted /\ cursors' = cursors
           /\ RoutingOK'
  <1> DEFINE r == copy.routing
             live == copy \in delivered /\ ~copy.dropped /\ Open(copy)
  <1>0. r \in Routings /\ records[r] \in Record
    BY DEF Copy, TypeInv, TypeOK
  <1>1. nextOrder' = nextOrder /\ delivered' = delivered /\ accepted' = accepted /\ cursors' = cursors
    BY DEF Acknowledge
  <1>2. CASE live /\ outcome = "ack"
    <2>1. records' = [records EXCEPT ![r].settled = TRUE, ![r].state = "ACKED"]
          /\ reserved' \subseteq reserved /\ dead' = dead /\ ScheduleDispatch(base \ Deadlines(r), nextSeq)
      BY <1>2 DEF Acknowledge
    <2>2. records' \in [Routings -> Record] /\ RoutingOK'
      BY <1>0, <1>2, <2>1 DEF TypeInv, TypeOK, Record, RecordState, RoutingOK, Open
    <2>3. agenda' \subseteq Event /\ nextSeq' \in Nat /\ dispatchPending' \in BOOLEAN
      BY <2>1, ScheduleDispatchType DEF TypeInv, TypeOK
    <2> QED
      BY <1>1, <2>1, <2>2, <2>3 DEF TypeInv, TypeOK
  <1>3. CASE live /\ outcome = "nack"
    <2>1. FailAttempt(r, "nack", base \ Deadlines(r)) /\ records[r].state = "IN_FLIGHT"
      BY <1>3 DEF Acknowledge, Open
    <2> QED
      BY <1>0, <1>1, <2>1, FailAttemptType
  <1>4. CASE ~live
    BY <1>1, <1>4 DEF Acknowledge, TypeInv, TypeOK, RoutingOK
  <1> QED
    BY <1>2, <1>3, <1>4 DEF Acknowledge

LEMMA ModRange == ASSUME NEW n \in Nat, NEW m \in Nat \ {0} PROVE n % m \in 0..(m - 1)
  OBVIOUS

\* The consumer #selectQueue picks is a subscriber of the queue.
LEMMA QueuePick ==
    ASSUME TypeInv, NEW d \in Queues, NEW k \in 0..(Len(Subscribers[d]) - 1)
    PROVE  /\ At(d, k) \in SubscriberSet(d)
           /\ (cursors[d] + k + 1) % Len(Subscribers[d]) \in Nat
  <1>1. d \in Destinations /\ Subscribers[d] \in Seq(Components) /\ cursors[d] \in Nat
    BY DestinationsAssumption DEF Destinations, TypeInv, TypeOK
  <1>2. Len(Subscribers[d]) \in Nat \ {0}
    BY <1>1
  <1> DEFINE m == Len(Subscribers[d])
             i == (cursors[d] + k) % m
             j == (cursors[d] + k + 1) % m
  <1>3. i \in 0..(m - 1) /\ j \in 0..(m - 1)
    <2>1. cursors[d] + k \in Nat /\ cursors[d] + k + 1 \in Nat
      BY <1>1, <1>2
    <2> QED
      BY <1>2, <2>1, ModRange
  <1>4. At(d, k) = Subscribers[d][i + 1]
    BY DEF At
  <1> HIDE DEF i, j
  <1>5. i + 1 \in DOMAIN Subscribers[d] /\ j \in Nat
    BY <1>1, <1>2, <1>3
  <1> QED
    BY <1>4, <1>5 DEF SubscriberSet, j

LEMMA MulNat == ASSUME NEW m \in Nat, NEW n \in Nat PROVE m * n \in Nat
  OBVIOUS

LEMMA ReserveType ==
    ASSUME TypeInv, NEW r \in Routings, records[r].state = "QUEUED", NEW c \in Components,
           NEW f \in Faults, Reserve(r, c, f)
    PROVE  /\ records' \in [Routings -> Record] /\ reserved' \subseteq (Destinations \X Components)
           /\ agenda' \subseteq Event /\ nextSeq' \in Nat
           /\ RoutingOK'
  <1> DEFINE d       == DestinationOf(r)
             attempt == records[r].attempt + 1
             copies  == IF f.drop THEN 1 ELSE 1 + f.additionalCopies
             arrival == now + DeliveryDelay[d] + f.extraDelay
             CopyOf(i) == [routing |-> r, attempt |-> attempt, index |-> i,
                           consumer |-> c, dropped |-> f.drop]
  <1>1. d \in Destinations /\ records[r] \in Record /\ now \in Nat /\ nextSeq \in Nat
    BY RoutingFacts DEF TypeInv, TypeOK
  <1>2. f \in FaultDecision
    BY ScriptsAssumption
  <1>3. attempt \in Nat /\ copies \in Nat /\ arrival \in Nat /\ arrival + AckTimeout[d] \in Nat
    <2>1. f.additionalCopies \in Nat /\ f.extraDelay \in Nat /\ f.drop \in BOOLEAN
      BY <1>2 DEF FaultDecision
    <2>2. DeliveryDelay[d] \in Nat /\ AckTimeout[d] \in Nat /\ records[r].attempt \in Nat
      BY <1>1, DestinationsAssumption DEF Record
    <2>3. copies \in Nat
      BY <2>1
    <2> HIDE DEF copies
    <2> QED
      BY <1>1, <2>1, <2>2, <2>3
  <1>4. records' \in [Routings -> Record] /\ RoutingOK'
    BY <1>1, <1>3 DEF Reserve, TypeInv, TypeOK, Record, RecordState, RoutingOK
  <1>5. reserved' \subseteq (Destinations \X Components)
    BY <1>1 DEF Reserve, TypeInv, TypeOK
  <1>6. TimeoutEvent(arrival + AckTimeout[d], nextSeq, r, attempt) \in Event
    BY <1>1, <1>3, EventConstructors
  <1>7. ASSUME NEW i \in 0..(copies - 1)
        PROVE  ArrivalEvent(arrival + i * f.copySpacing, nextSeq + 1 + i, CopyOf(i)) \in Event
    <2>1. i \in Nat /\ f.copySpacing \in Nat /\ f.drop \in BOOLEAN
      BY <1>2, <1>3 DEF FaultDecision
    <2>2. i * f.copySpacing \in Nat
      BY <2>1, MulNat
    <2>3. arrival + i * f.copySpacing \in Nat /\ nextSeq + 1 + i \in Nat
      BY <1>1, <1>3, <2>1, <2>2
    <2>4. CopyOf(i) \in Copy
      BY <1>3, <2>1 DEF Copy
    <2> QED
      BY <2>3, <2>4, EventConstructors
  <1>8. agenda' \subseteq Event
    BY <1>6, <1>7 DEF Reserve, TypeInv, TypeOK
  <1>9. nextSeq' \in Nat
    BY <1>1, <1>3 DEF Reserve
  <1> QED
    BY <1>4, <1>5, <1>8, <1>9

LEMMA ReserveNextType == ASSUME TypeInv, ReserveNext PROVE TypeInv'
  <1>1. PICK r \in Routings, f \in Faults :
           /\ CanReserve(r)
           /\ \/ /\ r[2] # NoSubscriber
                 /\ Reserve(r, r[2], f)
                 /\ UNCHANGED cursors
              \/ /\ r[2] = NoSubscriber
                 /\ \E k \in 0..(Len(Subscribers[DestinationOf(r)]) - 1) :
                      /\ Reserve(r, At(DestinationOf(r), k), f)
                      /\ cursors' = [cursors EXCEPT ![DestinationOf(r)] =
                                       (@ + k + 1) % Len(Subscribers[DestinationOf(r)])]
           /\ draining' = SomeReservable'
           /\ UNCHANGED <<now, nextOrder, delivered, accepted, dead, dispatchPending, runVars, status>>
    BY DEF ReserveNext, OldestReservable
  <1>2. records[r].state = "QUEUED"
    BY <1>1 DEF CanReserve
  <1>3. /\ records' \in [Routings -> Record] /\ reserved' \subseteq (Destinations \X Components)
        /\ agenda' \subseteq Event /\ nextSeq' \in Nat
        /\ RoutingOK' /\ cursors' \in [Queues -> Nat]
    <2>1. CASE r[2] # NoSubscriber
      <3>1. r[2] \in Components
        BY <2>1, RoutingFacts
      <3> QED
        BY <1>1, <1>2, <2>1, <3>1, ReserveType DEF TypeInv, TypeOK
    <2>2. CASE r[2] = NoSubscriber
      <3>1. DestinationOf(r) \in Queues
        <4>1. r \in Created(r[1])
          BY <1>2 DEF TypeInv, RoutingOK
        <4>2. DestinationOf(r) \notin Topics
          BY <2>2, <4>1, RoutingFacts, PublicationsAssumption DEF Created, DestinationOf
        <4> QED
          BY <4>2, RoutingFacts DEF Destinations
      <3>2. PICK k \in 0..(Len(Subscribers[DestinationOf(r)]) - 1) :
               /\ Reserve(r, At(DestinationOf(r), k), f)
               /\ cursors' = [cursors EXCEPT ![DestinationOf(r)] =
                                (@ + k + 1) % Len(Subscribers[DestinationOf(r)])]
        BY <1>1, <2>2
      <3>3. At(DestinationOf(r), k) \in Components
        BY <3>1, QueuePick, RoutingFacts
      <3>4. (cursors[DestinationOf(r)] + k + 1) % Len(Subscribers[DestinationOf(r)]) \in Nat
        BY <3>1, QueuePick
      <3>5. cursors' \in [Queues -> Nat]
        BY <3>1, <3>2, <3>4 DEF TypeInv, TypeOK
      <3> QED
        BY <1>2, <3>2, <3>3, <3>5, ReserveType
    <2> QED
      BY <2>1, <2>2
  <1>4. draining' \in BOOLEAN
    BY <1>1 DEF SomeReservable
  <1> QED
    BY <1>1, <1>3, <1>4 DEF TypeInv, TypeOK, runVars

\* What every dispatch starts from.
LEMMA TakeFacts ==
    ASSUME TypeInv, NEW e \in agenda, Dispatch(e)
    PROVE  /\ e \in Event /\ now' = e.time /\ now' \in Nat /\ nextSeq \in Nat
           /\ Take(e) \subseteq Event /\ ~draining
  BY EventFields DEF TypeInv, TypeOK, Dispatch, Take

\* #boundary keeps the status a status.
LEMMA BoundaryType ==
    ASSUME status \in {"RUNNING", "COMPLETED", "DEADLOCK", "FAILED"}, Boundary
    PROVE  status' \in {"RUNNING", "COMPLETED", "DEADLOCK", "FAILED"}
  BY DEF Boundary

\* What the completion of a publish call schedules and returns.
LEMMA CompleteType ==
    ASSUME TypeInv, NEW p \in Publications, NEW n \in Nat, now' \in Nat,
           NEW outcome \in PubStatus, Complete(p, outcome)
    PROVE  /\ pubs' \in [Publications -> PubStatus]
           /\ FollowUp(p, n) \subseteq Event /\ AfterFollowUp(p, n) \in Nat
  <1>1. Resumed(p) \subseteq Publications
    BY PublicationsAssumption DEF Resumed
  <1>2. pubs' \in [Publications -> PubStatus]
    BY DEF Complete, TypeInv, TypeOK, PubStatus
  <1>3. FollowUp(p, n) \subseteq Event
    BY <1>1, EventConstructors DEF FollowUp
  <1>4. AfterFollowUp(p, n) \in Nat
    BY DEF AfterFollowUp
  <1> QED
    BY <1>2, <1>3, <1>4

LEMMA DispatchType == ASSUME TypeInv, NEW e \in agenda, Dispatch(e) PROVE TypeInv'
  <1>0. /\ e \in Event /\ now' = e.time /\ now' \in Nat /\ nextSeq \in Nat
        /\ Take(e) \subseteq Event /\ draining \in BOOLEAN
        /\ Handle(e)
    BY TakeFacts DEF Dispatch, TypeInv, TypeOK
  <1> DEFINE DeadLetter == [routing : Routings, attempts : Nat, reason : {"nack", "timeout", "unavailable"}]
  <1>1. CASE Publish(e)
    <2>1. e.pub \in Publications
      BY <1>0, <1>1, EventFields DEF Publish
    <2>2. agenda' \subseteq Event /\ nextSeq' \in Nat
      <3>1. AdmissionEvent(now', nextSeq, e.pub) \in Event
        BY <1>0, <2>1, EventConstructors
      <3> QED
        BY <1>0, <1>1, <3>1 DEF Publish
    <2>3. pubs' \in [Publications -> PubStatus]
      BY <1>1, <2>1 DEF Publish, TypeInv, TypeOK, PubStatus
    <2> QED
      BY <1>0, <1>1, <2>2, <2>3, BoundaryType DEF Publish, TypeInv, TypeOK, RoutingOK, busVars
  <1>2. CASE Reject(e)
    <2>1. e.pub \in Publications /\ Complete(e.pub, "rejected")
      BY <1>0, <1>2, EventFields DEF Reject
    <2>2. /\ pubs' \in [Publications -> PubStatus]
          /\ FollowUp(e.pub, nextSeq) \subseteq Event /\ AfterFollowUp(e.pub, nextSeq) \in Nat
      BY <1>0, <2>1, CompleteType DEF PubStatus
    <2> QED
      BY <1>0, <1>2, <2>2, BoundaryType DEF Reject, TypeInv, TypeOK, RoutingOK, busVars
  <1>3. CASE Admit(e)
    <2>1. e.pub \in Publications /\ Complete(e.pub, "published")
      BY <1>0, <1>3, EventFields DEF Admit
    <2>2. /\ pubs' \in [Publications -> PubStatus]
          /\ FollowUp(e.pub, nextSeq) \subseteq Event /\ AfterFollowUp(e.pub, nextSeq) \in Nat
      BY <1>0, <2>1, CompleteType DEF PubStatus
    <2>a. ScheduleDispatch(Take(e) \cup FollowUp(e.pub, nextSeq), AfterFollowUp(e.pub, nextSeq))
      BY <1>3, Zenon DEF Admit
    <2>b. nextOrder' = nextOrder + Recipients(Destination[e.pub])
      BY <1>3, Zenon DEF Admit
    <2>c. records' = [r \in Routings |->
                        IF r \in Created(e.pub)
                        THEN Unattempted("QUEUED", nextOrder + Position(r))
                        ELSE records[r]]
      BY <1>3, Zenon DEF Admit
    <2>3. agenda' \subseteq Event /\ nextSeq' \in Nat /\ dispatchPending' \in BOOLEAN
      BY <1>0, <2>a, <2>2, ScheduleDispatchType DEF TypeInv, TypeOK
    <2>4. nextOrder' \in Nat
      <3>1. Destination[e.pub] \in Destinations
        BY <2>1, PublicationsAssumption
      <3>2. Subscribers[Destination[e.pub]] \in Seq(Components)
        BY <3>1, DestinationsAssumption
      <3>3. Recipients(Destination[e.pub]) \in Nat
        BY <3>2 DEF Recipients
      <3> QED
        BY <2>b, <3>3 DEF TypeInv, TypeOK
    <2>5. ASSUME NEW r \in Routings PROVE records'[r] \in Record
      <3>1. CASE r \in Created(e.pub)
        <4>1. nextOrder + Position(r) \in Nat
          BY <2>1, <3>1, PositionIsNat DEF TypeInv, TypeOK
        <4>2. records'[r] = Unattempted("QUEUED", nextOrder + Position(r))
          BY <2>c, <3>1, Zenon
        <4> QED
          BY <4>1, <4>2 DEF Record, RecordState, Unattempted
      <3>2. CASE r \notin Created(e.pub)
        BY <1>3, <3>2 DEF Admit, TypeInv, TypeOK
      <3> QED
        BY <3>1, <3>2
    <2>6. records' \in [Routings -> Record]
      BY <1>3, <2>5 DEF Admit
    <2>7. RoutingOK'
      <3> SUFFICES ASSUME NEW r \in Routings, records'[r].state # "ABSENT" PROVE r \in Created(r[1])
        BY DEF RoutingOK, Created, SubscriberSet
      <3>1. CASE r \in Created(e.pub)
        BY <3>1 DEF Created
      <3>2. CASE r \notin Created(e.pub)
        BY <1>3, <3>2 DEF Admit, TypeInv, RoutingOK
      <3> QED
        BY <3>1, <3>2
    <2> QED
      BY <1>0, <1>3, <2>2, <2>3, <2>4, <2>6, <2>7, BoundaryType DEF Admit, TypeInv, TypeOK
  <1>4. CASE OnDispatch(e)
    <2>1. draining' \in BOOLEAN
      BY <1>4 DEF OnDispatch, SomeReservable
    <2> QED
      BY <1>0, <1>4, <2>1, BoundaryType DEF OnDispatch, TypeInv, TypeOK, RoutingOK, busVars, runVars
  <1>5. CASE Arrive(e)
    <2>1. e.copy \in Copy
      BY <1>0, <1>5, EventFields DEF Arrive
    <2>2. e.copy.routing \in Routings /\ e.copy.consumer \in Components
      BY <2>1 DEF Copy
    <2> DEFINE r == e.copy.routing
    <2>3. /\ records' \in [Routings -> Record] /\ reserved' \subseteq (Destinations \X Components)
          /\ dead' \subseteq DeadLetter /\ agenda' \subseteq Event /\ nextSeq' \in Nat
          /\ dispatchPending' \in BOOLEAN /\ RoutingOK'
          /\ delivered' \subseteq Copy /\ accepted' \subseteq Copy \X Nat
      <3>1. CASE e.copy.dropped \/ ~Open(e.copy)
        BY <1>0, <1>5, <3>1 DEF Arrive, TypeInv, TypeOK, RoutingOK
      <3>2. CASE ~e.copy.dropped /\ Open(e.copy) /\ ~Ready(e.copy.consumer)
        <4>1. FailAttempt(r, "unavailable", Take(e) \ Deadlines(r)) /\ delivered' = delivered /\ accepted' = accepted
          BY <1>5, <3>2 DEF Arrive
        <4>2. records[r].state = "IN_FLIGHT"
          BY <3>2 DEF Open
        <4> QED
          BY <1>0, <2>2, <4>1, <4>2, FailAttemptType DEF TypeInv, TypeOK
      <3>3. CASE ~e.copy.dropped /\ Open(e.copy) /\ Ready(e.copy.consumer)
        <4>1. generation[e.copy.consumer] \in Nat
          BY <2>2 DEF TypeInv, TypeOK
        <4>2. ConsumerEvent(now', nextSeq, e.copy, generation[e.copy.consumer]) \in Event
          BY <1>0, <2>1, <4>1, EventConstructors
        <4>3. <<e.copy, generation[e.copy.consumer]>> \in Copy \X Nat
          BY <2>1, <4>1
        <4>4. accepted' = accepted \cup {<<e.copy, generation[e.copy.consumer]>>}
          BY <1>5, <3>3 DEF Arrive
        <4>5. accepted' \subseteq Copy \X Nat
          BY <4>3, <4>4 DEF TypeInv, TypeOK
        <4> QED
          BY <1>0, <1>5, <2>1, <3>3, <4>2, <4>5 DEF Arrive, TypeInv, TypeOK, RoutingOK
      <3> QED
        BY <3>1, <3>2, <3>3
    <2> QED
      BY <1>0, <1>5, <2>3, BoundaryType DEF Arrive, TypeInv, TypeOK, runVars
  <1>6. CASE Consume(e)
    <2>1. e.copy \in Copy
      BY <1>0, <1>6, EventFields DEF Consume
    <2>2. /\ records' \in [Routings -> Record] /\ reserved' \subseteq (Destinations \X Components)
          /\ dead' \subseteq DeadLetter /\ agenda' \subseteq Event /\ nextSeq' \in Nat
          /\ dispatchPending' \in BOOLEAN /\ RoutingOK' /\ tasks' \subseteq Copy
          /\ nextOrder' = nextOrder /\ delivered' = delivered /\ accepted' = accepted /\ cursors' = cursors
      <3>1. CASE agenda' = Take(e) /\ UNCHANGED <<busVars, dispatchPending, nextSeq, tasks>>
        BY <1>0, <3>1 DEF TypeInv, TypeOK, RoutingOK, busVars
      <3>2. CASE (\E outcome \in {"ack", "nack"} : Acknowledge(e.copy, outcome, Take(e))) /\ UNCHANGED tasks
        BY <1>0, <2>1, <3>2, AcknowledgeType DEF TypeInv, TypeOK
      <3>3. CASE /\ \E delay \in Sleeps : agenda' = Take(e) \cup {WakeEvent(now' + delay, nextSeq, e.copy)}
                 /\ nextSeq' = nextSeq + 1 /\ tasks' = tasks \cup {e.copy}
                 /\ UNCHANGED <<busVars, dispatchPending>>
        <4>1. PICK delay \in Sleeps : agenda' = Take(e) \cup {WakeEvent(now' + delay, nextSeq, e.copy)}
          BY <3>3
        <4>2. now' + delay \in Nat
          BY <1>0, ScriptsAssumption
        <4>3. agenda' \subseteq Event
          BY <1>0, <2>1, <4>1, <4>2, EventConstructors
        <4> QED
          BY <1>0, <2>1, <3>3, <4>3 DEF TypeInv, TypeOK, RoutingOK, busVars
      <3> QED
        BY <1>6, <3>1, <3>2, <3>3 DEF Consume
    <2> QED
      BY <1>0, <1>6, <2>2, BoundaryType DEF Consume, TypeInv, TypeOK
  <1>7. CASE Wake(e)
    <2>1. e.copy \in Copy
      BY <1>0, <1>7, EventFields DEF Wake
    <2>2. /\ records' \in [Routings -> Record] /\ reserved' \subseteq (Destinations \X Components)
          /\ dead' \subseteq DeadLetter /\ agenda' \subseteq Event /\ nextSeq' \in Nat
          /\ dispatchPending' \in BOOLEAN /\ RoutingOK' /\ tasks' \subseteq Copy
          /\ nextOrder' = nextOrder /\ delivered' = delivered /\ accepted' = accepted /\ cursors' = cursors
      <3>1. CASE agenda' = Take(e) /\ UNCHANGED <<busVars, dispatchPending, nextSeq, tasks>>
        BY <1>0, <3>1 DEF TypeInv, TypeOK, RoutingOK, busVars
      <3>2. CASE tasks' = tasks \ {e.copy} /\ \E outcome \in {"ack", "nack"} : Acknowledge(e.copy, outcome, Take(e))
        BY <1>0, <2>1, <3>2, AcknowledgeType DEF TypeInv, TypeOK
      <3> QED
        BY <1>7, <3>1, <3>2 DEF Wake
    <2> QED
      BY <1>0, <1>7, <2>2, BoundaryType DEF Wake, TypeInv, TypeOK
  <1>8. CASE OnTimeout(e)
    <2>1. e.routing \in Routings
      BY <1>0, <1>8, EventFields DEF OnTimeout
    <2>2. /\ records' \in [Routings -> Record] /\ reserved' \subseteq (Destinations \X Components)
          /\ dead' \subseteq DeadLetter /\ agenda' \subseteq Event /\ nextSeq' \in Nat
          /\ dispatchPending' \in BOOLEAN /\ RoutingOK'
      <3>1. CASE records[e.routing].state = "IN_FLIGHT" /\ FailAttempt(e.routing, "timeout", Take(e))
        BY <1>0, <2>1, <3>1, FailAttemptType
      <3>2. CASE agenda' = Take(e) /\ UNCHANGED <<records, reserved, dead, dispatchPending, nextSeq>>
        BY <1>0, <3>2 DEF TypeInv, TypeOK, RoutingOK
      <3> QED
        BY <1>8, <3>1, <3>2 DEF OnTimeout
    <2> QED
      BY <1>0, <1>8, <2>2, BoundaryType DEF OnTimeout, TypeInv, TypeOK, runVars
  <1>9. CASE OnRetry(e)
    <2>1. e.routing \in Routings /\ records[e.routing] \in Record
      BY <1>0, <1>9, EventFields DEF OnRetry, TypeInv, TypeOK
    <2>2. /\ records' \in [Routings -> Record] /\ agenda' \subseteq Event /\ nextSeq' \in Nat
          /\ dispatchPending' \in BOOLEAN /\ RoutingOK'
      <3>1. CASE records[e.routing].state = "RETRY"
        <4>1. records' = [records EXCEPT ![e.routing].state = "QUEUED",
                                         ![e.routing].consumer = NoSubscriber,
                                         ![e.routing].settled = FALSE]
              /\ ScheduleDispatch(Take(e), nextSeq)
          BY <1>9, <3>1 DEF OnRetry
        <4>2. records' \in [Routings -> Record] /\ RoutingOK'
          BY <2>1, <3>1, <4>1 DEF TypeInv, TypeOK, RoutingOK, Record, RecordState
        <4> QED
          BY <1>0, <4>1, <4>2, ScheduleDispatchType DEF TypeInv, TypeOK
      <3>2. CASE records[e.routing].state # "RETRY"
        BY <1>0, <1>9, <3>2 DEF OnRetry, TypeInv, TypeOK, RoutingOK
      <3> QED
        BY <3>1, <3>2
    <2> QED
      BY <1>0, <1>9, <2>2, BoundaryType DEF OnRetry, TypeInv, TypeOK, runVars
  <1>10. CASE Lifecycle(e)
    <2>1. e.component \in Components /\ e.next \in ServiceState
      BY <1>0, <1>10, EventFields DEF Lifecycle
    <2>2. agenda' \subseteq Event /\ nextSeq' \in Nat /\ dispatchPending' \in BOOLEAN
      <3>1. CASE agenda' = Take(e) /\ UNCHANGED <<dispatchPending, nextSeq>>
        BY <1>0, <3>1 DEF TypeInv, TypeOK
      <3>2. CASE \E base \in SUBSET Take(e) : ConsumerChanged(e.component, base)
        <4>1. PICK base \in SUBSET Take(e) : ConsumerChanged(e.component, base)
          BY <3>2
        <4>2. CASE ScheduleDispatch(base, nextSeq)
          BY <1>0, <4>2, ScheduleDispatchType DEF TypeInv, TypeOK
        <4>3. CASE agenda' = base /\ UNCHANGED <<dispatchPending, nextSeq>>
          BY <1>0, <4>3 DEF TypeInv, TypeOK
        <4> QED
          BY <4>1, <4>2, <4>3 DEF ConsumerChanged
      <3> QED
        BY <1>10, <3>1, <3>2 DEF Lifecycle
    <2>3. /\ lifecycle' \in [Components -> ServiceState] /\ generation' \in [Components -> Nat]
          /\ pubs' \in [Publications -> PubStatus] /\ tasks' \subseteq Copy
      BY <1>10, <2>1 DEF Lifecycle, TypeInv, TypeOK, runVars, PubStatus
    <2>4. status' \in {"RUNNING", "COMPLETED", "DEADLOCK", "FAILED"}
      BY <1>10, BoundaryType DEF Lifecycle, TypeInv, TypeOK
    <2> QED
      BY <1>0, <1>10, <2>2, <2>3, <2>4 DEF Lifecycle, TypeInv, TypeOK, RoutingOK, busVars
  <1>11. CASE Control(e)
    <2>1. e.component \in Components /\ e.next \in ServiceState
      BY <1>0, <1>11, EventFields DEF Control
    <2>2. agenda' \subseteq Event /\ nextSeq' \in Nat
      BY <1>0, <1>11, <2>1, EventConstructors DEF Control
    <2> QED
      BY <1>0, <1>11, <2>2, BoundaryType DEF Control, TypeInv, TypeOK, RoutingOK, busVars, runVars
  <1> QED
    BY <1>0, <1>1, <1>2, <1>3, <1>4, <1>5, <1>6, <1>7, <1>8, <1>9, <1>10, <1>11 DEF Handle

\* Every step, dispatch or iteration of the reservation loop, keeps the types.
LEMMA NextTypeInv == TypeInv /\ [Next]_vars => TypeInv'
  <1>1. ASSUME TypeInv, Next PROVE TypeInv'
    BY <1>1, DispatchType, ReserveNextType DEF Next
  <1>2. ASSUME TypeInv, UNCHANGED vars PROVE TypeInv'
    BY <1>2 DEF TypeInv, TypeOK, RoutingOK, vars, busVars, runVars
  <1> QED
    BY <1>1, <1>2

THEOREM TypeInvariant == Spec => []TypeInv
  BY InitTypeInv, NextTypeInv, PTL DEF Spec

\* Type correctness of the bus in every run: no handler writes an event, a
\* record or a reservation that names something that does not exist.
THEOREM TypeCorrectness == Spec => []TypeOK
  BY TypeInvariant, PTL DEF TypeInv

-----------------------------------------------------------------------------
(* No lost wake-up.  NoStrandedBacklog is inductive relative to TypeInv:    *)
(* a handler either ends in #scheduleDispatch or leaves what can be         *)
(* reserved as it was, and only #onDispatch consumes the dispatch event.    *)

\* A set of events agrees with the agenda on the dispatch events.
SameDispatches(S) == \A f \in S \cup agenda : f.type = "dispatch" => (f \in S <=> f \in agenda)

\* A handler that ends in #scheduleDispatch.
LEMMA ScheduledIfNeeded ==
    ASSUME NoStrandedBacklog, NEW base, NEW n, SameDispatches(base), ScheduleDispatch(base, n)
    PROVE  NoStrandedBacklog'
  <1>1. dispatchPending <=> \E e \in base : e.type = "dispatch"
    BY DEF NoStrandedBacklog, SameDispatches
  <1>2. \A e, f \in base : e.type = "dispatch" /\ f.type = "dispatch" => e = f
    BY DEF NoStrandedBacklog, SameDispatches
  <1>3. CASE ~dispatchPending /\ SomeReservable'
    <2>1. dispatchPending' = TRUE /\ agenda' = base \cup {DispatchEvent(now', n)}
      BY <1>3 DEF ScheduleDispatch
    <2>2. DispatchEvent(now', n).type = "dispatch"
      BY DEF DispatchEvent
    <2> QED
      BY <1>1, <1>3, <2>1, <2>2 DEF NoStrandedBacklog
  <1>4. CASE ~(~dispatchPending /\ SomeReservable')
    <2>1. dispatchPending' = dispatchPending /\ agenda' = base
      BY <1>4 DEF ScheduleDispatch
    <2> QED
      BY <1>1, <1>2, <1>4, <2>1 DEF NoStrandedBacklog
  <1> QED
    BY <1>3, <1>4

\* A handler that does not, and makes nothing reservable.
LEMMA NothingToSchedule ==
    ASSUME NoStrandedBacklog, SameDispatches(agenda'), dispatchPending' = dispatchPending,
           draining' = draining, SomeReservable' => SomeReservable
    PROVE  NoStrandedBacklog'
  BY DEF NoStrandedBacklog, SameDispatches

\* What can be reserved depends on these variables only.
LEMMA SameBacklog ==
    ASSUME UNCHANGED <<records, reserved, lifecycle>>
    PROVE  SomeReservable' = SomeReservable
  BY DEF SomeReservable, CanReserve, Candidates, Free, Ready

\* Removing other events than dispatches, and adding others, agrees.
LEMMA OtherEvents ==
    ASSUME NEW e \in agenda, e.type # "dispatch", NEW S, \A f \in S : f.type # "dispatch",
           NEW D, \A f \in D : f.type # "dispatch"
    PROVE  /\ SameDispatches(Take(e)) /\ SameDispatches(Take(e) \cup S)
           /\ SameDispatches(Take(e) \ D) /\ SameDispatches((Take(e) \ D) \cup S)
  BY DEF SameDispatches, Take

LEMMA TimerTypes ==
    ASSUME NEW r
    PROVE  /\ \A f \in Deadlines(r) : f.type # "dispatch"
           /\ \A t, n : RetryEvent(t, n, r).type # "dispatch"
  BY DEF Deadlines, IsTimeout, RetryEvent

LEMMA FailAttemptBacklog ==
    ASSUME NoStrandedBacklog, NEW e \in agenda, e.type # "dispatch", NEW r, NEW reason, NEW base,
           base \in {Take(e), Take(e) \ Deadlines(r)}, FailAttempt(r, reason, base)
    PROVE  NoStrandedBacklog'
  <1> DEFINE retry == RetryEvent(now' + RetryDelay[DestinationOf(r)], nextSeq, r)
  <1>1. SameDispatches(base) /\ SameDispatches(base \cup {retry})
    <2>1. \A f \in {retry} : f.type # "dispatch"
      BY TimerTypes
    <2> HIDE DEF retry
    <2>2. \A f \in Deadlines(r) : f.type # "dispatch"
      BY TimerTypes
    <2> QED
      BY <2>1, <2>2, OtherEvents
  <1>2. \/ ScheduleDispatch(base, nextSeq)
        \/ ScheduleDispatch(base \cup {retry}, nextSeq + 1)
    BY DEF FailAttempt
  <1> QED
    BY <1>1, <1>2, ScheduledIfNeeded

LEMMA AcknowledgeBacklog ==
    ASSUME NoStrandedBacklog, NEW e \in agenda, e.type # "dispatch", NEW copy, NEW outcome,
           Acknowledge(copy, outcome, Take(e)), UNCHANGED <<lifecycle, draining>>
    PROVE  NoStrandedBacklog'
  <1> DEFINE r == copy.routing
  <1>0. SameDispatches(Take(e)) /\ SameDispatches(Take(e) \ Deadlines(r))
    <2>1. \A f \in Deadlines(r) : f.type # "dispatch"
      BY TimerTypes
    <2> QED
      BY <2>1, OtherEvents
  <1>1. \/ ScheduleDispatch(Take(e) \ Deadlines(r), nextSeq)
        \/ FailAttempt(r, "nack", Take(e) \ Deadlines(r))
        \/ UNCHANGED <<records, reserved, dispatchPending>> /\ agenda' = Take(e)
    BY DEF Acknowledge
  <1>2. CASE ScheduleDispatch(Take(e) \ Deadlines(r), nextSeq)
    BY <1>0, <1>2, ScheduledIfNeeded
  <1>3. CASE FailAttempt(r, "nack", Take(e) \ Deadlines(r))
    BY <1>3, FailAttemptBacklog
  <1>4. CASE UNCHANGED <<records, reserved, dispatchPending>> /\ agenda' = Take(e)
    BY <1>0, <1>4, NothingToSchedule, SameBacklog
  <1> QED
    BY <1>1, <1>2, <1>3, <1>4

LEMMA DispatchBacklog ==
    ASSUME TypeInv, NoStrandedBacklog, NEW e \in agenda, Dispatch(e)
    PROVE  NoStrandedBacklog'
  <1>0. ~draining /\ Handle(e)
    BY DEF Dispatch
  <1>1. CASE Publish(e)
    <2>1. UNCHANGED <<records, reserved, lifecycle, dispatchPending, draining>>
      BY <1>1 DEF Publish, busVars
    <2>2. e.type # "dispatch" /\ \A f \in {AdmissionEvent(now', nextSeq, e.pub)} : f.type # "dispatch"
      BY <1>1 DEF Publish, AdmissionEvent
    <2>3. SameDispatches(agenda')
      <3> DEFINE S == {AdmissionEvent(now', nextSeq, e.pub)}
      <3>1. agenda' = Take(e) \/ agenda' = Take(e) \cup S
        BY <1>1 DEF Publish
      <3> HIDE DEF S
      <3>2. SameDispatches(Take(e)) /\ SameDispatches(Take(e) \cup S)
        BY <2>2, OtherEvents DEF S
      <3> QED
        BY <3>1, <3>2
    <2> QED
      BY <2>1, <2>3, NothingToSchedule, SameBacklog
  <1>2. CASE Reject(e)
    <2>1. UNCHANGED <<records, reserved, lifecycle, dispatchPending, draining>>
      BY <1>2 DEF Reject, busVars
    <2>2. e.type # "dispatch" /\ \A f \in FollowUp(e.pub, nextSeq) : f.type # "dispatch"
      BY <1>2 DEF Reject, FollowUp, AdmissionEvent
    <2>3. SameDispatches(agenda')
      <3>1. agenda' = Take(e) \cup FollowUp(e.pub, nextSeq)
        BY <1>2, Zenon DEF Reject
      <3>2. SameDispatches(Take(e) \cup FollowUp(e.pub, nextSeq))
        BY <2>2, OtherEvents
      <3> QED
        BY <3>1, <3>2
    <2> QED
      BY <2>1, <2>3, NothingToSchedule, SameBacklog
  <1>3. CASE Admit(e)
    <2>1. ScheduleDispatch(Take(e) \cup FollowUp(e.pub, nextSeq), AfterFollowUp(e.pub, nextSeq))
      BY <1>3, Zenon DEF Admit
    <2>2. e.type # "dispatch" /\ \A f \in FollowUp(e.pub, nextSeq) : f.type # "dispatch"
      BY <1>3 DEF Admit, FollowUp, AdmissionEvent
    <2>3. SameDispatches(Take(e) \cup FollowUp(e.pub, nextSeq))
      BY <2>2, OtherEvents
    <2> QED
      BY <2>1, <2>3, ScheduledIfNeeded
  <1>4. CASE OnDispatch(e)
    <2>1. /\ e.type = "dispatch" /\ dispatchPending' = FALSE /\ agenda' = Take(e)
          /\ draining' = SomeReservable /\ SomeReservable' = SomeReservable
      BY <1>4, SameBacklog DEF OnDispatch, busVars, runVars
    <2>2. \A f \in agenda' : f.type # "dispatch"
      BY <2>1 DEF NoStrandedBacklog, Take
    <2> QED
      BY <2>1, <2>2 DEF NoStrandedBacklog
  <1>5. CASE Arrive(e)
    <2> DEFINE r == e.copy.routing
               work == {ConsumerEvent(now', nextSeq, e.copy, generation[e.copy.consumer])}
    <2>0. e.type # "dispatch" /\ UNCHANGED <<lifecycle, draining>> /\ \A f \in work : f.type # "dispatch"
      BY <1>5 DEF Arrive, runVars, ConsumerEvent
    <2>1. \/ FailAttempt(r, "unavailable", Take(e) \ Deadlines(r))
          \/ /\ UNCHANGED <<records, reserved, dispatchPending>>
             /\ agenda' \in {Take(e), Take(e) \cup work}
      BY <1>5 DEF Arrive
    <2> HIDE DEF work
    <2>2. CASE FailAttempt(r, "unavailable", Take(e) \ Deadlines(r))
      BY <2>0, <2>2, FailAttemptBacklog
    <2>3. CASE /\ UNCHANGED <<records, reserved, dispatchPending>>
               /\ agenda' \in {Take(e), Take(e) \cup work}
      <3>1. SameDispatches(Take(e)) /\ SameDispatches(Take(e) \cup work)
        BY <2>0, OtherEvents
      <3>2. SameDispatches(agenda')
        BY <2>3, <3>1
      <3> QED
        BY <2>0, <2>3, <3>2, NothingToSchedule, SameBacklog
    <2> QED
      BY <2>1, <2>2, <2>3
  <1>6. CASE Consume(e)
    <2>0. e.type # "dispatch" /\ UNCHANGED <<lifecycle, draining>>
      BY <1>6 DEF Consume
    <2>1. \/ \E outcome : Acknowledge(e.copy, outcome, Take(e))
          \/ /\ UNCHANGED <<records, reserved, dispatchPending>>
             /\ \/ agenda' = Take(e)
                \/ \E delay \in Sleeps : agenda' = Take(e) \cup {WakeEvent(now' + delay, nextSeq, e.copy)}
      BY <1>6 DEF Consume, busVars
    <2>2. CASE \E outcome : Acknowledge(e.copy, outcome, Take(e))
      BY <2>0, <2>2, AcknowledgeBacklog
    <2>3. CASE /\ UNCHANGED <<records, reserved, dispatchPending>>
               /\ \/ agenda' = Take(e)
                  \/ \E delay \in Sleeps : agenda' = Take(e) \cup {WakeEvent(now' + delay, nextSeq, e.copy)}
      <3>1. \A delay : \A f \in {WakeEvent(now' + delay, nextSeq, e.copy)} : f.type # "dispatch"
        BY DEF WakeEvent
      <3>3. /\ SameDispatches(Take(e))
            /\ \A delay : SameDispatches(Take(e) \cup {WakeEvent(now' + delay, nextSeq, e.copy)})
        BY <2>0, <3>1, OtherEvents
      <3>2. SameDispatches(agenda')
        BY <2>3, <3>3
      <3> QED
        BY <2>0, <2>3, <3>2, NothingToSchedule, SameBacklog
    <2> QED
      BY <2>1, <2>2, <2>3
  <1>7. CASE Wake(e)
    <2>0. e.type # "dispatch" /\ UNCHANGED <<lifecycle, draining>>
      BY <1>7 DEF Wake
    <2>1. \/ \E outcome : Acknowledge(e.copy, outcome, Take(e))
          \/ UNCHANGED <<records, reserved, dispatchPending>> /\ agenda' = Take(e)
      BY <1>7 DEF Wake, busVars
    <2>2. SameDispatches(Take(e))
      BY <2>0, OtherEvents
    <2> QED
      BY <2>0, <2>1, <2>2, AcknowledgeBacklog, NothingToSchedule, SameBacklog
  <1>8. CASE OnTimeout(e)
    <2>0. e.type # "dispatch" /\ UNCHANGED <<lifecycle, draining>>
      BY <1>8 DEF OnTimeout, runVars
    <2>1. \/ FailAttempt(e.routing, "timeout", Take(e))
          \/ UNCHANGED <<records, reserved, dispatchPending>> /\ agenda' = Take(e)
      BY <1>8 DEF OnTimeout
    <2>2. SameDispatches(Take(e))
      BY <2>0, OtherEvents
    <2> QED
      BY <2>0, <2>1, <2>2, FailAttemptBacklog, NothingToSchedule, SameBacklog
  <1>9. CASE OnRetry(e)
    <2>0. e.type # "dispatch" /\ UNCHANGED <<lifecycle, draining, reserved>>
      BY <1>9 DEF OnRetry, runVars
    <2>1. \/ ScheduleDispatch(Take(e), nextSeq)
          \/ UNCHANGED <<records, dispatchPending>> /\ agenda' = Take(e)
      BY <1>9 DEF OnRetry
    <2>2. SameDispatches(Take(e))
      BY <2>0, OtherEvents
    <2> QED
      BY <2>0, <2>1, <2>2, ScheduledIfNeeded, NothingToSchedule, SameBacklog
  <1>10. CASE Lifecycle(e)
    <2> DEFINE wakes == WakesOf(e.component)
    <2>0. e.type # "dispatch" /\ UNCHANGED <<records, reserved, draining>>
      BY <1>10 DEF Lifecycle, busVars
    <2>1. \/ UNCHANGED <<lifecycle, dispatchPending>> /\ agenda' = Take(e)
          \/ /\ lifecycle' = [lifecycle EXCEPT ![e.component] = e.next]
             /\ \E base \in {Take(e), Take(e) \ wakes} : ConsumerChanged(e.component, base)
      BY <1>10 DEF Lifecycle, runVars
    <2>2. SameDispatches(Take(e)) /\ SameDispatches(Take(e) \ wakes)
      <3>1. \A f \in wakes : f.type # "dispatch"
        BY DEF WakesOf
      <3> QED
        BY <2>0, <3>1, OtherEvents
    <2> HIDE DEF wakes
    <2>3. CASE UNCHANGED <<lifecycle, dispatchPending>> /\ agenda' = Take(e)
      BY <2>0, <2>2, <2>3, NothingToSchedule, SameBacklog
    <2>4. ASSUME NEW base \in {Take(e), Take(e) \ wakes}, ConsumerChanged(e.component, base),
                 lifecycle' = [lifecycle EXCEPT ![e.component] = e.next]
          PROVE  NoStrandedBacklog'
      <3>1. SameDispatches(base)
        BY <2>2
      <3>2. CASE \E d \in Destinations : e.component \in SubscriberSet(d)
        BY <2>4, <3>1, <3>2, ScheduledIfNeeded DEF ConsumerChanged
      <3>3. CASE ~\E d \in Destinations : e.component \in SubscriberSet(d)
        <4>1. agenda' = base /\ dispatchPending' = dispatchPending
          BY <2>4, <3>3 DEF ConsumerChanged
        <4>2. ASSUME NEW r \in Routings PROVE Candidates(r)' = Candidates(r)
          <5>1. e.component \notin SubscriberSet(DestinationOf(r))
            BY <3>3, RoutingFacts
          <5>2. SubscriberSet(DestinationOf(r)) \subseteq Components
            BY RoutingFacts
          <5> QED
            BY <2>0, <2>4, <5>1, <5>2 DEF Candidates, Free, Ready, TypeInv, TypeOK
        <4>3. SomeReservable' => SomeReservable
          BY <2>0, <4>2 DEF SomeReservable, CanReserve
        <4> QED
          BY <2>0, <3>1, <4>1, <4>3, NothingToSchedule
      <3> QED
        BY <3>2, <3>3
    <2> QED
      BY <2>1, <2>3, <2>4
  <1>11. CASE Control(e)
    <2> DEFINE S == {LifecycleEvent(now', nextSeq, e.component, e.next)}
    <2>1. /\ UNCHANGED <<records, reserved, lifecycle, dispatchPending, draining>>
          /\ e.type # "dispatch" /\ agenda' = Take(e) \cup S
      BY <1>11 DEF Control, busVars, runVars
    <2>2. \A f \in S : f.type # "dispatch"
      BY DEF LifecycleEvent
    <2> HIDE DEF S
    <2>3. SameDispatches(agenda')
      BY <2>1, <2>2, OtherEvents
    <2> QED
      BY <2>1, <2>3, NothingToSchedule, SameBacklog
  <1> QED
    BY <1>0, <1>1, <1>2, <1>3, <1>4, <1>5, <1>6, <1>7, <1>8, <1>9, <1>10, <1>11 DEF Handle

\* No iteration of the loop schedules a dispatch; the last one leaves nothing
\* to reserve.
LEMMA ReserveNextBacklog ==
    ASSUME NoStrandedBacklog, ReserveNext PROVE NoStrandedBacklog'
  <1>1. dispatchPending' = dispatchPending /\ draining' = SomeReservable'
    BY DEF ReserveNext
  <1>2. \E S : (\A f \in S : f.type # "dispatch") /\ agenda' = agenda \cup S
    <2>1. PICK r, c, f : Reserve(r, c, f)
      BY DEF ReserveNext
    <2> DEFINE copies == IF f.drop THEN 1 ELSE 1 + f.additionalCopies
               arrival == now + DeliveryDelay[DestinationOf(r)] + f.extraDelay
               CopyOf(i) == [routing |-> r, attempt |-> records[r].attempt + 1, index |-> i,
                             consumer |-> c, dropped |-> f.drop]
               S == {TimeoutEvent(arrival + AckTimeout[DestinationOf(r)], nextSeq, r, records[r].attempt + 1)}
                    \cup {ArrivalEvent(arrival + i * f.copySpacing, nextSeq + 1 + i, CopyOf(i)) :
                             i \in 0..(copies - 1)}
    <2>2. agenda' = agenda \cup S
      BY <2>1 DEF Reserve
    <2>3. \A x \in S : x.type # "dispatch"
      BY DEF TimeoutEvent, ArrivalEvent
    <2> QED
      BY <2>2, <2>3
  <1> QED
    BY <1>1, <1>2 DEF NoStrandedBacklog

\* Whenever a queued record has a free, ready consumer, a dispatch event is
\* pending, exactly one, or the broker is in the loop that will serve it.
THEOREM NoLostWakeUp == Spec => []NoStrandedBacklog
  <1>1. Init => NoStrandedBacklog
    <2> SUFFICES ASSUME Init PROVE NoStrandedBacklog
      OBVIOUS
    <2>1. \A r \in Routings : records[r].state = "ABSENT"
      BY DEF Init, Unattempted
    <2>2. ~SomeReservable
      BY <2>1 DEF SomeReservable, CanReserve
    <2>3. \A f \in agenda : f.type # "dispatch"
      <3>1. PICK s \in Scripts : agenda = {ScriptEvent(s[i], i - 1) : i \in DOMAIN s}
        BY DEF Init
      <3>2. s \in Seq(Step)
        BY ScriptsAssumption
      <3>3. \A i \in DOMAIN s : s[i] \in Step
        BY <3>2
      <3> QED
        BY <3>1, <3>3 DEF ScriptEvent, Step, PublishEvent, LifecycleEvent, ControlEvent
    <2> QED
      BY <2>2, <2>3 DEF Init, NoStrandedBacklog
  <1>2. TypeInv /\ NoStrandedBacklog /\ [Next]_vars => NoStrandedBacklog'
    <2>1. ASSUME TypeInv, NoStrandedBacklog, Next PROVE NoStrandedBacklog'
      BY <2>1, DispatchBacklog, ReserveNextBacklog DEF Next
    <2>2. ASSUME NoStrandedBacklog, UNCHANGED vars PROVE NoStrandedBacklog'
      BY <2>2, SameBacklog DEF NoStrandedBacklog, vars, busVars, runVars
    <2> QED
      BY <2>1, <2>2
  <1> QED
    BY <1>1, <1>2, TypeInvariant, PTL DEF Spec

-----------------------------------------------------------------------------
(* The inductive invariant                                                  *)

Times(e)     == e.type \in {"timeout", "retry"}
Carries(e)   == e.type \in {"arrival", "consumer", "wake"}
Announces(e) == e.type \in {"publish", "admission"}

Timers(S)        == {e \in S : Times(e)}
Carriers(S)      == {e \in S : Carries(e)}
Announcements(S) == {e \in S : Announces(e)}

\* No record of a publication exists.
Absent(p) == \A r \in Routings : r[1] = p => records[r].state = "ABSENT"

\* Attempts start with a reservation and are left while another is possible.
AttemptsMatch ==
    \A r \in Routings :
        /\ records[r].state = "ABSENT" => records[r].attempt = 0
        /\ records[r].attempt = 0 => records[r].state \in {"ABSENT", "QUEUED"}
        /\ records[r].state \in {"QUEUED", "RETRY"} => records[r].attempt < MaxAttempts[DestinationOf(r)]
        /\ records[r].state = "IN_FLIGHT" => ~records[r].settled

\* A publication is announced once, by its step or by the one it follows, and
\* has no records before its admission; whoever waits for one gets an answer.
PublishedOnce ==
    /\ \A e, f \in Announcements(agenda) : e.pub = f.pub => e = f
    /\ \A e \in agenda : e.type = "publish" =>
          pubs[e.pub] = "idle" /\ \A p \in Publications : e.pub \notin Follow[p]
    /\ \A e \in agenda : e.type = "admission" => pubs[e.pub] # "idle" /\ Absent(e.pub)
    /\ \A p \in Publications : pubs[p] = "idle" => Absent(p)
    /\ \A p \in Publications : \A f \in Follow[p] : pubs[p] \in {"idle", "waiting"} => pubs[f] = "idle"
    /\ \A p \in Publications : pubs[p] = "waiting" => \E e \in agenda : e.type = "admission" /\ e.pub = p

BooksInv == BooksMatch /\ AttemptsMatch /\ PublishedOnce

-----------------------------------------------------------------------------
(* What a handler does to the records, their reservations, their timers and *)
(* the dead letters                                                         *)

QuietBook == /\ UNCHANGED <<records, reserved, dead>>
             /\ Timers(agenda') = Timers(agenda)

AdmitBook(p) ==
    /\ Absent(p)
    /\ \A r \in Routings : r \notin Created(p) => records'[r] = records[r]
    /\ \A r \in Created(p) \cap Routings : records'[r].state = "QUEUED" /\ records'[r].attempt = 0
    /\ UNCHANGED <<reserved, dead>>
    /\ Timers(agenda') = Timers(agenda)

ReserveBook(r, c) ==
    /\ records[r].state = "QUEUED" /\ <<DestinationOf(r), c>> \notin reserved
    /\ records' = [records EXCEPT ![r].attempt = records[r].attempt + 1, ![r].settled = FALSE,
                                  ![r].state = "IN_FLIGHT", ![r].consumer = c]
    /\ reserved' = reserved \cup {<<DestinationOf(r), c>>}
    /\ UNCHANGED dead
    /\ \E t, n : Timers(agenda') = Timers(agenda) \cup {TimeoutEvent(t, n, r, records[r].attempt + 1)}

AckBook(r) ==
    /\ records[r].state = "IN_FLIGHT"
    /\ records' = [records EXCEPT ![r].settled = TRUE, ![r].state = "ACKED"]
    /\ reserved' = reserved \ {<<DestinationOf(r), records[r].consumer>>}
    /\ UNCHANGED dead
    /\ Timers(agenda') = Timers(agenda) \ Deadlines(r)

DeadBook(r) ==
    /\ records[r].state = "IN_FLIGHT" /\ records[r].attempt >= MaxAttempts[DestinationOf(r)]
    /\ records' = [records EXCEPT ![r].settled = TRUE, ![r].state = "DEAD"]
    /\ reserved' = reserved \ {<<DestinationOf(r), records[r].consumer>>}
    /\ \E reason : dead' = dead \cup {[routing |-> r, attempts |-> records[r].attempt, reason |-> reason]}
    /\ Timers(agenda') = Timers(agenda) \ Deadlines(r)

RetryBook(r) ==
    /\ records[r].state = "IN_FLIGHT" /\ records[r].attempt < MaxAttempts[DestinationOf(r)]
    /\ records' = [records EXCEPT ![r].settled = TRUE, ![r].state = "RETRY"]
    /\ reserved' = reserved \ {<<DestinationOf(r), records[r].consumer>>}
    /\ UNCHANGED dead
    /\ \E t, n : Timers(agenda') = (Timers(agenda) \ Deadlines(r)) \cup {RetryEvent(t, n, r)}

RequeueBook(r) ==
    /\ records[r].state = "RETRY"
    /\ records' = [records EXCEPT ![r].state = "QUEUED", ![r].consumer = NoSubscriber, ![r].settled = FALSE]
    /\ UNCHANGED <<reserved, dead>>
    /\ Timers(agenda') = {e \in Timers(agenda) : ~(e.type = "retry" /\ e.routing = r)}

\* The effects of a handler, and of an iteration of the loop.
HandlerBook == \/ QuietBook
               \/ \E p \in Publications : AdmitBook(p)
               \/ \E r \in Routings : AckBook(r) \/ DeadBook(r) \/ RetryBook(r) \/ RequeueBook(r)

\* The effect of the handler of e.
EffectOf(e) == \/ QuietBook
               \/ e.type = "admission" /\ e.pub \in Publications /\ AdmitBook(e.pub)
               \/ \E r \in Routings : AckBook(r) \/ DeadBook(r) \/ RetryBook(r) \/ RequeueBook(r)

LoopBook == \E r \in Routings : \E c \in SubscriberSet(DestinationOf(r)) : ReserveBook(r, c)

BookStep == HandlerBook \/ LoopBook

\* #scheduleDispatch adds at most a dispatch event.
LEMMA ScheduleAdds ==
    ASSUME NEW base, NEW n, ScheduleDispatch(base, n)
    PROVE  /\ Timers(agenda') = Timers(base)
           /\ Carriers(agenda') = Carriers(base)
           /\ Announcements(agenda') = Announcements(base)
           /\ \/ agenda' = base /\ nextSeq' = n
              \/ agenda' = base \cup {DispatchEvent(now', n)} /\ nextSeq' = n + 1
  BY DEF ScheduleDispatch, DispatchEvent, Timers, Carriers, Announcements, Times, Carries, Announces

\* #fail ends the attempt in flight, with its deadline, in one of two ways.
LEMMA FailBook ==
    ASSUME TypeInv, NEW r \in Routings, NEW reason, NEW base, records[r].state = "IN_FLIGHT",
           FailAttempt(r, reason, base), Timers(base) = Timers(agenda) \ Deadlines(r)
    PROVE  DeadBook(r) \/ RetryBook(r)
  <1> DEFINE retry == RetryEvent(now' + RetryDelay[DestinationOf(r)], nextSeq, r)
  <1>0. records[r].attempt \in Nat /\ MaxAttempts[DestinationOf(r)] \in Nat
    BY RoutingFacts, DestinationsAssumption DEF TypeInv, TypeOK, Record
  <1>1. CASE records[r].attempt >= MaxAttempts[DestinationOf(r)]
    <2>1. Timers(agenda') = Timers(base)
      BY <1>1, ScheduleAdds DEF FailAttempt
    <2>2. /\ records' = [records EXCEPT ![r].settled = TRUE, ![r].state = "DEAD"]
          /\ reserved' = reserved \ {<<DestinationOf(r), records[r].consumer>>}
          /\ dead' = dead \cup {[routing |-> r, attempts |-> records[r].attempt, reason |-> reason]}
      BY <1>1 DEF FailAttempt
    <2> QED
      BY <1>1, <2>1, <2>2 DEF DeadBook
  <1>2. CASE ~(records[r].attempt >= MaxAttempts[DestinationOf(r)])
    <2>1. Timers(agenda') = Timers(base \cup {retry})
      BY <1>2, ScheduleAdds DEF FailAttempt
    <2>2. Timers(base \cup {retry}) = Timers(base) \cup {retry}
      <3>1. retry.type = "retry"
        BY DEF RetryEvent
      <3> HIDE DEF retry
      <3> QED
        BY <3>1 DEF Timers, Times
    <2>3. /\ records' = [records EXCEPT ![r].settled = TRUE, ![r].state = "RETRY"]
          /\ reserved' = reserved \ {<<DestinationOf(r), records[r].consumer>>}
          /\ dead' = dead
      BY <1>2 DEF FailAttempt
    <2>4. \E t, n : Timers(agenda') = (Timers(agenda) \ Deadlines(r)) \cup {RetryEvent(t, n, r)}
      BY <2>1, <2>2
    <2>5. records[r].attempt < MaxAttempts[DestinationOf(r)]
      BY <1>0, <1>2
    <2> QED
      BY <2>3, <2>4, <2>5 DEF RetryBook
  <1> QED
    BY <1>1, <1>2

\* Timers that a handler neither takes nor adds.
LEMMA TakeTimers ==
    ASSUME NEW e, ~Times(e), NEW r
    PROVE  /\ Timers(Take(e)) = Timers(agenda)
           /\ Timers(Take(e) \ Deadlines(r)) = Timers(agenda) \ Deadlines(r)
           /\ \A x : ~Times(x) => Timers(Take(e) \cup {x}) = Timers(agenda)
           /\ \A S : (\A x \in S : ~Times(x)) => Timers(Take(e) \cup S) = Timers(agenda)
           /\ \A S : (\A x \in S : ~Times(x)) => Timers(Take(e) \ S) = Timers(agenda)
  BY DEF Timers, Take

LEMMA AcknowledgeBook ==
    ASSUME TypeInv, NEW e \in agenda, ~Times(e), NEW copy \in Copy, NEW outcome,
           Acknowledge(copy, outcome, Take(e))
    PROVE  EffectOf(e)
  <1> DEFINE r == copy.routing
             live == copy \in delivered /\ ~copy.dropped /\ Open(copy)
  <1>0. r \in Routings
    BY DEF Copy
  <1>1. CASE live /\ outcome = "ack"
    <2>1. /\ records' = [records EXCEPT ![r].settled = TRUE, ![r].state = "ACKED"]
          /\ reserved' = reserved \ {<<DestinationOf(r), records[r].consumer>>} /\ dead' = dead
          /\ ScheduleDispatch(Take(e) \ Deadlines(r), nextSeq)
      BY <1>1 DEF Acknowledge
    <2>2. Timers(agenda') = Timers(agenda) \ Deadlines(r)
      BY <2>1, TakeTimers, ScheduleAdds
    <2> QED
      BY <1>0, <1>1, <2>1, <2>2 DEF EffectOf, AckBook, Open
  <1>2. CASE live /\ outcome = "nack"
    <2>1. FailAttempt(r, "nack", Take(e) \ Deadlines(r)) /\ records[r].state = "IN_FLIGHT"
      BY <1>2 DEF Acknowledge, Open
    <2> QED
      BY <1>0, <2>1, TakeTimers, FailBook DEF EffectOf
  <1>3. CASE ~live
    <2>1. UNCHANGED <<records, reserved, dead>> /\ agenda' = Take(e)
      BY <1>3 DEF Acknowledge
    <2> QED
      BY <2>1, TakeTimers DEF EffectOf, QuietBook
  <1> QED
    BY <1>1, <1>2, <1>3 DEF Acknowledge

\* Every handler has one of the effects above.
LEMMA DispatchEffect ==
    ASSUME TypeInv, BooksInv, NEW e \in agenda, Dispatch(e)
    PROVE  EffectOf(e)
  <1>0. e \in Event /\ Handle(e)
    BY TakeFacts DEF Dispatch
  <1>1. CASE Publish(e)
    <2>1. ~Times(e) /\ UNCHANGED <<records, reserved, dead>>
      BY <1>1 DEF Publish, busVars, Times
    <2>2. agenda' = Take(e) \/ agenda' = Take(e) \cup {AdmissionEvent(now', nextSeq, e.pub)}
      BY <1>1 DEF Publish
    <2>3. ~Times(AdmissionEvent(now', nextSeq, e.pub))
      BY DEF AdmissionEvent, Times
    <2>4. Timers(Take(e)) = Timers(agenda) /\ Timers(Take(e) \cup {AdmissionEvent(now', nextSeq, e.pub)}) = Timers(agenda)
      BY <2>1, <2>3, TakeTimers
    <2> QED
      BY <2>1, <2>2, <2>4 DEF EffectOf, QuietBook
  <1>2. CASE Reject(e)
    <2>1. ~Times(e) /\ UNCHANGED <<records, reserved, dead>> /\ agenda' = Take(e) \cup FollowUp(e.pub, nextSeq)
      BY <1>2 DEF Reject, busVars, Times
    <2>2. \A x \in FollowUp(e.pub, nextSeq) : ~Times(x)
      BY DEF FollowUp, AdmissionEvent, Times
    <2>3. Timers(agenda') = Timers(agenda)
      BY <2>1, <2>2, TakeTimers
    <2> QED
      BY <2>1, <2>3 DEF EffectOf, QuietBook
  <1>3. CASE Admit(e)
    <2>1. e.type = "admission" /\ ~Times(e) /\ UNCHANGED <<reserved, dead>>
      BY <1>3 DEF Admit, Times
    <2>2. ScheduleDispatch(Take(e) \cup FollowUp(e.pub, nextSeq), AfterFollowUp(e.pub, nextSeq))
      BY <1>3, Zenon DEF Admit
    <2>3. records' = [r \in Routings |->
                        IF r \in Created(e.pub)
                        THEN Unattempted("QUEUED", nextOrder + Position(r))
                        ELSE records[r]]
      BY <1>3, Zenon DEF Admit
    <2>4. \A x \in FollowUp(e.pub, nextSeq) : ~Times(x)
      BY DEF FollowUp, AdmissionEvent, Times
    <2>5. Timers(agenda') = Timers(agenda)
      <3>1. Timers(agenda') = Timers(Take(e) \cup FollowUp(e.pub, nextSeq))
        BY <2>2, ScheduleAdds
      <3> QED
        BY <2>1, <2>4, <3>1, TakeTimers
    <2>6. e.pub \in Publications /\ Absent(e.pub)
      BY <1>0, <2>1, EventFields DEF BooksInv, PublishedOnce
    <2>7. /\ \A r \in Routings : r \notin Created(e.pub) => records'[r] = records[r]
          /\ \A r \in Created(e.pub) \cap Routings : records'[r].state = "QUEUED" /\ records'[r].attempt = 0
      BY <2>3 DEF Unattempted
    <2>8. AdmitBook(e.pub)
      BY <2>1, <2>5, <2>6, <2>7 DEF AdmitBook
    <2> QED
      BY <2>1, <2>6, <2>8 DEF EffectOf
  <1>4. CASE OnDispatch(e)
    <2>1. ~Times(e) /\ UNCHANGED <<records, reserved, dead>> /\ agenda' = Take(e)
      BY <1>4 DEF OnDispatch, busVars, Times
    <2> QED
      BY <2>1, TakeTimers DEF EffectOf, QuietBook
  <1>5. CASE Arrive(e)
    <2> DEFINE r    == e.copy.routing
               work == ConsumerEvent(now', nextSeq, e.copy, generation[e.copy.consumer])
    <2>1. ~Times(e) /\ r \in Routings
      BY <1>0, <1>5, EventFields DEF Arrive, Times, Copy
    <2>2. \/ /\ FailAttempt(r, "unavailable", Take(e) \ Deadlines(r))
             /\ records[r].state = "IN_FLIGHT"
          \/ /\ UNCHANGED <<records, reserved, dead>>
             /\ agenda' = Take(e) \/ agenda' = Take(e) \cup {work}
      BY <1>5 DEF Arrive, Open
    <2>3. ~Times(work)
      BY DEF ConsumerEvent, Times
    <2> HIDE DEF work
    <2>4. CASE FailAttempt(r, "unavailable", Take(e) \ Deadlines(r)) /\ records[r].state = "IN_FLIGHT"
      BY <2>1, <2>4, TakeTimers, FailBook DEF EffectOf
    <2>5. CASE UNCHANGED <<records, reserved, dead>> /\ (agenda' = Take(e) \/ agenda' = Take(e) \cup {work})
      <3>1. Timers(Take(e)) = Timers(agenda) /\ Timers(Take(e) \cup {work}) = Timers(agenda)
        BY <2>1, <2>3, TakeTimers
      <3> QED
        BY <2>5, <3>1 DEF EffectOf, QuietBook
    <2> QED
      BY <2>2, <2>4, <2>5
  <1>6. CASE Consume(e)
    <2>1. ~Times(e) /\ e.copy \in Copy
      BY <1>0, <1>6, EventFields DEF Consume, Times
    <2>2. \/ \E outcome : Acknowledge(e.copy, outcome, Take(e))
          \/ /\ UNCHANGED <<records, reserved, dead>>
             /\ \/ agenda' = Take(e)
                \/ \E delay \in Sleeps : agenda' = Take(e) \cup {WakeEvent(now' + delay, nextSeq, e.copy)}
      BY <1>6 DEF Consume, busVars
    <2>3. \A delay : ~Times(WakeEvent(now' + delay, nextSeq, e.copy))
      BY DEF WakeEvent, Times
    <2>4. CASE \E outcome : Acknowledge(e.copy, outcome, Take(e))
      BY <2>1, <2>4, AcknowledgeBook
    <2>5. CASE /\ UNCHANGED <<records, reserved, dead>>
               /\ \/ agenda' = Take(e)
                  \/ \E delay \in Sleeps : agenda' = Take(e) \cup {WakeEvent(now' + delay, nextSeq, e.copy)}
      <3>0. /\ Timers(Take(e)) = Timers(agenda)
            /\ \A delay : Timers(Take(e) \cup {WakeEvent(now' + delay, nextSeq, e.copy)}) = Timers(agenda)
        BY <2>1, <2>3, TakeTimers
      <3>1. Timers(agenda') = Timers(agenda)
        BY <2>5, <3>0
      <3> QED
        BY <2>5, <3>1 DEF EffectOf, QuietBook
    <2> QED
      BY <2>2, <2>4, <2>5
  <1>7. CASE Wake(e)
    <2>1. ~Times(e) /\ e.copy \in Copy
      BY <1>0, <1>7, EventFields DEF Wake, Times
    <2>2. \/ \E outcome : Acknowledge(e.copy, outcome, Take(e))
          \/ UNCHANGED <<records, reserved, dead>> /\ agenda' = Take(e)
      BY <1>7 DEF Wake, busVars
    <2> QED
      BY <2>1, <2>2, AcknowledgeBook, TakeTimers DEF EffectOf, QuietBook
  <1>8. CASE OnTimeout(e)
    <2> DEFINE r == e.routing
    <2>1. e.type = "timeout" /\ r \in Routings
      BY <1>0, <1>8, EventFields DEF OnTimeout
    <2>2. records[r].state = "IN_FLIGHT" /\ records[r].attempt = e.attempt /\ ~records[r].settled
      BY <2>1 DEF BooksInv, BooksMatch, TimersMatch, AttemptsMatch
    <2>3. FailAttempt(r, "timeout", Take(e))
      BY <1>8, <2>2 DEF OnTimeout
    <2>4. Timers(Take(e)) = Timers(agenda) \ Deadlines(r)
      <3>1. \A f \in agenda : f \in Deadlines(r) <=> f = e
        BY <2>1, <2>2 DEF Deadlines, IsTimeout, BooksInv, BooksMatch, TimersMatch
      <3> QED
        BY <3>1 DEF Timers, Take
    <2> QED
      BY <2>1, <2>2, <2>3, <2>4, FailBook DEF EffectOf
  <1>9. CASE OnRetry(e)
    <2> DEFINE r == e.routing
    <2>1. e.type = "retry" /\ r \in Routings
      BY <1>0, <1>9, EventFields DEF OnRetry
    <2>2. records[r].state = "RETRY"
      BY <2>1 DEF BooksInv, BooksMatch, TimersMatch
    <2>3. /\ records' = [records EXCEPT ![r].state = "QUEUED", ![r].consumer = NoSubscriber, ![r].settled = FALSE]
          /\ ScheduleDispatch(Take(e), nextSeq) /\ UNCHANGED <<reserved, dead>>
      BY <1>9, <2>2 DEF OnRetry
    <2>4. Timers(agenda') = {f \in Timers(agenda) : ~(f.type = "retry" /\ f.routing = r)}
      <3>1. \A f \in agenda : f.type = "retry" /\ f.routing = r <=> f = e
        BY <2>1 DEF BooksInv, BooksMatch, TimersMatch
      <3>2. Timers(agenda') = Timers(Take(e))
        BY <2>3, ScheduleAdds
      <3> QED
        BY <3>1, <3>2 DEF Timers, Take
    <2> QED
      BY <2>1, <2>2, <2>3, <2>4 DEF EffectOf, RequeueBook
  <1>10. CASE Lifecycle(e)
    <2> DEFINE wakes == WakesOf(e.component)
    <2>1. ~Times(e) /\ UNCHANGED <<records, reserved, dead>> /\ \A x \in wakes : ~Times(x)
      BY <1>10 DEF Lifecycle, busVars, Times, WakesOf
    <2>2. \/ agenda' = Take(e)
          \/ \E base \in {Take(e), Take(e) \ wakes} : ConsumerChanged(e.component, base)
      BY <1>10 DEF Lifecycle
    <2> HIDE DEF wakes
    <2>3. \A base \in {Take(e), Take(e) \ wakes} : Timers(base) = Timers(agenda)
      BY <2>1, TakeTimers
    <2>4. \A base : ConsumerChanged(e.component, base) => Timers(agenda') = Timers(base)
      BY ScheduleAdds DEF ConsumerChanged
    <2> QED
      BY <2>1, <2>2, <2>3, <2>4 DEF EffectOf, QuietBook
  <1>11. CASE Control(e)
    <2>1. ~Times(e) /\ UNCHANGED <<records, reserved, dead>>
      BY <1>11 DEF Control, busVars, Times
    <2>2. agenda' = Take(e) \cup {LifecycleEvent(now', nextSeq, e.component, e.next)}
      BY <1>11 DEF Control
    <2>3. ~Times(LifecycleEvent(now', nextSeq, e.component, e.next))
      BY DEF LifecycleEvent, Times
    <2>4. Timers(agenda') = Timers(agenda)
      BY <2>1, <2>2, <2>3, TakeTimers
    <2> QED
      BY <2>1, <2>4 DEF EffectOf, QuietBook
  <1> QED
    BY <1>0, <1>1, <1>2, <1>3, <1>4, <1>5, <1>6, <1>7, <1>8, <1>9, <1>10, <1>11 DEF Handle

LEMMA DispatchBook ==
    ASSUME TypeInv, BooksInv, NEW e \in agenda, Dispatch(e)
    PROVE  HandlerBook
  BY DispatchEffect DEF EffectOf, HandlerBook

\* An iteration of the loop reserves, for the oldest record that has one, a
\* consumer of its destination that was free.
LEMMA ReservePick ==
    ASSUME TypeInv, ReserveNext
    PROVE  \E r \in Routings : \E c \in SubscriberSet(DestinationOf(r)) : \E f \in Faults :
              OldestReservable(r) /\ Free(DestinationOf(r), c) /\ Reserve(r, c, f)
  <1>1. PICK r \in Routings, f \in Faults :
           /\ OldestReservable(r)
           /\ \/ r[2] # NoSubscriber /\ Reserve(r, r[2], f)
              \/ /\ r[2] = NoSubscriber
                 /\ \E k \in 0..(Len(Subscribers[DestinationOf(r)]) - 1) :
                      SelectQueue(DestinationOf(r), k) /\ Reserve(r, At(DestinationOf(r), k), f)
    BY DEF ReserveNext
  <1>2. CanReserve(r)
    BY <1>1 DEF OldestReservable
  <1>3. CASE r[2] # NoSubscriber
    <2>1. r[2] \in SubscriberSet(DestinationOf(r)) /\ Free(DestinationOf(r), r[2])
      BY <1>2, <1>3 DEF CanReserve, Candidates
    <2> QED
      BY <1>1, <1>3, <2>1
  <1>4. CASE r[2] = NoSubscriber
    <2>1. DestinationOf(r) \in Queues
      <3>1. r \in Created(r[1])
        BY <1>2 DEF TypeInv, RoutingOK, CanReserve
      <3>2. DestinationOf(r) \notin Topics
        BY <1>4, <3>1, RoutingFacts, PublicationsAssumption DEF Created, DestinationOf
      <3> QED
        BY <3>2, RoutingFacts DEF Destinations
    <2>2. PICK k \in 0..(Len(Subscribers[DestinationOf(r)]) - 1) :
             SelectQueue(DestinationOf(r), k) /\ Reserve(r, At(DestinationOf(r), k), f)
      BY <1>1, <1>4
    <2>3. At(DestinationOf(r), k) \in SubscriberSet(DestinationOf(r)) /\ Free(DestinationOf(r), At(DestinationOf(r), k))
      BY <2>1, <2>2, QueuePick DEF SelectQueue
    <2> QED
      BY <1>1, <2>2, <2>3
  <1> QED
    BY <1>3, <1>4

LEMMA ReserveIsBook ==
    ASSUME NEW r, NEW c, NEW f, CanReserve(r), Free(DestinationOf(r), c), Reserve(r, c, f), UNCHANGED dead
    PROVE  /\ ReserveBook(r, c)
           /\ \A e \in agenda' : e.type = "timeout" => e \in agenda \/ e.seq = nextSeq
  <1>1. records[r].state = "QUEUED" /\ <<DestinationOf(r), c>> \notin reserved
    BY DEF CanReserve, Free
  <1> DEFINE arrival == now + DeliveryDelay[DestinationOf(r)] + f.extraDelay
             copies  == IF f.drop THEN 1 ELSE 1 + f.additionalCopies
             CopyOf(i) == [routing |-> r, attempt |-> records[r].attempt + 1, index |-> i,
                           consumer |-> c, dropped |-> f.drop]
             timeout == TimeoutEvent(arrival + AckTimeout[DestinationOf(r)], nextSeq, r, records[r].attempt + 1)
             arrivals == {ArrivalEvent(arrival + i * f.copySpacing, nextSeq + 1 + i, CopyOf(i)) : i \in 0..(copies - 1)}
  <1>2. agenda' = agenda \cup {timeout} \cup arrivals
    BY DEF Reserve
  <1>3. Times(timeout) /\ \A x \in arrivals : ~Times(x)
    BY DEF TimeoutEvent, ArrivalEvent, Times
  <1>4. timeout.seq = nextSeq
    BY DEF TimeoutEvent
  <1> HIDE DEF arrivals
  <1>5. \E t, n : timeout = TimeoutEvent(t, n, r, records[r].attempt + 1)
    OBVIOUS
  <1> HIDE DEF timeout
  <1>6. Timers(agenda') = Timers(agenda) \cup {timeout}
    BY <1>2, <1>3 DEF Timers
  <1>7. /\ records' = [records EXCEPT ![r].attempt = records[r].attempt + 1, ![r].settled = FALSE,
                                      ![r].state = "IN_FLIGHT", ![r].consumer = c]
        /\ reserved' = reserved \cup {<<DestinationOf(r), c>>}
    BY DEF Reserve
  <1>8. ReserveBook(r, c)
    BY <1>1, <1>5, <1>6, <1>7 DEF ReserveBook
  <1>9. \A e \in agenda' : e.type = "timeout" => e \in agenda \/ e.seq = nextSeq
    BY <1>2, <1>3, <1>4 DEF Times
  <1> QED
    BY <1>8, <1>9

LEMMA ReserveNextBook ==
    ASSUME TypeInv, ReserveNext PROVE LoopBook
  BY ReservePick, ReserveIsBook DEF LoopBook, ReserveNext, OldestReservable

-----------------------------------------------------------------------------
(* Each part of the books under each effect                                 *)

\* The new records of an admission were absent, and wait in the queue.
LEMMA AdmittedRecords ==
    ASSUME TypeInv, NEW p \in Publications, AdmitBook(p), NEW r \in Routings
    PROVE  \/ records'[r] = records[r]
           \/ records[r].state = "ABSENT" /\ records'[r].state = "QUEUED" /\ records'[r].attempt = 0
  BY DEF AdmitBook, Absent, Created

\* What one effect leaves of the other records.
LEMMA OtherRecords ==
    ASSUME TypeInv, NEW r \in Routings, NEW s \in Routings, s # r,
           \/ AckBook(r) \/ DeadBook(r) \/ RetryBook(r) \/ RequeueBook(r)
           \/ \E c : ReserveBook(r, c)
    PROVE  records'[s] = records[s]
  BY DEF TypeInv, TypeOK, AckBook, DeadBook, RetryBook, RequeueBook, ReserveBook

\* What each effect makes of the record.
LEMMA ThisRecord ==
    ASSUME TypeInv, NEW r \in Routings
    PROVE  /\ AckBook(r) \/ DeadBook(r) \/ RetryBook(r) \/ RequeueBook(r) =>
                 records[r].state \in {"IN_FLIGHT", "RETRY"} /\ records'[r].attempt = records[r].attempt
           /\ AckBook(r) => records[r].state = "IN_FLIGHT" /\ records'[r].state = "ACKED"
           /\ DeadBook(r) => records[r].state = "IN_FLIGHT" /\ records'[r].state = "DEAD"
           /\ RetryBook(r) => records[r].state = "IN_FLIGHT" /\ records'[r].state = "RETRY"
           /\ RequeueBook(r) => records[r].state = "RETRY" /\ records'[r].state = "QUEUED"
           /\ \A c : ReserveBook(r, c) =>
                 /\ records[r].state = "QUEUED" /\ records'[r].state = "IN_FLIGHT"
                 /\ records'[r].attempt = records[r].attempt + 1
                 /\ records'[r].consumer = c /\ ~records'[r].settled
  <1>1. records \in [Routings -> Record] /\ records[r] \in Record
    BY DEF TypeInv, TypeOK
  <1> QED
    BY <1>1 DEF Record, AckBook, DeadBook, RetryBook, RequeueBook, ReserveBook

LEMMA AttemptsStep == ASSUME TypeInv, AttemptsMatch, BookStep PROVE AttemptsMatch'
  <1> SUFFICES ASSUME NEW s \in Routings
               PROVE  /\ records'[s].state = "ABSENT" => records'[s].attempt = 0
                      /\ records'[s].attempt = 0 => records'[s].state \in {"ABSENT", "QUEUED"}
                      /\ records'[s].state \in {"QUEUED", "RETRY"} => records'[s].attempt < MaxAttempts[DestinationOf(s)]
                      /\ records'[s].state = "IN_FLIGHT" => ~records'[s].settled
    BY DEF AttemptsMatch, DestinationOf
  <1>0. /\ records[s] \in Record /\ MaxAttempts[DestinationOf(s)] \in Nat \ {0}
        /\ records[s].state = "ABSENT" => records[s].attempt = 0
        /\ records[s].attempt = 0 => records[s].state \in {"ABSENT", "QUEUED"}
        /\ records[s].state \in {"QUEUED", "RETRY"} => records[s].attempt < MaxAttempts[DestinationOf(s)]
        /\ records[s].state = "IN_FLIGHT" => ~records[s].settled
    BY RoutingFacts, DestinationsAssumption DEF TypeInv, TypeOK, AttemptsMatch
  <1>1. CASE records'[s] = records[s]
    BY <1>0, <1>1
  <1>2. CASE QuietBook
    BY <1>1, <1>2 DEF QuietBook
  <1>3. ASSUME NEW p \in Publications, AdmitBook(p) PROVE records'[s] = records[s] \/ (records'[s].state = "QUEUED" /\ records'[s].attempt = 0)
    BY <1>3, AdmittedRecords
  <1>5. ASSUME NEW r \in Routings, AckBook(r) \/ DeadBook(r) \/ RetryBook(r) \/ RequeueBook(r) \/ \E c : ReserveBook(r, c)
        PROVE  \/ records'[s] = records[s]
               \/ /\ records'[s].state # "ABSENT" /\ records'[s].attempt # 0
                  /\ records'[s].state \in {"QUEUED", "RETRY"} => records'[s].attempt < MaxAttempts[DestinationOf(s)]
                  /\ records'[s].state = "IN_FLIGHT" => ~records'[s].settled
    <2>1. CASE r # s
      BY <1>5, <2>1, OtherRecords
    <2>2. CASE r = s
      <3>1. records[s].attempt \in Nat /\ (RetryBook(s) => records[s].attempt < MaxAttempts[DestinationOf(s)])
        BY <1>0 DEF Record, RetryBook
      <3> QED
        BY <1>0, <1>5, <2>2, <3>1, ThisRecord
    <2> QED
      BY <2>1, <2>2
  <1> QED
    BY <1>0, <1>1, <1>2, <1>3, <1>5 DEF BookStep, HandlerBook, LoopBook

LEMMA ReservationsStep == ASSUME TypeInv, ReservationsMatch, BookStep PROVE ReservationsMatch'
  <1> USE DEF ReservationsMatch, DestinationOf
  <1>0. records \in [Routings -> Record]
    BY DEF TypeInv, TypeOK
  <1>1. CASE QuietBook
    BY <1>1 DEF QuietBook
  <1>2. ASSUME NEW p \in Publications, AdmitBook(p) PROVE ReservationsMatch'
    <2>1. \A r \in Routings : \/ records'[r] = records[r]
                              \/ records[r].state = "ABSENT" /\ records'[r].state = "QUEUED"
      BY <1>2, AdmittedRecords
    <2>2. reserved' = reserved
      BY <1>2 DEF AdmitBook
    <2> QED
      BY <2>1, <2>2
  <1>3. ASSUME NEW r \in Routings, AckBook(r) \/ DeadBook(r) \/ RetryBook(r) PROVE ReservationsMatch'
    <2>1. \A s \in Routings : s # r => records'[s] = records[s]
      BY <1>3, OtherRecords
    <2>2. records[r].state = "IN_FLIGHT" /\ records'[r].state # "IN_FLIGHT"
      BY <1>3, ThisRecord
    <2>3. reserved' = reserved \ {<<DestinationOf(r), records[r].consumer>>}
      BY <1>3 DEF AckBook, DeadBook, RetryBook
    <2> QED
      BY <2>1, <2>2, <2>3
  <1>4. ASSUME NEW r \in Routings, RequeueBook(r) PROVE ReservationsMatch'
    <2>1. \A s \in Routings : s # r => records'[s] = records[s]
      BY <1>4, OtherRecords
    <2>2. records[r].state = "RETRY" /\ records'[r].state = "QUEUED" /\ reserved' = reserved
      BY <1>4, ThisRecord DEF RequeueBook
    <2> QED
      BY <2>1, <2>2
  <1>5. ASSUME NEW r \in Routings, NEW c, ReserveBook(r, c) PROVE ReservationsMatch'
    <2>1. \A s \in Routings : s # r => records'[s] = records[s]
      BY <1>5, OtherRecords
    <2>2. records'[r].state = "IN_FLIGHT" /\ records'[r].consumer = c
      BY <1>5, ThisRecord
    <2>3. /\ reserved' = reserved \cup {<<DestinationOf(r), c>>}
          /\ <<DestinationOf(r), c>> \notin reserved /\ records[r].state = "QUEUED"
      BY <1>5 DEF ReserveBook
    <2> QED
      BY <2>1, <2>2, <2>3
  <1> QED
    BY <1>1, <1>2, <1>3, <1>4, <1>5 DEF BookStep, HandlerBook, LoopBook

\* TimersMatch is about the timers only.
LEMMA TimersOnly ==
    TimersMatch <=>
        /\ \A r \in Routings :
              /\ records[r].state = "IN_FLIGHT" => \E e \in Timers(agenda) : IsTimeout(e, r, records[r].attempt)
              /\ records[r].state = "RETRY" => \E e \in Timers(agenda) : e.type = "retry" /\ e.routing = r
        /\ \A e \in Timers(agenda) :
              /\ e.type = "timeout" => /\ records[e.routing].state = "IN_FLIGHT"
                                       /\ records[e.routing].attempt = e.attempt
              /\ e.type = "retry" => records[e.routing].state = "RETRY"
        /\ \A e, f \in Timers(agenda) : e.type = f.type /\ e.routing = f.routing => e = f
  BY DEF TimersMatch, Timers, Times, IsTimeout

LEMMA TimersStep == ASSUME TypeInv, TypeInv', TimersMatch, BookStep PROVE TimersMatch'
  <1> DEFINE T == Timers(agenda)
             U == Timers(agenda')
             Exact == /\ \A r \in Routings :
                            /\ records'[r].state = "IN_FLIGHT" => \E e \in U : IsTimeout(e, r, records'[r].attempt)
                            /\ records'[r].state = "RETRY" => \E e \in U : e.type = "retry" /\ e.routing = r
                      /\ \A e \in U :
                            /\ e.type = "timeout" => /\ records'[e.routing].state = "IN_FLIGHT"
                                                     /\ records'[e.routing].attempt = e.attempt
                            /\ e.type = "retry" => records'[e.routing].state = "RETRY"
                      /\ \A e, f \in U : e.type = f.type /\ e.routing = f.routing => e = f
  <1>0. /\ records \in [Routings -> Record]
        /\ \A e \in T : e.routing \in Routings /\ e.type \in {"timeout", "retry"}
        /\ \A e \in U : e.routing \in Routings /\ e.type \in {"timeout", "retry"}
    BY EventFields DEF TypeInv, TypeOK, Timers, Times
  <1>a. /\ \A r \in Routings :
              /\ records[r].state = "IN_FLIGHT" => \E e \in T : IsTimeout(e, r, records[r].attempt)
              /\ records[r].state = "RETRY" => \E e \in T : e.type = "retry" /\ e.routing = r
        /\ \A e \in T :
              /\ e.type = "timeout" => /\ records[e.routing].state = "IN_FLIGHT"
                                       /\ records[e.routing].attempt = e.attempt
              /\ e.type = "retry" => records[e.routing].state = "RETRY"
        /\ \A e, f \in T : e.type = f.type /\ e.routing = f.routing => e = f
    BY TimersOnly
  <1>b. Exact => TimersMatch'
    BY DEF U, TimersMatch, Timers, Times, IsTimeout
  <1>c. \A r \in Routings : records[r].state = "IN_FLIGHT" => \A e \in T : e \in Deadlines(r) <=> e.type = "timeout" /\ e.routing = r
    BY <1>a DEF Deadlines, IsTimeout, Timers
  <1> HIDE DEF T, U
  <1> USE DEF IsTimeout
  <1>1. CASE QuietBook
    BY <1>a, <1>b, <1>1 DEF QuietBook, T, U
  <1>2. ASSUME NEW p \in Publications, AdmitBook(p) PROVE TimersMatch'
    <2>1. \A r \in Routings : \/ records'[r] = records[r]
                              \/ records[r].state = "ABSENT" /\ records'[r].state = "QUEUED"
      BY <1>2, AdmittedRecords
    <2>2. U = T
      BY <1>2 DEF AdmitBook, T, U
    <2> QED
      BY <1>0, <1>a, <1>b, <2>1, <2>2
  <1>3. ASSUME NEW r \in Routings, AckBook(r) \/ DeadBook(r) PROVE TimersMatch'
    <2>1. \A s \in Routings : s # r => records'[s] = records[s]
      BY <1>3, OtherRecords
    <2>2. records[r].state = "IN_FLIGHT" /\ records'[r].state \in {"ACKED", "DEAD"}
      BY <1>3, ThisRecord
    <2>3. U = {e \in T : ~(e.type = "timeout" /\ e.routing = r)}
      BY <1>3, <1>c, <2>2 DEF AckBook, DeadBook, T, U
    <2> QED
      BY <1>0, <1>a, <1>b, <2>1, <2>2, <2>3
  <1>4. ASSUME NEW r \in Routings, RetryBook(r) PROVE TimersMatch'
    <2>1. \A s \in Routings : s # r => records'[s] = records[s]
      BY <1>4, OtherRecords
    <2>2. records[r].state = "IN_FLIGHT" /\ records'[r].state = "RETRY"
      BY <1>4, ThisRecord
    <2>3. PICK t, n : U = (T \ Deadlines(r)) \cup {RetryEvent(t, n, r)}
      BY <1>4 DEF RetryBook, T, U
    <2> DEFINE x == RetryEvent(t, n, r)
    <2>4. x.type = "retry" /\ x.routing = r
      BY DEF RetryEvent
    <2> HIDE DEF x
    <2>5. U = {e \in T : ~(e.type = "timeout" /\ e.routing = r)} \cup {x}
      BY <1>c, <2>2, <2>3 DEF x
    <2> QED
      BY <1>0, <1>a, <1>b, <2>1, <2>2, <2>4, <2>5
  <1>5. ASSUME NEW r \in Routings, RequeueBook(r) PROVE TimersMatch'
    <2>1. \A s \in Routings : s # r => records'[s] = records[s]
      BY <1>5, OtherRecords
    <2>2. records[r].state = "RETRY" /\ records'[r].state = "QUEUED"
      BY <1>5, ThisRecord
    <2>3. U = {e \in T : ~(e.type = "retry" /\ e.routing = r)}
      BY <1>5 DEF RequeueBook, T, U
    <2> QED
      BY <1>0, <1>a, <1>b, <2>1, <2>2, <2>3
  <1>6. ASSUME NEW r \in Routings, NEW c, ReserveBook(r, c) PROVE TimersMatch'
    <2>1. \A s \in Routings : s # r => records'[s] = records[s]
      BY <1>6, OtherRecords
    <2>2. records[r].state = "QUEUED" /\ records'[r].state = "IN_FLIGHT" /\ records'[r].attempt = records[r].attempt + 1
      BY <1>6, ThisRecord
    <2>3. PICK t, n : U = T \cup {TimeoutEvent(t, n, r, records[r].attempt + 1)}
      BY <1>6 DEF ReserveBook, T, U
    <2> DEFINE x == TimeoutEvent(t, n, r, records[r].attempt + 1)
    <2>4. x.type = "timeout" /\ x.routing = r /\ x.attempt = records[r].attempt + 1
      BY DEF TimeoutEvent
    <2>5. U = T \cup {x}
      BY <2>3
    <2> HIDE DEF x
    <2> QED
      BY <1>0, <1>a, <1>b, <2>1, <2>2, <2>4, <2>5
  <1> QED
    BY <1>1, <1>2, <1>3, <1>4, <1>5, <1>6 DEF BookStep, HandlerBook, LoopBook

LEMMA DeadLettersStep ==
    ASSUME TypeInv, DeadLettersExact, AttemptsMatch, BookStep PROVE DeadLettersExact'
  <1> USE DEF DeadLettersExact, DestinationOf
  <1>0. /\ records \in [Routings -> Record]
        /\ \A r \in Routings : MaxAttempts[DestinationOf(r)] \in Nat \ {0}
        /\ \A l \in dead : l.routing \in Routings
    BY RoutingFacts, DestinationsAssumption DEF TypeInv, TypeOK
  <1>1. CASE QuietBook
    BY <1>1 DEF QuietBook
  <1>2. ASSUME NEW p \in Publications, AdmitBook(p) PROVE DeadLettersExact'
    <2>1. \A r \in Routings : \/ records'[r] = records[r]
                              \/ records[r].state = "ABSENT" /\ records'[r].state = "QUEUED" /\ records'[r].attempt = 0
      BY <1>2, AdmittedRecords
    <2>2. dead' = dead
      BY <1>2 DEF AdmitBook
    <2> QED
      BY <1>0, <2>1, <2>2
  <1>3. ASSUME NEW r \in Routings, AckBook(r) \/ RetryBook(r) \/ RequeueBook(r) \/ \E c : ReserveBook(r, c)
        PROVE  DeadLettersExact'
    <2>1. \A s \in Routings : s # r => records'[s] = records[s]
      BY <1>3, OtherRecords
    <2>2. /\ records[r].state # "DEAD" /\ records'[r].state # "DEAD" /\ dead' = dead
          /\ records'[r].attempt <= MaxAttempts[DestinationOf(r)]
      <3>1. AckBook(r) \/ RetryBook(r) \/ RequeueBook(r) => records'[r].attempt = records[r].attempt /\ records'[r].state # "DEAD"
        BY ThisRecord
      <3>2. (\E c : ReserveBook(r, c)) =>
               records'[r].attempt = records[r].attempt + 1 /\ records'[r].state # "DEAD" /\ records[r].attempt < MaxAttempts[DestinationOf(r)]
        BY ThisRecord DEF AttemptsMatch
      <3>3. records[r].state # "DEAD" /\ dead' = dead
        BY <1>3 DEF AckBook, RetryBook, RequeueBook, ReserveBook
      <3>4. records[r].attempt \in Nat
        BY <1>0 DEF Record
      <3> QED
        BY <1>0, <1>3, <3>1, <3>2, <3>3, <3>4
    <2> QED
      BY <1>0, <2>1, <2>2
  <1>4. ASSUME NEW r \in Routings, DeadBook(r) PROVE DeadLettersExact'
    <2>1. \A s \in Routings : s # r => records'[s] = records[s]
      BY <1>4, OtherRecords
    <2>0. PICK reason : dead' = dead \cup {[routing |-> r, attempts |-> records[r].attempt, reason |-> reason]}
      BY <1>4 DEF DeadBook
    <2> DEFINE l == [routing |-> r, attempts |-> records[r].attempt, reason |-> reason]
    <2>2. dead' = dead \cup {l} /\ l.routing = r /\ l.attempts = records[r].attempt
      BY <2>0
    <2> HIDE DEF l
    <2>3. /\ records[r].state = "IN_FLIGHT" /\ records'[r].state = "DEAD"
          /\ records'[r].attempt = records[r].attempt /\ records[r].attempt = MaxAttempts[DestinationOf(r)]
      <3>1. records[r].attempt \in Nat /\ records[r].attempt >= MaxAttempts[DestinationOf(r)]
        BY <1>0, <1>4 DEF DeadBook, Record
      <3> QED
        BY <1>0, <1>4, <3>1, ThisRecord
    <2> QED
      BY <1>0, <2>1, <2>2, <2>3
  <1> QED
    BY <1>1, <1>2, <1>3, <1>4 DEF BookStep, HandlerBook, LoopBook

\* A handler starts no attempt: it leaves the attempts as they are, and an
\* attempt that is in flight after it was so before.
LEMMA HandlerKeeps ==
    ASSUME TypeInv, AttemptsMatch, HandlerBook
    PROVE  /\ \A r \in Routings :
                 /\ records'[r].attempt = records[r].attempt
                 /\ records'[r].state = "IN_FLIGHT" => records'[r] = records[r]
           /\ \A f \in agenda' : f.type = "timeout" => f \in agenda
  <1>1. ASSUME NEW s \in Routings
        PROVE  /\ records'[s].attempt = records[s].attempt
               /\ records'[s].state = "IN_FLIGHT" => records'[s] = records[s]
    <2>1. CASE QuietBook
      BY <2>1 DEF QuietBook
    <2>2. ASSUME NEW p \in Publications, AdmitBook(p)
          PROVE  /\ records'[s].attempt = records[s].attempt
                 /\ records'[s].state = "IN_FLIGHT" => records'[s] = records[s]
      BY <2>2, AdmittedRecords DEF AttemptsMatch
    <2>3. ASSUME NEW r \in Routings, AckBook(r) \/ DeadBook(r) \/ RetryBook(r) \/ RequeueBook(r)
          PROVE  /\ records'[s].attempt = records[s].attempt
                 /\ records'[s].state = "IN_FLIGHT" => records'[s] = records[s]
      <3>1. CASE r # s
        BY <2>3, <3>1, OtherRecords
      <3>2. CASE r = s
        BY <2>3, <3>2, ThisRecord
      <3> QED
        BY <3>1, <3>2
    <2> QED
      BY <2>1, <2>2, <2>3 DEF HandlerBook
  <1>2. ASSUME NEW f \in agenda', f.type = "timeout" PROVE f \in agenda
    <2>0. f \in Timers(agenda')
      BY <1>2 DEF Timers, Times
    <2>1. \A t, n, r : RetryEvent(t, n, r).type = "retry"
      BY DEF RetryEvent
    <2>2. CASE \E r \in Routings : RetryBook(r)
      <3>1. PICK r \in Routings : RetryBook(r)
        BY <2>2
      <3>2. PICK t, n : Timers(agenda') = (Timers(agenda) \ Deadlines(r)) \cup {RetryEvent(t, n, r)}
        BY <3>1 DEF RetryBook
      <3>3. f # RetryEvent(t, n, r)
        BY <1>2, <2>1
      <3> QED
        BY <2>0, <3>2, <3>3 DEF Timers
    <2>3. CASE ~\E r \in Routings : RetryBook(r)
      BY <2>0, <2>3 DEF HandlerBook, QuietBook, AdmitBook, AckBook, DeadBook, RequeueBook, Timers
    <2> QED
      BY <2>2, <2>3
  <1> QED
    BY <1>1, <1>2

-----------------------------------------------------------------------------
(* Numbers of events                                                        *)

\* The events a step adds take the numbers from nextSeq on.
Numbered(S, n) == \A f \in S : f \in agenda \/ (nextSeq <= f.seq /\ f.seq < n)

LEMMA ScheduleNumbers ==
    ASSUME nextSeq \in Nat, NEW base, NEW n \in Nat, nextSeq <= n, Numbered(base, n), ScheduleDispatch(base, n),
           base \subseteq Event
    PROVE  nextSeq <= nextSeq' /\ Numbered(agenda', nextSeq')
  <1>1. \A f \in base : f.seq \in Nat
    BY EventFields
  <1>2. DispatchEvent(now', n).seq = n
    BY DEF DispatchEvent
  <1>3. \/ agenda' = base /\ nextSeq' = n
        \/ agenda' = base \cup {DispatchEvent(now', n)} /\ nextSeq' = n + 1
    BY ScheduleAdds
  <1> QED
    BY <1>1, <1>2, <1>3 DEF Numbered

LEMMA FailNumbers ==
    ASSUME TypeInv, now' \in Nat, NEW r \in Routings, NEW reason, NEW base, base \subseteq agenda, FailAttempt(r, reason, base)
    PROVE  nextSeq <= nextSeq' /\ Numbered(agenda', nextSeq')
  <1> DEFINE retry == RetryEvent(now' + RetryDelay[DestinationOf(r)], nextSeq, r)
  <1>1. nextSeq \in Nat /\ base \subseteq Event /\ Numbered(base, nextSeq) /\ RetryDelay[DestinationOf(r)] \in Nat
    BY RoutingFacts, DestinationsAssumption DEF TypeInv, TypeOK, Numbered
  <1>2. retry.seq = nextSeq
    BY DEF RetryEvent
  <1>3. retry \in Event
    BY <1>1, EventConstructors
  <1>4. \/ ScheduleDispatch(base, nextSeq)
        \/ ScheduleDispatch(base \cup {retry}, nextSeq + 1)
    BY DEF FailAttempt
  <1> HIDE DEF retry
  <1>5. Numbered(base \cup {retry}, nextSeq + 1) /\ base \cup {retry} \subseteq Event
    BY <1>1, <1>2, <1>3 DEF Numbered
  <1> QED
    BY <1>1, <1>4, <1>5, ScheduleNumbers

LEMMA AcknowledgeNumbers ==
    ASSUME TypeInv, now' \in Nat, NEW copy \in Copy, NEW outcome, NEW base, base \subseteq agenda,
           Acknowledge(copy, outcome, base)
    PROVE  nextSeq <= nextSeq' /\ Numbered(agenda', nextSeq')
  <1>1. /\ nextSeq \in Nat /\ copy.routing \in Routings
        /\ \A S \in SUBSET agenda : Numbered(S, nextSeq) /\ S \subseteq Event
    BY DEF TypeInv, TypeOK, Copy, Numbered
  <1>2. \/ ScheduleDispatch(base \ Deadlines(copy.routing), nextSeq)
        \/ FailAttempt(copy.routing, "nack", base \ Deadlines(copy.routing))
        \/ agenda' = base /\ nextSeq' = nextSeq
    BY DEF Acknowledge
  <1>3. base \ Deadlines(copy.routing) \subseteq agenda
    OBVIOUS
  <1>4. CASE ScheduleDispatch(base \ Deadlines(copy.routing), nextSeq)
    BY <1>1, <1>3, <1>4, ScheduleNumbers
  <1>5. CASE FailAttempt(copy.routing, "nack", base \ Deadlines(copy.routing))
    BY <1>1, <1>3, <1>5, FailNumbers
  <1>6. CASE agenda' = base /\ nextSeq' = nextSeq
    BY <1>1, <1>6
  <1> QED
    BY <1>2, <1>4, <1>5, <1>6

LEMMA DispatchNumbers ==
    ASSUME TypeInv, NEW e \in agenda, Dispatch(e)
    PROVE  nextSeq <= nextSeq' /\ Numbered(agenda', nextSeq')
  <1>0. /\ e \in Event /\ Handle(e) /\ now' \in Nat /\ nextSeq \in Nat /\ Take(e) \subseteq agenda
        /\ Take(e) \subseteq Event
    BY TakeFacts DEF Dispatch, Take
  <1>a. \A S \in SUBSET agenda : Numbered(S, nextSeq)
    BY DEF Numbered
  <1>c. CASE agenda' \subseteq agenda /\ nextSeq' = nextSeq
    BY <1>0, <1>a, <1>c
  <1>d. ASSUME NEW x, x.seq = nextSeq, agenda' = Take(e) \cup {x}, nextSeq' = nextSeq + 1
        PROVE  nextSeq <= nextSeq' /\ Numbered(agenda', nextSeq')
    BY <1>0, <1>d DEF Numbered
  <1>f. ASSUME NEW p \in Publications
        PROVE  /\ Numbered(Take(e) \cup FollowUp(p, nextSeq), AfterFollowUp(p, nextSeq))
               /\ nextSeq <= AfterFollowUp(p, nextSeq) /\ AfterFollowUp(p, nextSeq) \in Nat
    <2>1. \A x \in FollowUp(p, nextSeq) : x.seq = nextSeq /\ Resumed(p) # {}
      BY DEF FollowUp, AdmissionEvent
    <2>2. AfterFollowUp(p, nextSeq) = IF Resumed(p) = {} THEN nextSeq ELSE nextSeq + 1
      BY DEF AfterFollowUp
    <2> QED
      BY <1>0, <2>1, <2>2 DEF Numbered
  <1>1. CASE Publish(e)
    <2>1. AdmissionEvent(now', nextSeq, e.pub).seq = nextSeq
      BY DEF AdmissionEvent
    <2> QED
      BY <1>0, <1>c, <1>d, <1>1, <2>1 DEF Publish
  <1>2. CASE Reject(e)
    <2>1. e.pub \in Publications
      BY <1>0, <1>2, EventFields DEF Reject
    <2>2. agenda' = Take(e) \cup FollowUp(e.pub, nextSeq) /\ nextSeq' = AfterFollowUp(e.pub, nextSeq)
      BY <1>2, Zenon DEF Reject
    <2> QED
      BY <1>f, <2>1, <2>2
  <1>3. CASE Admit(e)
    <2>1. e.pub \in Publications /\ Complete(e.pub, "published")
      BY <1>0, <1>3, EventFields DEF Admit
    <2>2. ScheduleDispatch(Take(e) \cup FollowUp(e.pub, nextSeq), AfterFollowUp(e.pub, nextSeq))
      BY <1>3, Zenon DEF Admit
    <2>3. FollowUp(e.pub, nextSeq) \subseteq Event
      BY <1>0, <2>1, CompleteType DEF PubStatus
    <2>4. Take(e) \cup FollowUp(e.pub, nextSeq) \subseteq Event
      BY <1>0, <2>3
    <2> QED
      BY <1>0, <1>f, <2>1, <2>2, <2>4, ScheduleNumbers
  <1>4. CASE OnDispatch(e)
    BY <1>0, <1>c, <1>4 DEF OnDispatch
  <1>5. CASE Arrive(e)
    <2> DEFINE work == ConsumerEvent(now', nextSeq, e.copy, generation[e.copy.consumer])
    <2>1. e.copy.routing \in Routings
      BY <1>0, <1>5, EventFields DEF Arrive, Copy
    <2>2. \/ FailAttempt(e.copy.routing, "unavailable", Take(e) \ Deadlines(e.copy.routing))
          \/ agenda' = Take(e) /\ nextSeq' = nextSeq
          \/ agenda' = Take(e) \cup {work} /\ nextSeq' = nextSeq + 1
      BY <1>5 DEF Arrive
    <2>3. work.seq = nextSeq
      BY DEF ConsumerEvent
    <2> HIDE DEF work
    <2>4. Take(e) \ Deadlines(e.copy.routing) \subseteq agenda
      BY <1>0
    <2> QED
      BY <1>0, <1>c, <1>d, <2>1, <2>2, <2>3, <2>4, FailNumbers
  <1>6. CASE Consume(e)
    <2>1. e.copy \in Copy
      BY <1>0, <1>6, EventFields DEF Consume
    <2>2. \/ \E outcome : Acknowledge(e.copy, outcome, Take(e))
          \/ agenda' = Take(e) /\ nextSeq' = nextSeq
          \/ \E delay \in Sleeps : agenda' = Take(e) \cup {WakeEvent(now' + delay, nextSeq, e.copy)} /\ nextSeq' = nextSeq + 1
      BY <1>6 DEF Consume, busVars
    <2>3. \A delay : WakeEvent(now' + delay, nextSeq, e.copy).seq = nextSeq
      BY DEF WakeEvent
    <2> QED
      BY <1>0, <1>c, <1>d, <2>1, <2>2, <2>3, AcknowledgeNumbers
  <1>7. CASE Wake(e)
    <2>1. e.copy \in Copy
      BY <1>0, <1>7, EventFields DEF Wake
    <2>2. \/ \E outcome : Acknowledge(e.copy, outcome, Take(e))
          \/ agenda' = Take(e) /\ nextSeq' = nextSeq
      BY <1>7 DEF Wake
    <2> QED
      BY <1>0, <1>c, <2>1, <2>2, AcknowledgeNumbers
  <1>8. CASE OnTimeout(e)
    <2>1. e.routing \in Routings
      BY <1>0, <1>8, EventFields DEF OnTimeout
    <2>2. FailAttempt(e.routing, "timeout", Take(e)) \/ (agenda' = Take(e) /\ nextSeq' = nextSeq)
      BY <1>8 DEF OnTimeout
    <2> QED
      BY <1>0, <1>c, <2>1, <2>2, FailNumbers
  <1>9. CASE OnRetry(e)
    <2>1. ScheduleDispatch(Take(e), nextSeq) \/ (agenda' = Take(e) /\ nextSeq' = nextSeq)
      BY <1>9 DEF OnRetry
    <2> QED
      BY <1>0, <1>a, <1>c, <2>1, ScheduleNumbers
  <1>10. CASE Lifecycle(e)
    <2>1. \/ agenda' = Take(e) /\ nextSeq' = nextSeq
          \/ \E base \in SUBSET Take(e) : ConsumerChanged(e.component, base)
      BY <1>10 DEF Lifecycle
    <2>2. ASSUME NEW base \in SUBSET Take(e), ConsumerChanged(e.component, base)
          PROVE  nextSeq <= nextSeq' /\ Numbered(agenda', nextSeq')
      <3>1. ScheduleDispatch(base, nextSeq) \/ (agenda' = base /\ nextSeq' = nextSeq)
        BY <2>2 DEF ConsumerChanged
      <3>2. base \subseteq agenda /\ base \subseteq Event
        BY <1>0, <2>2
      <3> QED
        BY <1>0, <1>a, <1>c, <3>1, <3>2, ScheduleNumbers
    <2> QED
      BY <1>0, <1>c, <2>1, <2>2
  <1>11. CASE Control(e)
    <2>1. LifecycleEvent(now', nextSeq, e.component, e.next).seq = nextSeq
      BY DEF LifecycleEvent
    <2> QED
      BY <1>d, <1>11, <2>1 DEF Control
  <1> QED
    BY <1>0, <1>1, <1>2, <1>3, <1>4, <1>5, <1>6, <1>7, <1>8, <1>9, <1>10, <1>11 DEF Handle

-----------------------------------------------------------------------------
(* Copies on their way                                                      *)

\* A copy is carried by one event at a time, from its arrival to the end of
\* its handler; none is of an attempt still to come, and one of the attempt in
\* flight goes to the consumer that holds it.  The deadline of an attempt was
\* scheduled before anything that carries it.
CarriedOnce ==
    /\ \A e \in agenda : e.seq < nextSeq
    /\ \A e, f \in Carriers(agenda) : e.copy = f.copy => e = f
    /\ \A e \in Carriers(agenda) :
          /\ e.copy.attempt <= records[e.copy.routing].attempt
          /\ Open(e.copy) => e.copy.consumer = records[e.copy.routing].consumer
          /\ \A f \in agenda : IsTimeout(f, e.copy.routing, e.copy.attempt) => f.seq < e.seq
    /\ \A c \in delivered :
          /\ ~c.dropped /\ c.attempt <= records[c.routing].attempt
          /\ Open(c) => c.consumer = records[c.routing].consumer

\* What a handler does to the copies on their way, the suspended handlers and
\* the copies delivered: nothing, the end of the way of one, its next part, or
\* the end of all that a process has suspended.
CarrySame == Carriers(agenda') = Carriers(agenda) /\ UNCHANGED <<tasks, delivered>>

CarryDrop(e) == /\ Carries(e) /\ Carriers(agenda') = Carriers(agenda) \ {e}
                /\ tasks' = IF e.type = "wake" THEN tasks \ {e.copy} ELSE tasks
                /\ UNCHANGED delivered

CarryOn(e, x) == /\ x.copy = e.copy /\ x.seq = nextSeq
                 /\ Carriers(agenda') = (Carriers(agenda) \ {e}) \cup {x}
                 /\ \/ /\ e.type = "arrival" /\ x.type = "consumer" /\ ~e.copy.dropped
                       /\ tasks' = tasks /\ delivered' = delivered \cup {e.copy}
                       /\ <<x.copy, x.generation>> \in accepted'
                    \/ /\ e.type = "consumer" /\ x.type = "wake"
                       /\ tasks' = tasks \cup {e.copy} /\ delivered' = delivered

CarryCrash(D) == /\ tasks' = tasks \ D
                 /\ Carriers(agenda') = {x \in Carriers(agenda) : ~(x.type = "wake" /\ x.copy \in D)}
                 /\ UNCHANGED delivered

LEMMA TakeCarriers ==
    ASSUME NEW e, NEW r
    PROVE  /\ Carries(e) => /\ Carriers(Take(e)) = Carriers(agenda) \ {e}
                            /\ Carriers(Take(e) \ Deadlines(r)) = Carriers(agenda) \ {e}
           /\ ~Carries(e) => /\ Carriers(Take(e)) = Carriers(agenda)
                             /\ Carriers(Take(e) \ Deadlines(r)) = Carriers(agenda)
  BY DEF Carriers, Take, Deadlines, IsTimeout, Carries

LEMMA FailCarriers ==
    ASSUME NEW r, NEW reason, NEW base, FailAttempt(r, reason, base)
    PROVE  Carriers(agenda') = Carriers(base)
  <1> DEFINE retry == RetryEvent(now' + RetryDelay[DestinationOf(r)], nextSeq, r)
  <1>1. ~Carries(retry)
    BY DEF RetryEvent, Carries
  <1>2. \/ ScheduleDispatch(base, nextSeq)
        \/ ScheduleDispatch(base \cup {retry}, nextSeq + 1)
    BY DEF FailAttempt
  <1> HIDE DEF retry
  <1>3. Carriers(base \cup {retry}) = Carriers(base)
    BY <1>1 DEF Carriers
  <1> QED
    BY <1>2, <1>3, ScheduleAdds

LEMMA AcknowledgeCarriers ==
    ASSUME NEW copy, NEW outcome, NEW e \in agenda, Carries(e), Acknowledge(copy, outcome, Take(e))
    PROVE  Carriers(agenda') = Carriers(agenda) \ {e} /\ delivered' = delivered
  <1>1. \/ ScheduleDispatch(Take(e) \ Deadlines(copy.routing), nextSeq)
        \/ FailAttempt(copy.routing, "nack", Take(e) \ Deadlines(copy.routing))
        \/ agenda' = Take(e)
    BY DEF Acknowledge
  <1>2. delivered' = delivered
    BY DEF Acknowledge
  <1>3. Carriers(agenda') \in {Carriers(Take(e)), Carriers(Take(e) \ Deadlines(copy.routing))}
    BY <1>1, ScheduleAdds, FailCarriers
  <1> QED
    BY <1>2, <1>3, TakeCarriers

LEMMA DispatchCarry ==
    ASSUME TypeInv, TasksMatch, NEW e \in agenda, Dispatch(e)
    PROVE  \/ CarrySame \/ CarryDrop(e)
           \/ \E x : CarryOn(e, x)
           \/ \E D \in SUBSET tasks : CarryCrash(D)
  <1>0. e \in Event /\ Handle(e)
    BY TakeFacts DEF Dispatch
  <1>1. CASE Publish(e)
    <2> DEFINE x == AdmissionEvent(now', nextSeq, e.pub)
    <2>1. ~Carries(e) /\ ~Carries(x) /\ UNCHANGED <<tasks, delivered>>
      BY <1>1 DEF Publish, busVars, Carries, AdmissionEvent
    <2>2. agenda' = Take(e) \/ agenda' = Take(e) \cup {x}
      BY <1>1 DEF Publish
    <2> HIDE DEF x
    <2>3. \A y \in {x} : ~Carries(y)
      BY <2>1
    <2>4. Carriers(agenda') = Carriers(agenda)
      BY <2>1, <2>2, <2>3 DEF Carriers, Take
    <2> QED
      BY <2>1, <2>4 DEF CarrySame
  <1>2. CASE Reject(e)
    <2>1. ~Carries(e) /\ UNCHANGED <<tasks, delivered>> /\ agenda' = Take(e) \cup FollowUp(e.pub, nextSeq)
      BY <1>2 DEF Reject, busVars, Carries
    <2>2. \A x \in FollowUp(e.pub, nextSeq) : ~Carries(x)
      BY DEF FollowUp, AdmissionEvent, Carries
    <2>3. Carriers(agenda') = Carriers(agenda)
      BY <2>1, <2>2 DEF Carriers, Take
    <2> QED
      BY <2>1, <2>3 DEF CarrySame
  <1>3. CASE Admit(e)
    <2>1. ~Carries(e) /\ UNCHANGED <<tasks, delivered>>
      BY <1>3 DEF Admit, Carries
    <2>2. ScheduleDispatch(Take(e) \cup FollowUp(e.pub, nextSeq), AfterFollowUp(e.pub, nextSeq))
      BY <1>3, Zenon DEF Admit
    <2>3. \A x \in FollowUp(e.pub, nextSeq) : ~Carries(x)
      BY DEF FollowUp, AdmissionEvent, Carries
    <2>4. Carriers(agenda') = Carriers(Take(e) \cup FollowUp(e.pub, nextSeq))
      BY <2>2, ScheduleAdds
    <2>5. Carriers(agenda') = Carriers(agenda)
      BY <2>1, <2>3, <2>4 DEF Carriers, Take
    <2> QED
      BY <2>1, <2>5 DEF CarrySame
  <1>4. CASE OnDispatch(e)
    <2>1. ~Carries(e) /\ UNCHANGED <<tasks, delivered>> /\ agenda' = Take(e)
      BY <1>4 DEF OnDispatch, busVars, runVars, Carries
    <2> QED
      BY <2>1, TakeCarriers DEF CarrySame
  <1>5. CASE Arrive(e)
    <2> DEFINE r == e.copy.routing
               x == ConsumerEvent(now', nextSeq, e.copy, generation[e.copy.consumer])
    <2>1. Carries(e) /\ e.type = "arrival" /\ tasks' = tasks
      BY <1>5 DEF Arrive, runVars, Carries
    <2>2. \/ FailAttempt(r, "unavailable", Take(e) \ Deadlines(r)) /\ delivered' = delivered
          \/ agenda' = Take(e) /\ delivered' = delivered
          \/ /\ agenda' = Take(e) \cup {x} /\ delivered' = delivered \cup {e.copy} /\ ~e.copy.dropped
             /\ <<e.copy, generation[e.copy.consumer]>> \in accepted'
      BY <1>5 DEF Arrive
    <2>3. /\ x.copy = e.copy /\ x.seq = nextSeq /\ x.type = "consumer" /\ Carries(x)
          /\ x.generation = generation[e.copy.consumer]
      BY DEF ConsumerEvent, Carries
    <2> HIDE DEF x
    <2>4. CASE /\ agenda' = Take(e) \cup {x} /\ delivered' = delivered \cup {e.copy} /\ ~e.copy.dropped
               /\ <<e.copy, generation[e.copy.consumer]>> \in accepted'
      <3>1. Carriers(agenda') = (Carriers(agenda) \ {e}) \cup {x}
        BY <2>1, <2>3, <2>4 DEF Carriers, Take
      <3> QED
        BY <2>1, <2>3, <2>4, <3>1 DEF CarryOn
    <2>5. CASE delivered' = delivered /\ (agenda' = Take(e) \/ FailAttempt(r, "unavailable", Take(e) \ Deadlines(r)))
      <3>1. Carriers(agenda') \in {Carriers(Take(e)), Carriers(Take(e) \ Deadlines(r))}
        BY <2>5, FailCarriers
      <3>2. Carriers(agenda') = Carriers(agenda) \ {e}
        BY <2>1, <3>1, TakeCarriers
      <3> QED
        BY <2>1, <2>5, <3>2 DEF CarryDrop
    <2> QED
      BY <2>2, <2>4, <2>5
  <1>6. CASE Consume(e)
    <2>1. Carries(e) /\ e.type = "consumer"
      BY <1>6 DEF Consume, Carries
    <2>2. \/ (\E outcome : Acknowledge(e.copy, outcome, Take(e))) /\ tasks' = tasks
          \/ agenda' = Take(e) /\ tasks' = tasks /\ delivered' = delivered
          \/ /\ \E delay \in Sleeps : agenda' = Take(e) \cup {WakeEvent(now' + delay, nextSeq, e.copy)}
             /\ tasks' = tasks \cup {e.copy} /\ delivered' = delivered
      BY <1>6 DEF Consume, busVars
    <2>3. CASE (\E outcome : Acknowledge(e.copy, outcome, Take(e))) /\ tasks' = tasks
      BY <2>1, <2>3, AcknowledgeCarriers DEF CarryDrop
    <2>4. CASE agenda' = Take(e) /\ tasks' = tasks /\ delivered' = delivered
      BY <2>1, <2>4, TakeCarriers DEF CarryDrop
    <2>5. CASE /\ \E delay \in Sleeps : agenda' = Take(e) \cup {WakeEvent(now' + delay, nextSeq, e.copy)}
               /\ tasks' = tasks \cup {e.copy} /\ delivered' = delivered
      <3>1. PICK delay \in Sleeps : agenda' = Take(e) \cup {WakeEvent(now' + delay, nextSeq, e.copy)}
        BY <2>5
      <3> DEFINE x == WakeEvent(now' + delay, nextSeq, e.copy)
      <3>2. x.copy = e.copy /\ x.seq = nextSeq /\ x.type = "wake" /\ Carries(x)
        BY DEF WakeEvent, Carries
      <3>3. agenda' = Take(e) \cup {x}
        BY <3>1
      <3> HIDE DEF x
      <3>4. Carriers(agenda') = (Carriers(agenda) \ {e}) \cup {x}
        BY <2>1, <3>2, <3>3 DEF Carriers, Take
      <3> QED
        BY <2>1, <2>5, <3>2, <3>4 DEF CarryOn
    <2> QED
      BY <2>2, <2>3, <2>4, <2>5
  <1>7. CASE Wake(e)
    <2>1. Carries(e) /\ e.type = "wake" /\ e.copy \in tasks
      BY <1>7 DEF Wake, Carries, TasksMatch
    <2>2. tasks' = tasks \ {e.copy} /\ \E outcome : Acknowledge(e.copy, outcome, Take(e))
      BY <1>7, <2>1 DEF Wake
    <2> QED
      BY <2>1, <2>2, AcknowledgeCarriers DEF CarryDrop
  <1>8. CASE OnTimeout(e)
    <2>1. ~Carries(e) /\ UNCHANGED <<tasks, delivered>>
      BY <1>8 DEF OnTimeout, runVars, Carries
    <2>2. FailAttempt(e.routing, "timeout", Take(e)) \/ agenda' = Take(e)
      BY <1>8 DEF OnTimeout
    <2>3. Carriers(agenda') = Carriers(Take(e))
      BY <2>2, FailCarriers
    <2> QED
      BY <2>1, <2>3, TakeCarriers DEF CarrySame
  <1>9. CASE OnRetry(e)
    <2>1. ~Carries(e) /\ UNCHANGED <<tasks, delivered>>
      BY <1>9 DEF OnRetry, runVars, Carries
    <2>2. ScheduleDispatch(Take(e), nextSeq) \/ agenda' = Take(e)
      BY <1>9 DEF OnRetry
    <2> QED
      BY <2>1, <2>2, TakeCarriers, ScheduleAdds DEF CarrySame
  <1>10. CASE Lifecycle(e)
    <2>1. ~Carries(e) /\ UNCHANGED delivered
      BY <1>10 DEF Lifecycle, busVars, Carries
    <2>2. \/ agenda' = Take(e) /\ tasks' = tasks
          \/ ConsumerChanged(e.component, Take(e)) /\ tasks' = tasks
          \/ ConsumerChanged(e.component, Take(e) \ WakesOf(e.component)) /\ tasks' = tasks \ TasksOf(e.component)
      BY <1>10 DEF Lifecycle, runVars
    <2>3. \A base : ConsumerChanged(e.component, base) => Carriers(agenda') = Carriers(base)
      BY ScheduleAdds DEF ConsumerChanged
    <2>4. CASE tasks' = tasks /\ (agenda' = Take(e) \/ ConsumerChanged(e.component, Take(e)))
      BY <2>1, <2>3, <2>4, TakeCarriers DEF CarrySame
    <2>5. CASE ConsumerChanged(e.component, Take(e) \ WakesOf(e.component)) /\ tasks' = tasks \ TasksOf(e.component)
      <3>1. Carriers(agenda') = Carriers(Take(e) \ WakesOf(e.component))
        BY <2>3, <2>5
      <3>2. Carriers(Take(e) \ WakesOf(e.component))
               = {x \in Carriers(agenda) : ~(x.type = "wake" /\ x.copy \in TasksOf(e.component))}
        BY <2>1 DEF Carriers, Carries, Take, WakesOf
      <3>3. TasksOf(e.component) \in SUBSET tasks
        BY DEF TasksOf
      <3> QED
        BY <2>1, <2>5, <3>1, <3>2, <3>3 DEF CarryCrash
    <2> QED
      BY <2>2, <2>4, <2>5
  <1>11. CASE Control(e)
    <2> DEFINE x == LifecycleEvent(now', nextSeq, e.component, e.next)
    <2>1. ~Carries(e) /\ ~Carries(x) /\ UNCHANGED <<tasks, delivered>> /\ agenda' = Take(e) \cup {x}
      BY <1>11 DEF Control, busVars, runVars, Carries, LifecycleEvent
    <2> HIDE DEF x
    <2>2. \A y \in {x} : ~Carries(y)
      BY <2>1
    <2>3. Carriers(agenda') = Carriers(agenda)
      BY <2>1, <2>2 DEF Carriers, Take
    <2> QED
      BY <2>1, <2>3 DEF CarrySame
  <1> QED
    BY <1>0, <1>1, <1>2, <1>3, <1>4, <1>5, <1>6, <1>7, <1>8, <1>9, <1>10, <1>11 DEF Handle

\* What a carrier holds.
LEMMA CarrierFields ==
    ASSUME TypeInv
    PROVE  /\ \A e \in Carriers(agenda) : /\ e \in agenda /\ e.seq \in Nat /\ e.copy \in Copy
                                          /\ e.copy.routing \in Routings /\ e.copy.attempt \in Nat
           /\ \A c \in delivered : c \in Copy /\ c.routing \in Routings /\ c.attempt \in Nat
           /\ \A r \in Routings : records[r].attempt \in Nat
           /\ nextSeq \in Nat
  BY EventFields DEF TypeInv, TypeOK, Carriers, Carries, Copy, Record

\* What was carried, and is still, keeps to CarriedOnce under a handler.
LEMMA HandlerLeaves ==
    ASSUME TypeInv, AttemptsMatch, CarriedOnce, NEW e \in agenda, Dispatch(e), HandlerBook
    PROVE  /\ \A c \in Copy : Open(c)' => Open(c) /\ records'[c.routing].consumer = records[c.routing].consumer
           /\ \A f \in agenda' : f.seq < nextSeq'
           /\ nextSeq <= nextSeq' /\ nextSeq' \in Nat
  <1>1. \A c \in Copy : Open(c)' => Open(c) /\ records'[c.routing].consumer = records[c.routing].consumer
    <2> SUFFICES ASSUME NEW c \in Copy, Open(c)'
                 PROVE  Open(c) /\ records'[c.routing].consumer = records[c.routing].consumer
      OBVIOUS
    <2>1. c.routing \in Routings /\ records'[c.routing].state = "IN_FLIGHT"
      BY DEF Copy, Open
    <2>2. records'[c.routing] = records[c.routing]
      BY <2>1, HandlerKeeps
    <2> QED
      BY <2>2 DEF Open
  <1>2. nextSeq <= nextSeq' /\ Numbered(agenda', nextSeq')
    BY DispatchNumbers
  <1>3. nextSeq \in Nat /\ nextSeq' \in Nat /\ agenda \subseteq Event /\ agenda' \subseteq Event
    BY DispatchType DEF TypeInv, TypeOK
  <1>4. ASSUME NEW f \in agenda' PROVE f.seq < nextSeq'
    <2>1. f.seq \in Nat
      BY <1>3, EventFields
    <2> QED
      BY <1>2, <1>3, <2>1 DEF Numbered, CarriedOnce
  <1> QED
    BY <1>1, <1>2, <1>3, <1>4

LEMMA HandlerCarries ==
    ASSUME TypeInv, BooksInv, CarriedOnce, NEW e \in agenda, Dispatch(e)
    PROVE  CarriedOnce'
  <1>0. TypeInv' /\ HandlerBook /\ AttemptsMatch /\ TasksMatch
    BY DispatchType, DispatchBook DEF BooksInv, BooksMatch
  <1> DEFINE K == Carriers(agenda)
             L == Carriers(agenda')
  <1>1. /\ \A k \in K : /\ k \in agenda /\ k.seq \in Nat /\ k.copy \in Copy
                        /\ k.copy.routing \in Routings /\ k.copy.attempt \in Nat
        /\ \A c \in delivered : c \in Copy /\ c.routing \in Routings /\ c.attempt \in Nat
        /\ \A r \in Routings : records[r].attempt \in Nat
        /\ nextSeq \in Nat
    BY CarrierFields
  <1>2. /\ \A c \in Copy : Open(c)' => Open(c) /\ records'[c.routing].consumer = records[c.routing].consumer
        /\ \A f \in agenda' : f.seq < nextSeq'
        /\ \A r \in Routings : records'[r].attempt = records[r].attempt
        /\ \A f \in agenda' : f.type = "timeout" => f \in agenda
    BY <1>0, HandlerLeaves, HandlerKeeps
  <1>3. /\ \A k, l \in K : k.copy = l.copy => k = l
        /\ \A k \in K : /\ k.copy.attempt <= records[k.copy.routing].attempt
                        /\ Open(k.copy) => k.copy.consumer = records[k.copy.routing].consumer
                        /\ \A f \in agenda : IsTimeout(f, k.copy.routing, k.copy.attempt) => f.seq < k.seq
        /\ \A f \in agenda : f.seq < nextSeq
        /\ \A c \in delivered : /\ ~c.dropped /\ c.attempt <= records[c.routing].attempt
                                /\ Open(c) => c.consumer = records[c.routing].consumer
    BY DEF CarriedOnce
  <1>4. \/ L \subseteq K /\ delivered' = delivered
        \/ /\ e \in K /\ delivered' \subseteq delivered \cup {e.copy}
           /\ delivered' # delivered => ~e.copy.dropped
           /\ \E x : x.copy = e.copy /\ x.seq = nextSeq /\ L = (K \ {e}) \cup {x}
    <2>1. CASE CarrySame \/ CarryDrop(e) \/ \E D \in SUBSET tasks : CarryCrash(D)
      BY <2>1 DEF CarrySame, CarryDrop, CarryCrash
    <2>2. CASE \E x : CarryOn(e, x)
      BY <2>2 DEF CarryOn, Carriers, Carries
    <2> QED
      BY <1>0, <2>1, <2>2, DispatchCarry
  <1> HIDE DEF K, L
  <1>5. \A k \in K \cup L : k \in K \/ (e \in K /\ k.copy = e.copy /\ k.seq = nextSeq)
    BY <1>4
  <1>6. \A k \in L : k.copy \in Copy /\ k.copy.routing \in Routings
    BY <1>1, <1>5
  <1>7. \A k, l \in L : k.copy = l.copy => k = l
    BY <1>3, <1>4
  <1>8. ASSUME NEW k \in L
        PROVE  /\ k.copy.attempt <= records'[k.copy.routing].attempt
               /\ Open(k.copy)' => k.copy.consumer = records'[k.copy.routing].consumer
               /\ \A f \in agenda' : IsTimeout(f, k.copy.routing, k.copy.attempt) => f.seq < k.seq
    <2>1. PICK j \in K : j.copy = k.copy
      BY <1>5
    <2>2. k.copy.attempt <= records'[k.copy.routing].attempt
      BY <1>1, <1>2, <1>3, <2>1
    <2>3. Open(k.copy)' => k.copy.consumer = records'[k.copy.routing].consumer
      <3>1. Open(k.copy)' => Open(k.copy) /\ records'[k.copy.routing].consumer = records[k.copy.routing].consumer
        BY <1>2, <1>6
      <3>2. Open(k.copy) => k.copy.consumer = records[k.copy.routing].consumer
        BY <1>3, <2>1
      <3> QED
        BY <3>1, <3>2
    <2>4. ASSUME NEW f \in agenda', IsTimeout(f, k.copy.routing, k.copy.attempt) PROVE f.seq < k.seq
      <3>1. f \in agenda
        BY <1>2, <2>4 DEF IsTimeout
      <3>2. CASE k \in K
        BY <1>3, <2>4, <3>1, <3>2
      <3>3. CASE k.seq = nextSeq
        BY <1>3, <3>1, <3>3
      <3> QED
        BY <1>5, <3>2, <3>3
    <2> QED
      BY <2>2, <2>3, <2>4
  <1>9. ASSUME NEW c \in delivered'
        PROVE  /\ ~c.dropped /\ c.attempt <= records'[c.routing].attempt
               /\ Open(c)' => c.consumer = records'[c.routing].consumer
    <2>1. c \in delivered \/ (e \in K /\ c = e.copy /\ ~c.dropped)
      BY <1>4
    <2>2. c \in Copy /\ c.routing \in Routings /\ ~c.dropped /\ c.attempt <= records[c.routing].attempt
      BY <1>1, <1>3, <2>1
    <2>3. Open(c) => c.consumer = records[c.routing].consumer
      BY <1>3, <2>1
    <2>4. Open(c)' => Open(c) /\ records'[c.routing].consumer = records[c.routing].consumer
      BY <1>2, <2>2
    <2> QED
      BY <1>2, <2>2, <2>3, <2>4
  <1> QED
    BY <1>2, <1>7, <1>8, <1>9 DEF CarriedOnce, L

\* TasksMatch is about the carriers only.
LEMMA HandlerTasks ==
    ASSUME TypeInv, BooksInv, CarriedOnce, NEW e \in agenda, Dispatch(e)
    PROVE  TasksMatch'
  <1> DEFINE K == Carriers(agenda)
             L == Carriers(agenda')
  <1>1. /\ \A c \in tasks : \E k \in K : k.type = "wake" /\ k.copy = c
        /\ \A k \in K : k.type = "wake" => k.copy \in tasks
        /\ \A k, l \in K : k.copy = l.copy => k = l
    BY DEF BooksInv, BooksMatch, TasksMatch, CarriedOnce, Carriers, Carries
  <1>2. ASSUME /\ \A c \in tasks' : \E k \in L : k.type = "wake" /\ k.copy = c
               /\ \A k \in L : k.type = "wake" => k.copy \in tasks'
        PROVE  TasksMatch'
    <2>1. \A k, l \in L : k.copy = l.copy => k = l
      BY HandlerCarries DEF CarriedOnce
    <2> QED
      BY <1>2, <2>1 DEF TasksMatch, Carriers, Carries
  <1>3. \/ CarrySame \/ CarryDrop(e)
        \/ \E x : CarryOn(e, x)
        \/ \E D \in SUBSET tasks : CarryCrash(D)
    BY DispatchCarry DEF BooksInv, BooksMatch
  <1>4. CASE CarrySame
    BY <1>1, <1>2, <1>4 DEF CarrySame
  <1>5. CASE CarryDrop(e)
    <2>1. e \in K /\ L = K \ {e} /\ tasks' = IF e.type = "wake" THEN tasks \ {e.copy} ELSE tasks
      BY <1>5 DEF CarryDrop, Carriers
    <2> HIDE DEF K, L
    <2> QED
      BY <1>1, <1>2, <2>1
  <1>6. ASSUME NEW x, CarryOn(e, x) PROVE TasksMatch'
    <2>1. /\ e \in K /\ e.type # "wake" /\ L = (K \ {e}) \cup {x} /\ x.copy = e.copy
          /\ \/ x.type = "consumer" /\ tasks' = tasks
             \/ x.type = "wake" /\ tasks' = tasks \cup {e.copy}
      BY <1>6 DEF CarryOn, Carriers, Carries
    <2> HIDE DEF K, L
    <2> QED
      BY <1>1, <1>2, <2>1
  <1>7. ASSUME NEW D \in SUBSET tasks, CarryCrash(D) PROVE TasksMatch'
    <2>1. tasks' = tasks \ D /\ L = {x \in K : ~(x.type = "wake" /\ x.copy \in D)}
      BY <1>7 DEF CarryCrash
    <2> HIDE DEF K, L
    <2> QED
      BY <1>1, <1>2, <2>1
  <1> QED
    BY <1>3, <1>4, <1>5, <1>6, <1>7

\* A reservation sends the copies of a new attempt, which nothing carries yet.
LEMMA ReserveCarries ==
    ASSUME TypeInv, CarriedOnce, TasksMatch, NEW r \in Routings, NEW c \in Components, NEW f \in Faults,
           CanReserve(r), Free(DestinationOf(r), c), Reserve(r, c, f),
           UNCHANGED <<delivered, dead, tasks>>
    PROVE  CarriedOnce' /\ TasksMatch'
  <1> DEFINE arrival == now + DeliveryDelay[DestinationOf(r)] + f.extraDelay
             copies  == IF f.drop THEN 1 ELSE 1 + f.additionalCopies
             a == records[r].attempt + 1
             CopyOf(i) == [routing |-> r, attempt |-> a, index |-> i, consumer |-> c, dropped |-> f.drop]
             timeout == TimeoutEvent(arrival + AckTimeout[DestinationOf(r)], nextSeq, r, a)
             Arrival(i) == ArrivalEvent(arrival + i * f.copySpacing, nextSeq + 1 + i, CopyOf(i))
             arrivals == {Arrival(i) : i \in 0..(copies - 1)}
             K == Carriers(agenda)
             L == Carriers(agenda')
  <1>1. agenda' = agenda \cup {timeout} \cup arrivals /\ nextSeq' = nextSeq + 1 + copies
    BY DEF Reserve
  <1>2. ~Carries(timeout) /\ timeout.seq = nextSeq
    BY DEF TimeoutEvent, Carries
  <1>3. nextSeq \in Nat /\ copies \in Nat /\ records[r].attempt \in Nat /\ records \in [Routings -> Record]
    BY ScriptsAssumption DEF TypeInv, TypeOK, Record, FaultDecision
  <1>4. \A x \in arrivals : /\ Carries(x) /\ x.type = "arrival" /\ x.seq > nextSeq /\ x.seq < nextSeq'
                            /\ x.copy.routing = r /\ x.copy.attempt = a /\ x.copy.consumer = c
    <2>1. ASSUME NEW i \in 0..(copies - 1)
          PROVE  /\ Carries(Arrival(i)) /\ Arrival(i).type = "arrival"
                 /\ Arrival(i).seq > nextSeq /\ Arrival(i).seq < nextSeq'
                 /\ Arrival(i).copy.routing = r /\ Arrival(i).copy.attempt = a /\ Arrival(i).copy.consumer = c
      <3>1. Arrival(i).type = "arrival" /\ Arrival(i).seq = nextSeq + 1 + i /\ Arrival(i).copy = CopyOf(i)
        BY DEF ArrivalEvent
      <3>2. CopyOf(i).routing = r /\ CopyOf(i).attempt = a /\ CopyOf(i).consumer = c
        OBVIOUS
      <3> HIDE DEF a, copies, Arrival, CopyOf
      <3> QED
        BY <1>1, <1>3, <3>1, <3>2 DEF Carries
    <2> HIDE DEF a, Arrival
    <2> QED
      BY <2>1
  <1>5. \A x, y \in arrivals : x.copy = y.copy => x = y
    <2> SUFFICES ASSUME NEW i \in 0..(copies - 1), NEW j \in 0..(copies - 1), Arrival(i).copy = Arrival(j).copy
                 PROVE  i = j
      OBVIOUS
    <2>1. Arrival(i).copy = CopyOf(i) /\ Arrival(j).copy = CopyOf(j)
      BY DEF ArrivalEvent
    <2>2. CopyOf(i).index = i /\ CopyOf(j).index = j
      OBVIOUS
    <2> QED
      BY <2>1, <2>2
  <1>6. /\ \A k \in K : /\ k \in agenda /\ k.seq \in Nat /\ k.copy \in Copy
                        /\ k.copy.routing \in Routings /\ k.copy.attempt \in Nat
        /\ \A d \in delivered : d \in Copy /\ d.routing \in Routings /\ d.attempt \in Nat
    BY CarrierFields
  <1>7. /\ \A k, l \in K : k.copy = l.copy => k = l
        /\ \A k \in K : /\ k.copy.attempt <= records[k.copy.routing].attempt
                        /\ Open(k.copy) => k.copy.consumer = records[k.copy.routing].consumer
                        /\ \A t \in agenda : IsTimeout(t, k.copy.routing, k.copy.attempt) => t.seq < k.seq
        /\ \A t \in agenda : t.seq < nextSeq /\ t.seq \in Nat
        /\ \A d \in delivered : /\ ~d.dropped /\ d.attempt <= records[d.routing].attempt
                                /\ Open(d) => d.consumer = records[d.routing].consumer
    BY EventFields DEF CarriedOnce, TypeInv, TypeOK
  <1>8. /\ records'[r].attempt = a /\ records'[r].consumer = c
        /\ \A s \in Routings : s # r => records'[s] = records[s]
    <2>1. ReserveBook(r, c)
      BY ReserveIsBook
    <2> QED
      BY <2>1, ThisRecord, OtherRecords
  <1>9. /\ timeout.type = "timeout" /\ timeout.routing = r /\ timeout.attempt = a
    BY DEF TimeoutEvent
  <1>10. a = records[r].attempt + 1
    OBVIOUS
  <1> HIDE DEF arrivals, timeout, a
  <1>11. L = K \cup arrivals
    BY <1>1, <1>2, <1>4 DEF Carriers
  <1> HIDE DEF K, L, copies
  <1>12. \A k \in K, x \in arrivals : k.copy # x.copy
    BY <1>3, <1>4, <1>6, <1>7, <1>10
  <1>13. \A k, l \in L : k.copy = l.copy => k = l
    BY <1>5, <1>7, <1>11, <1>12
  <1>14. \A t \in agenda' : t.seq < nextSeq'
    BY <1>1, <1>2, <1>3, <1>4, <1>7
  <1>15. ASSUME NEW d, d \in Copy, d.attempt \in Nat, d.routing \in Routings, d.attempt <= records[d.routing].attempt,
                Open(d) => d.consumer = records[d.routing].consumer
         PROVE  /\ d.attempt <= records'[d.routing].attempt
                /\ Open(d)' => d.consumer = records'[d.routing].consumer
    <2>1. CASE d.routing = r
      <3>1. d.attempt < a
        BY <1>3, <1>10, <1>15, <2>1
      <3> QED
        BY <1>3, <1>8, <1>10, <1>15, <2>1, <3>1 DEF Open
    <2>2. CASE d.routing # r
      BY <1>8, <1>15, <2>2 DEF Open
    <2> QED
      BY <2>1, <2>2
  <1>16. ASSUME NEW k \in K
         PROVE  /\ k.copy.attempt <= records'[k.copy.routing].attempt
                /\ Open(k.copy)' => k.copy.consumer = records'[k.copy.routing].consumer
                /\ \A t \in agenda' : IsTimeout(t, k.copy.routing, k.copy.attempt) => t.seq < k.seq
    <2>1. /\ k.copy.attempt <= records'[k.copy.routing].attempt
          /\ Open(k.copy)' => k.copy.consumer = records'[k.copy.routing].consumer
      BY <1>6, <1>7, <1>15
    <2>2. ASSUME NEW t \in agenda', IsTimeout(t, k.copy.routing, k.copy.attempt) PROVE t.seq < k.seq
      <3>1. t \notin arrivals
        BY <1>4, <2>2 DEF IsTimeout, Carries
      <3>2. t # timeout
        BY <1>3, <1>6, <1>7, <1>9, <1>10, <2>2 DEF IsTimeout
      <3> QED
        BY <1>1, <1>7, <2>2, <3>1, <3>2
    <2> QED
      BY <2>1, <2>2
  <1>17. ASSUME NEW x \in arrivals
         PROVE  /\ x.copy.attempt <= records'[x.copy.routing].attempt
                /\ Open(x.copy)' => x.copy.consumer = records'[x.copy.routing].consumer
                /\ \A t \in agenda' : IsTimeout(t, x.copy.routing, x.copy.attempt) => t.seq < x.seq
    <2>1. \A t \in agenda' : IsTimeout(t, x.copy.routing, x.copy.attempt) => t = timeout \/ t \in agenda
      BY <1>1, <1>4 DEF IsTimeout, Carries
    <2>2. x.seq \in Int
      <3>1. agenda' \subseteq Event
        BY <1>3, ReserveType DEF CanReserve
      <3> QED
        BY <1>1, <3>1, EventFields
    <2> QED
      BY <1>2, <1>3, <1>4, <1>7, <1>8, <1>10, <2>1, <2>2
  <1>18. CarriedOnce'
    <2>1. \A k \in L :
             /\ k.copy.attempt <= records'[k.copy.routing].attempt
             /\ Open(k.copy)' => k.copy.consumer = records'[k.copy.routing].consumer
             /\ \A t \in agenda' : IsTimeout(t, k.copy.routing, k.copy.attempt) => t.seq < k.seq
      BY <1>11, <1>16, <1>17
    <2>2. \A d \in delivered' : /\ ~d.dropped /\ d.attempt <= records'[d.routing].attempt
                                /\ Open(d)' => d.consumer = records'[d.routing].consumer
      BY <1>6, <1>7, <1>15
    <2> QED
      BY <1>13, <1>14, <2>1, <2>2 DEF CarriedOnce, L
  <1>19. TasksMatch'
    BY <1>1, <1>2, <1>4 DEF TasksMatch, Carries
  <1> QED
    BY <1>18, <1>19

-----------------------------------------------------------------------------
(* Publications                                                             *)

\* What a handler does to the announcements and to the publish calls: nothing,
\* the start of a task, a call on a service that is not running, the answer to
\* a call with the next call of the resumed task, or the end of the tasks of a
\* process.
AnnounceSame(e) == ~Announces(e) /\ Announcements(agenda') = Announcements(agenda) /\ UNCHANGED pubs

AnnounceStart(e, x) == /\ e.type = "publish" /\ x.type = "admission" /\ x.pub = e.pub
                       /\ Announcements(agenda') = (Announcements(agenda) \ {e}) \cup {x}
                       /\ pubs' = [pubs EXCEPT ![e.pub] = "waiting"]

AnnounceSkip(e) == /\ e.type = "publish" /\ Announcements(agenda') = Announcements(agenda) \ {e}
                   /\ pubs' = [pubs EXCEPT ![e.pub] = "skipped"]

AnnounceAnswer(e, outcome) ==
    /\ e.type = "admission" /\ Complete(e.pub, outcome)
    /\ Announcements(agenda') = (Announcements(agenda) \ {e}) \cup FollowUp(e.pub, nextSeq)

AnnounceAbandon(e, D) ==
    /\ ~Announces(e) /\ Announcements(agenda') = Announcements(agenda)
    /\ pubs' = [p \in Publications |-> IF p \in D /\ pubs[p] = "waiting" THEN "abandoned" ELSE pubs[p]]

AnnounceStep(e) == \/ AnnounceSame(e) \/ AnnounceSkip(e)
                   \/ \E x : AnnounceStart(e, x)
                   \/ \E outcome \in {"published", "rejected"} : AnnounceAnswer(e, outcome)
                   \/ \E D \in SUBSET Publications : AnnounceAbandon(e, D)

LEMMA FailAnnounces ==
    ASSUME NEW r, NEW reason, NEW base, FailAttempt(r, reason, base)
    PROVE  Announcements(agenda') = Announcements(base)
  <1> DEFINE retry == RetryEvent(now' + RetryDelay[DestinationOf(r)], nextSeq, r)
  <1>1. ~Announces(retry)
    BY DEF RetryEvent, Announces
  <1>2. \/ ScheduleDispatch(base, nextSeq)
        \/ ScheduleDispatch(base \cup {retry}, nextSeq + 1)
    BY DEF FailAttempt
  <1> HIDE DEF retry
  <1>3. Announcements(base \cup {retry}) = Announcements(base)
    BY <1>1 DEF Announcements
  <1> QED
    BY <1>2, <1>3, ScheduleAdds

LEMMA TakeAnnouncements ==
    ASSUME NEW e, ~Announces(e), NEW r
    PROVE  /\ Announcements(Take(e)) = Announcements(agenda)
           /\ Announcements(Take(e) \ Deadlines(r)) = Announcements(agenda)
  BY DEF Announcements, Take, Deadlines, IsTimeout, Announces

LEMMA AcknowledgeAnnounces ==
    ASSUME NEW copy, NEW outcome, NEW e, ~Announces(e), Acknowledge(copy, outcome, Take(e))
    PROVE  Announcements(agenda') = Announcements(agenda)
  <1>1. \/ ScheduleDispatch(Take(e) \ Deadlines(copy.routing), nextSeq)
        \/ FailAttempt(copy.routing, "nack", Take(e) \ Deadlines(copy.routing))
        \/ agenda' = Take(e)
    BY DEF Acknowledge
  <1>2. Announcements(agenda') \in {Announcements(Take(e)), Announcements(Take(e) \ Deadlines(copy.routing))}
    BY <1>1, ScheduleAdds, FailAnnounces
  <1> QED
    BY <1>2, TakeAnnouncements

LEMMA DispatchAnnounce ==
    ASSUME TypeInv, NEW e \in agenda, Dispatch(e)
    PROVE  AnnounceStep(e)
  <1>0. Handle(e)
    BY DEF Dispatch
  <1> USE DEF AnnounceStep
  <1>1. CASE Publish(e)
    <2> DEFINE x == AdmissionEvent(now', nextSeq, e.pub)
    <2>1. e.type = "publish" /\ Announces(e) /\ Announces(x) /\ x.type = "admission" /\ x.pub = e.pub
      BY <1>1 DEF Publish, Announces, AdmissionEvent
    <2>2. \/ agenda' = Take(e) \cup {x} /\ pubs' = [pubs EXCEPT ![e.pub] = "waiting"]
          \/ agenda' = Take(e) /\ pubs' = [pubs EXCEPT ![e.pub] = "skipped"]
      BY <1>1 DEF Publish
    <2> HIDE DEF x
    <2>3. CASE agenda' = Take(e) \cup {x} /\ pubs' = [pubs EXCEPT ![e.pub] = "waiting"]
      <3>1. Announcements(agenda') = (Announcements(agenda) \ {e}) \cup {x}
        BY <2>1, <2>3 DEF Announcements, Take
      <3> QED
        BY <2>1, <2>3, <3>1 DEF AnnounceStart
    <2>4. CASE agenda' = Take(e) /\ pubs' = [pubs EXCEPT ![e.pub] = "skipped"]
      <3>1. Announcements(agenda') = Announcements(agenda) \ {e}
        BY <2>4 DEF Announcements, Take
      <3> QED
        BY <2>1, <2>4, <3>1 DEF AnnounceSkip
    <2> QED
      BY <2>2, <2>3, <2>4
  <1>2. CASE Reject(e)
    <2>1. e.type = "admission" /\ Complete(e.pub, "rejected") /\ agenda' = Take(e) \cup FollowUp(e.pub, nextSeq)
      BY <1>2 DEF Reject
    <2>2. \A x \in FollowUp(e.pub, nextSeq) : Announces(x)
      BY DEF FollowUp, AdmissionEvent, Announces
    <2>3. Announcements(agenda') = (Announcements(agenda) \ {e}) \cup FollowUp(e.pub, nextSeq)
      BY <2>1, <2>2 DEF Announcements, Take
    <2>4. AnnounceAnswer(e, "rejected")
      BY <2>1, <2>3 DEF AnnounceAnswer
    <2> QED
      BY <2>4
  <1>3. CASE Admit(e)
    <2>1. e.type = "admission" /\ Complete(e.pub, "published")
      BY <1>3 DEF Admit
    <2>2. ScheduleDispatch(Take(e) \cup FollowUp(e.pub, nextSeq), AfterFollowUp(e.pub, nextSeq))
      BY <1>3, Zenon DEF Admit
    <2>3. \A x \in FollowUp(e.pub, nextSeq) : Announces(x)
      BY DEF FollowUp, AdmissionEvent, Announces
    <2>4. Announcements(agenda') = Announcements(Take(e) \cup FollowUp(e.pub, nextSeq))
      BY <2>2, ScheduleAdds
    <2>5. Announcements(agenda') = (Announcements(agenda) \ {e}) \cup FollowUp(e.pub, nextSeq)
      BY <2>3, <2>4 DEF Announcements, Take
    <2>6. AnnounceAnswer(e, "published")
      BY <2>1, <2>5 DEF AnnounceAnswer
    <2> QED
      BY <2>6
  <1>4. CASE OnDispatch(e)
    <2>1. ~Announces(e) /\ UNCHANGED pubs /\ agenda' = Take(e)
      BY <1>4 DEF OnDispatch, runVars, Announces
    <2> QED
      BY <2>1, TakeAnnouncements DEF AnnounceSame
  <1>5. CASE Arrive(e)
    <2> DEFINE r == e.copy.routing
               x == ConsumerEvent(now', nextSeq, e.copy, generation[e.copy.consumer])
    <2>1. ~Announces(e) /\ UNCHANGED pubs
      BY <1>5 DEF Arrive, runVars, Announces
    <2>2. \/ FailAttempt(r, "unavailable", Take(e) \ Deadlines(r))
          \/ agenda' = Take(e) \/ agenda' = Take(e) \cup {x}
      BY <1>5 DEF Arrive
    <2>3. ~Announces(x)
      BY DEF ConsumerEvent, Announces
    <2> HIDE DEF x
    <2>4. Announcements(Take(e) \cup {x}) = Announcements(Take(e))
      BY <2>3 DEF Announcements
    <2>5. Announcements(agenda') \in {Announcements(Take(e)), Announcements(Take(e) \ Deadlines(r))}
      BY <2>2, <2>4, FailAnnounces
    <2> QED
      BY <2>1, <2>5, TakeAnnouncements DEF AnnounceSame
  <1>6. CASE Consume(e)
    <2>1. ~Announces(e) /\ UNCHANGED pubs
      BY <1>6 DEF Consume, Announces
    <2>2. \/ \E outcome : Acknowledge(e.copy, outcome, Take(e))
          \/ agenda' = Take(e)
          \/ \E delay \in Sleeps : agenda' = Take(e) \cup {WakeEvent(now' + delay, nextSeq, e.copy)}
      BY <1>6 DEF Consume
    <2>3. CASE \E delay \in Sleeps : agenda' = Take(e) \cup {WakeEvent(now' + delay, nextSeq, e.copy)}
      <3>1. PICK delay \in Sleeps : agenda' = Take(e) \cup {WakeEvent(now' + delay, nextSeq, e.copy)}
        BY <2>3
      <3> DEFINE x == WakeEvent(now' + delay, nextSeq, e.copy)
      <3>2. ~Announces(x) /\ agenda' = Take(e) \cup {x}
        BY <3>1 DEF WakeEvent, Announces
      <3> HIDE DEF x
      <3>3. Announcements(agenda') = Announcements(Take(e))
        BY <3>2 DEF Announcements
      <3> QED
        BY <2>1, <3>3, TakeAnnouncements DEF AnnounceSame
    <2>4. Announcements(Take(e)) = Announcements(agenda)
      BY <2>1, TakeAnnouncements
    <2>5. CASE \E outcome : Acknowledge(e.copy, outcome, Take(e))
      <3>1. Announcements(agenda') = Announcements(agenda)
        BY <2>1, <2>5, AcknowledgeAnnounces
      <3> QED
        BY <2>1, <3>1 DEF AnnounceSame
    <2> QED
      BY <2>1, <2>2, <2>3, <2>4, <2>5 DEF AnnounceSame
  <1>7. CASE Wake(e)
    <2>1. ~Announces(e) /\ UNCHANGED pubs
      BY <1>7 DEF Wake, Announces
    <2>2. agenda' = Take(e) \/ \E outcome : Acknowledge(e.copy, outcome, Take(e))
      BY <1>7 DEF Wake
    <2>3. Announcements(agenda') = Announcements(agenda)
      <3>1. Announcements(Take(e)) = Announcements(agenda)
        BY <2>1, TakeAnnouncements
      <3>2. CASE \E outcome : Acknowledge(e.copy, outcome, Take(e))
        BY <2>1, <3>2, AcknowledgeAnnounces
      <3> QED
        BY <2>2, <3>1, <3>2
    <2> QED
      BY <2>1, <2>3 DEF AnnounceSame
  <1>8. CASE OnTimeout(e)
    <2>1. ~Announces(e) /\ UNCHANGED pubs
      BY <1>8 DEF OnTimeout, runVars, Announces
    <2>2. FailAttempt(e.routing, "timeout", Take(e)) \/ agenda' = Take(e)
      BY <1>8 DEF OnTimeout
    <2> QED
      BY <2>1, <2>2, FailAnnounces, TakeAnnouncements DEF AnnounceSame
  <1>9. CASE OnRetry(e)
    <2>1. ~Announces(e) /\ UNCHANGED pubs
      BY <1>9 DEF OnRetry, runVars, Announces
    <2>2. ScheduleDispatch(Take(e), nextSeq) \/ agenda' = Take(e)
      BY <1>9 DEF OnRetry
    <2>3. Announcements(agenda') = Announcements(Take(e))
      BY <2>2, ScheduleAdds
    <2>4. Announcements(Take(e)) = Announcements(agenda)
      BY <2>1, TakeAnnouncements
    <2> QED
      BY <2>1, <2>3, <2>4 DEF AnnounceSame
  <1>10. CASE Lifecycle(e)
    <2> DEFINE wakes == WakesOf(e.component)
    <2>1. ~Announces(e) /\ \A x \in wakes : ~Announces(x)
      BY <1>10 DEF Lifecycle, Announces, WakesOf
    <2>2. \/ agenda' = Take(e) /\ UNCHANGED pubs
          \/ /\ \E base \in {Take(e), Take(e) \ wakes} : ConsumerChanged(e.component, base)
             /\ \E D \in SUBSET Publications :
                   pubs' = [p \in Publications |-> IF p \in D /\ pubs[p] = "waiting" THEN "abandoned" ELSE pubs[p]]
      <3> DEFINE ends == EndsProcess(lifecycle[e.component], e.next)
                 D == {p \in Publications : ends /\ Publisher[p] = e.component}
      <3>1. \/ agenda' = Take(e) /\ UNCHANGED pubs
            \/ /\ \E base \in {Take(e), Take(e) \ wakes} : ConsumerChanged(e.component, base)
               /\ pubs' = [p \in Publications |-> IF ends /\ pubs[p] = "waiting" /\ Publisher[p] = e.component
                                                  THEN "abandoned" ELSE pubs[p]]
        BY <1>10 DEF Lifecycle, runVars
      <3>2. \A p \in Publications : p \in D <=> ends /\ Publisher[p] = e.component
        OBVIOUS
      <3>3. D \in SUBSET Publications
        OBVIOUS
      <3> HIDE DEF D, ends, wakes
      <3>4. [p \in Publications |-> IF ends /\ pubs[p] = "waiting" /\ Publisher[p] = e.component
                                   THEN "abandoned" ELSE pubs[p]]
              = [p \in Publications |-> IF p \in D /\ pubs[p] = "waiting" THEN "abandoned" ELSE pubs[p]]
        BY <3>2
      <3> QED
        BY <3>1, <3>3, <3>4
    <2> HIDE DEF wakes
    <2>3. \A base \in {Take(e), Take(e) \ wakes} : Announcements(base) = Announcements(agenda)
      BY <2>1 DEF Announcements, Take
    <2>4. \A base : ConsumerChanged(e.component, base) => Announcements(agenda') = Announcements(base)
      BY ScheduleAdds DEF ConsumerChanged
    <2> QED
      BY <2>1, <2>2, <2>3, <2>4 DEF AnnounceSame, AnnounceAbandon
  <1>11. CASE Control(e)
    <2> DEFINE x == LifecycleEvent(now', nextSeq, e.component, e.next)
    <2>1. ~Announces(e) /\ ~Announces(x) /\ UNCHANGED pubs /\ agenda' = Take(e) \cup {x}
      BY <1>11 DEF Control, runVars, Announces, LifecycleEvent
    <2> HIDE DEF x
    <2>2. Announcements(agenda') = Announcements(agenda)
      BY <2>1 DEF Announcements, Take
    <2> QED
      BY <2>1, <2>2 DEF AnnounceSame
  <1> QED
    BY <1>0, <1>1, <1>2, <1>3, <1>4, <1>5, <1>6, <1>7, <1>8, <1>9, <1>10, <1>11 DEF Handle

\* Records come to exist by the admission of their publication only.
LEMMA AbsentStays ==
    ASSUME TypeInv, NEW e \in agenda, EffectOf(e), NEW p \in Publications, Absent(p),
           ~(e.type = "admission" /\ e.pub = p)
    PROVE  Absent(p)'
  <1> SUFFICES ASSUME NEW s \in Routings, s[1] = p PROVE records'[s].state = "ABSENT"
    BY DEF Absent
  <1>0. records[s].state = "ABSENT"
    BY DEF Absent
  <1>1. CASE QuietBook
    BY <1>0, <1>1 DEF QuietBook
  <1>2. CASE e.type = "admission" /\ e.pub \in Publications /\ AdmitBook(e.pub)
    <2>1. s \notin Created(e.pub)
      BY <1>2 DEF Created
    <2> QED
      BY <1>0, <1>2, <2>1 DEF AdmitBook
  <1>3. ASSUME NEW r \in Routings, AckBook(r) \/ DeadBook(r) \/ RetryBook(r) \/ RequeueBook(r)
        PROVE  records'[s].state = "ABSENT"
    <2>1. s # r
      BY <1>0, <1>3, ThisRecord
    <2> QED
      BY <1>0, <1>3, <2>1, OtherRecords
  <1> QED
    BY <1>1, <1>2, <1>3 DEF EffectOf

LEMMA AbsentInLoop ==
    ASSUME TypeInv, LoopBook, NEW p \in Publications, Absent(p)
    PROVE  Absent(p)'
  <1> SUFFICES ASSUME NEW s \in Routings, s[1] = p PROVE records'[s].state = "ABSENT"
    BY DEF Absent
  <1>0. records[s].state = "ABSENT"
    BY DEF Absent
  <1>1. PICK r \in Routings : \E c : ReserveBook(r, c)
    BY DEF LoopBook
  <1>2. s # r
    BY <1>0, <1>1, ThisRecord
  <1> QED
    BY <1>0, <1>1, <1>2, OtherRecords

\* What a publish call may become.
LEMMA AnnouncementsStep ==
    ASSUME TypeInv, TypeInv', PublishedOnce, NEW e \in agenda, AnnounceStep(e), EffectOf(e)
    PROVE  PublishedOnce'
  <1> DEFINE A == Announcements(agenda)
             B == Announcements(agenda')
             Once == /\ \A f, g \in B : f.pub = g.pub => f = g
                     /\ \A f \in B : f.type = "publish" =>
                           pubs'[f.pub] = "idle" /\ \A p \in Publications : f.pub \notin Follow[p]
                     /\ \A f \in B : f.type = "admission" => pubs'[f.pub] # "idle" /\ Absent(f.pub)'
                     /\ \A p \in Publications : pubs'[p] = "idle" => Absent(p)'
                     /\ \A p \in Publications : \A f \in Follow[p] : pubs'[p] \in {"idle", "waiting"} => pubs'[f] = "idle"
                     /\ \A p \in Publications : pubs'[p] = "waiting" => \E f \in B : f.type = "admission" /\ f.pub = p
  <1>a. Once => PublishedOnce'
    BY DEF PublishedOnce, Announcements, Announces
  <1>b. /\ \A f, g \in A : f.pub = g.pub => f = g
        /\ \A f \in A : f.type = "publish" => pubs[f.pub] = "idle" /\ \A p \in Publications : f.pub \notin Follow[p]
        /\ \A f \in A : f.type = "admission" => pubs[f.pub] # "idle" /\ Absent(f.pub)
        /\ \A p \in Publications : pubs[p] = "idle" => Absent(p)
        /\ \A p \in Publications : \A f \in Follow[p] : pubs[p] \in {"idle", "waiting"} => pubs[f] = "idle"
        /\ \A p \in Publications : pubs[p] = "waiting" => \E f \in A : f.type = "admission" /\ f.pub = p
    BY DEF PublishedOnce, Announcements, Announces
  <1>c. /\ \A f \in A : f.pub \in Publications /\ f.type \in {"publish", "admission"}
        /\ pubs \in [Publications -> PubStatus]
        /\ \A p \in Publications : Follow[p] \subseteq Publications
        /\ \A p \in Publications : \A f, g \in Follow[p] : f = g
        /\ \A p, q \in Publications : Follow[p] \cap Follow[q] # {} => p = q
    BY EventFields, PublicationsAssumption DEF TypeInv, TypeOK, Announcements, Announces
  <1>d. \A p \in Publications : Absent(p) /\ ~(e.type = "admission" /\ e.pub = p) => Absent(p)'
    BY AbsentStays
  <1>e. e.type \in {"publish", "admission"} => e \in A
    BY DEF Announcements, Announces
  <1>f. e.type = "admission" => \A p \in Publications : pubs[p] = "idle" => p # e.pub
    BY <1>b, <1>e
  <1> HIDE DEF A, B
  <1>1. CASE AnnounceSame(e)
    <2>1. B = A /\ pubs' = pubs /\ e.type # "admission"
      BY <1>1 DEF AnnounceSame, Announces, A, B
    <2>2. \A p \in Publications : Absent(p) => Absent(p)'
      BY <1>d, <2>1
    <2> QED
      BY <1>a, <1>b, <1>c, <2>1, <2>2
  <1>2. CASE AnnounceSkip(e)
    <2>1. /\ B = A \ {e} /\ e \in A /\ e.type = "publish" /\ e.pub \in Publications /\ pubs[e.pub] = "idle"
          /\ pubs'[e.pub] = "skipped" /\ \A p \in Publications : p # e.pub => pubs'[p] = pubs[p]
          /\ \A p \in Publications : e.pub \notin Follow[p]
      BY <1>b, <1>c, <1>e, <1>2 DEF AnnounceSkip, A, B
    <2>2. \A p \in Publications : Absent(p) => Absent(p)'
      BY <1>d, <2>1
    <2> QED
      BY <1>a, <1>b, <1>c, <2>1, <2>2
  <1>3. ASSUME NEW x, AnnounceStart(e, x) PROVE PublishedOnce'
    <2>1. /\ B = (A \ {e}) \cup {x} /\ e \in A /\ e.type = "publish" /\ e.pub \in Publications /\ pubs[e.pub] = "idle"
          /\ x.type = "admission" /\ x.pub = e.pub
          /\ pubs'[e.pub] = "waiting" /\ \A p \in Publications : p # e.pub => pubs'[p] = pubs[p]
          /\ \A p \in Publications : e.pub \notin Follow[p]
      BY <1>b, <1>c, <1>e, <1>3 DEF AnnounceStart, A, B
    <2>2. \A p \in Publications : Absent(p) => Absent(p)'
      BY <1>d, <2>1
    <2> QED
      BY <1>a, <1>b, <1>c, <2>1, <2>2
  <1>4. ASSUME NEW D \in SUBSET Publications, AnnounceAbandon(e, D) PROVE PublishedOnce'
    <2>1. /\ B = A /\ e.type # "admission"
          /\ \A p \in Publications : pubs'[p] = IF p \in D /\ pubs[p] = "waiting" THEN "abandoned" ELSE pubs[p]
      BY <1>4 DEF AnnounceAbandon, Announces, A, B
    <2>2. \A p \in Publications : Absent(p) => Absent(p)'
      BY <1>d, <2>1
    <2> QED
      BY <1>a, <1>b, <1>c, <2>1, <2>2
  <1>5. ASSUME NEW outcome \in {"published", "rejected"}, AnnounceAnswer(e, outcome) PROVE PublishedOnce'
    <2> DEFINE S == FollowUp(e.pub, nextSeq)
               W == pubs[e.pub] = "waiting"
    <2>1. /\ B = (A \ {e}) \cup S /\ e \in A /\ e.type = "admission" /\ e.pub \in Publications
          /\ pubs[e.pub] # "idle"
          /\ \A p \in Publications : pubs'[p] = IF p = e.pub /\ W THEN outcome
                                               ELSE IF W /\ p \in Follow[e.pub] THEN "waiting" ELSE pubs[p]
      <3>1. e.type = "admission" /\ Complete(e.pub, outcome) /\ B = (A \ {e}) \cup S
        BY <1>5 DEF AnnounceAnswer, A, B
      <3>2. e \in A /\ e.pub \in Publications /\ pubs[e.pub] # "idle"
        BY <1>b, <1>c, <1>e, <3>1
      <3>3. \A p \in Publications : pubs'[p] = IF p = e.pub /\ W THEN outcome
                                               ELSE IF W /\ p \in Follow[e.pub] THEN "waiting" ELSE pubs[p]
        BY <3>1 DEF Complete, Resumed
      <3> HIDE DEF S
      <3> QED
        BY <3>1, <3>2, <3>3
    <2>2. /\ \A x \in S : x.type = "admission" /\ W /\ x.pub \in Follow[e.pub]
          /\ \A x, y \in S : x.pub = y.pub => x = y
          /\ W => \A q \in Follow[e.pub] : \E x \in S : x.type = "admission" /\ x.pub = q
      <3> DEFINE Of(q) == AdmissionEvent(now', nextSeq, q)
      <3>1. \A q : Of(q).type = "admission" /\ Of(q).pub = q
        BY DEF AdmissionEvent
      <3>2. S = {Of(q) : q \in (IF W THEN Follow[e.pub] ELSE {})}
        BY DEF FollowUp, Resumed
      <3> HIDE DEF S, Of
      <3> QED
        BY <3>1, <3>2
    <2>3. W => \A q \in Follow[e.pub] : pubs[q] = "idle" /\ q # e.pub /\ q \in Publications
      BY <1>b, <1>c, <2>1
    <2>4. \A p \in Publications : Absent(p) /\ p # e.pub => Absent(p)'
      BY <1>d
    <2> HIDE DEF S
    <2>5. \A f, g \in B : f.pub = g.pub => f = g
      <3>1. \A f \in A, x \in S : f.pub # x.pub
        BY <1>b, <1>c, <2>1, <2>2, <2>3
      <3> QED
        BY <1>b, <2>1, <2>2, <3>1
    <2>6. \A f \in B : f.type = "publish" => pubs'[f.pub] = "idle" /\ \A p \in Publications : f.pub \notin Follow[p]
      BY <1>b, <1>c, <2>1, <2>2
    <2>7. \A f \in B : f.type = "admission" => pubs'[f.pub] # "idle" /\ Absent(f.pub)'
      BY <1>b, <1>c, <2>1, <2>2, <2>3, <2>4
    <2>8. \A p \in Publications : pubs'[p] = "idle" => Absent(p)'
      BY <1>b, <2>1, <2>4
    <2>9. \A p \in Publications : \A f \in Follow[p] : pubs'[p] \in {"idle", "waiting"} => pubs'[f] = "idle"
      <3> SUFFICES ASSUME NEW p \in Publications, NEW f \in Follow[p], pubs'[p] \in {"idle", "waiting"}
                   PROVE  pubs'[f] = "idle"
        OBVIOUS
      <3>1. f \in Publications
        BY <1>c
      <3>2. pubs[f] = "idle"
        BY <1>b, <2>1, <2>3
      <3>3. ~(W /\ f \in Follow[e.pub])
        <4> SUFFICES ASSUME W, f \in Follow[e.pub] PROVE FALSE
          OBVIOUS
        <4>1. p = e.pub
          BY <1>c, <2>1
        <4> QED
          BY <2>1, <4>1
      <3> QED
        BY <2>1, <3>1, <3>2, <3>3
    <2>10. \A p \in Publications : pubs'[p] = "waiting" => \E f \in B : f.type = "admission" /\ f.pub = p
      BY <1>b, <2>1, <2>2
    <2> QED
      BY <1>a, <2>5, <2>6, <2>7, <2>8, <2>9, <2>10
  <1> QED
    BY <1>1, <1>2, <1>3, <1>4, <1>5 DEF AnnounceStep

LEMMA LoopAnnounces ==
    ASSUME TypeInv, PublishedOnce, ReserveNext
    PROVE  PublishedOnce'
  <1>1. PICK r, c, f : Reserve(r, c, f)
    BY DEF ReserveNext
  <1> DEFINE copies == IF f.drop THEN 1 ELSE 1 + f.additionalCopies
             arrival == now + DeliveryDelay[DestinationOf(r)] + f.extraDelay
             CopyOf(i) == [routing |-> r, attempt |-> records[r].attempt + 1, index |-> i,
                           consumer |-> c, dropped |-> f.drop]
             S == {TimeoutEvent(arrival + AckTimeout[DestinationOf(r)], nextSeq, r, records[r].attempt + 1)}
                  \cup {ArrivalEvent(arrival + i * f.copySpacing, nextSeq + 1 + i, CopyOf(i)) :
                           i \in 0..(copies - 1)}
  <1>2. agenda' = agenda \cup S
    BY <1>1 DEF Reserve
  <1>3. \A x \in S : ~Announces(x)
    BY DEF TimeoutEvent, ArrivalEvent, Announces
  <1> HIDE DEF S
  <1>4. Announcements(agenda') = Announcements(agenda) /\ pubs' = pubs
    BY <1>2, <1>3 DEF Announcements, ReserveNext, runVars
  <1>5. LoopBook
    BY ReserveNextBook
  <1>6. \A p \in Publications : Absent(p) => Absent(p)'
    BY <1>5, AbsentInLoop
  <1>7. /\ \A x \in agenda' : Announces(x) => x \in agenda
        /\ \A x \in agenda : Announces(x) => x \in agenda'
    BY <1>2, <1>3
  <1>8. \A x \in agenda : x.type = "admission" => x.pub \in Publications
    BY EventFields DEF TypeInv, TypeOK
  <1> QED
    BY <1>4, <1>6, <1>7, <1>8 DEF PublishedOnce, Announces

-----------------------------------------------------------------------------
(* The invariant holds                                                      *)

BusInv == TypeInv /\ BooksInv /\ CarriedOnce

\* What a run starts with: a script's events, each publication at most once.
LEMMA InitEvents ==
    ASSUME Init
    PROVE  /\ \A e \in agenda : e.type \in {"publish", "lifecycle", "control"} /\ e.seq < nextSeq
           /\ \A e, f \in agenda : e.type = "publish" /\ f.type = "publish" /\ e.pub = f.pub => e = f
           /\ \A e \in agenda : e.type = "publish" => \A p \in Publications : e.pub \notin Follow[p]
  <1>1. PICK s \in Scripts : /\ agenda = {ScriptEvent(s[i], i - 1) : i \in DOMAIN s}
                             /\ nextSeq = Len(s)
    BY DEF Init
  <1>2. s \in Seq(Step)
    BY ScriptsAssumption
  <1>3. \A i \in DOMAIN s : s[i] \in Step /\ i \in 1..Len(s) /\ Len(s) \in Nat
    BY <1>2
  <1>4. \A i \in DOMAIN s :
           /\ ScriptEvent(s[i], i - 1).seq = i - 1
           /\ ScriptEvent(s[i], i - 1).type \in {"publish", "lifecycle", "control"}
           /\ ScriptEvent(s[i], i - 1).type = "publish" =>
                 s[i].type = "publish" /\ ScriptEvent(s[i], i - 1).pub = s[i].pub
    BY <1>3 DEF ScriptEvent, Step, PublishEvent, LifecycleEvent, ControlEvent
  <1>5. /\ \A i, j \in DOMAIN s : s[i].type = "publish" /\ s[j].type = "publish" /\ s[i].pub = s[j].pub => i = j
        /\ \A i \in DOMAIN s : s[i].type = "publish" => \A p \in Publications : s[i].pub \notin Follow[p]
    BY ScriptsAssumption
  <1> QED
    BY <1>1, <1>3, <1>4, <1>5

LEMMA InitBooks == Init => BusInv
  <1> SUFFICES ASSUME Init PROVE BusInv
    OBVIOUS
  <1>1. TypeInv
    BY InitTypeInv
  <1>2. /\ \A r \in Routings : records[r].state = "ABSENT" /\ records[r].attempt = 0
        /\ reserved = {} /\ dead = {} /\ tasks = {} /\ delivered = {}
        /\ pubs = [p \in Publications |-> "idle"]
    BY DEF Init, Unattempted
  <1>3. /\ \A e \in agenda : e.type \in {"publish", "lifecycle", "control"} /\ e.seq < nextSeq
        /\ \A e, f \in agenda : e.type = "publish" /\ f.type = "publish" /\ e.pub = f.pub => e = f
        /\ \A e \in agenda : e.type = "publish" => \A p \in Publications : e.pub \notin Follow[p]
    BY InitEvents
  <1>4. \A e \in agenda : e.type = "publish" => e.pub \in Publications
    BY <1>1, EventFields DEF TypeInv, TypeOK
  <1>5. ReservationsMatch
    BY <1>2 DEF ReservationsMatch
  <1>6. TimersMatch
    BY <1>2, <1>3 DEF TimersMatch
  <1>7. DeadLettersExact
    <2>1. \A r \in Routings : MaxAttempts[DestinationOf(r)] \in Nat
      BY RoutingFacts, DestinationsAssumption
    <2> QED
      BY <1>2, <2>1 DEF DeadLettersExact
  <1>8. TasksMatch
    BY <1>2, <1>3 DEF TasksMatch
  <1>9. AttemptsMatch
    BY <1>2 DEF AttemptsMatch
  <1>10. PublishedOnce
    <2>1. \A p \in Publications : pubs[p] = "idle" /\ Absent(p) /\ Follow[p] \subseteq Publications
      BY <1>2, PublicationsAssumption DEF Absent
    <2> QED
      BY <1>3, <1>4, <2>1 DEF PublishedOnce, Announcements, Announces
  <1>11. CarriedOnce
    BY <1>2, <1>3 DEF CarriedOnce, Carriers, Carries
  <1> QED
    BY <1>1, <1>5, <1>6, <1>7, <1>8, <1>9, <1>10, <1>11 DEF BusInv, BooksInv, BooksMatch

LEMMA DispatchBooks == ASSUME BusInv, NEW e \in agenda, Dispatch(e) PROVE BusInv'
  <1>0. TypeInv /\ TypeInv' /\ BooksInv /\ CarriedOnce /\ BooksMatch /\ AttemptsMatch /\ PublishedOnce
    BY DispatchType DEF BusInv, BooksInv
  <1>1. EffectOf(e) /\ BookStep /\ AnnounceStep(e)
    BY <1>0, DispatchEffect, DispatchBook, DispatchAnnounce DEF BookStep
  <1>2. ReservationsMatch' /\ TimersMatch' /\ DeadLettersExact' /\ AttemptsMatch'
    BY <1>0, <1>1, ReservationsStep, TimersStep, DeadLettersStep, AttemptsStep DEF BooksMatch
  <1>3. TasksMatch' /\ CarriedOnce'
    BY <1>0, HandlerTasks, HandlerCarries
  <1>4. PublishedOnce'
    BY <1>0, <1>1, AnnouncementsStep
  <1> QED
    BY <1>0, <1>2, <1>3, <1>4 DEF BusInv, BooksInv, BooksMatch

LEMMA LoopBooks == ASSUME BusInv, ReserveNext PROVE BusInv'
  <1>0. TypeInv /\ TypeInv' /\ BooksInv /\ CarriedOnce /\ BooksMatch /\ AttemptsMatch /\ PublishedOnce
    BY ReserveNextType DEF BusInv, BooksInv
  <1>1. BookStep
    BY <1>0, ReserveNextBook DEF BookStep
  <1>2. ReservationsMatch' /\ TimersMatch' /\ DeadLettersExact' /\ AttemptsMatch'
    BY <1>0, <1>1, ReservationsStep, TimersStep, DeadLettersStep, AttemptsStep DEF BooksMatch
  <1>3. TasksMatch' /\ CarriedOnce'
    <2>1. PICK r \in Routings : \E c \in SubscriberSet(DestinationOf(r)) : \E f \in Faults :
              OldestReservable(r) /\ Free(DestinationOf(r), c) /\ Reserve(r, c, f)
      BY <1>0, ReservePick
    <2>2. PICK c \in SubscriberSet(DestinationOf(r)), f \in Faults :
              OldestReservable(r) /\ Free(DestinationOf(r), c) /\ Reserve(r, c, f)
      BY <2>1
    <2>3. c \in Components /\ CanReserve(r) /\ UNCHANGED <<delivered, dead, tasks>> /\ TasksMatch
      BY <1>0, <2>2, RoutingFacts DEF OldestReservable, ReserveNext, runVars, BooksMatch
    <2> QED
      BY <1>0, <2>2, <2>3, ReserveCarries
  <1>4. PublishedOnce'
    BY <1>0, LoopAnnounces
  <1> QED
    BY <1>0, <1>2, <1>3, <1>4 DEF BusInv, BooksInv, BooksMatch

LEMMA NextBooks == BusInv /\ [Next]_vars => BusInv'
  <1>1. ASSUME BusInv, Next PROVE BusInv'
    BY <1>1, DispatchBooks, LoopBooks DEF Next
  <1>2. ASSUME BusInv, UNCHANGED vars PROVE BusInv'
    <2>1. UNCHANGED <<now, nextSeq, agenda, records, nextOrder, delivered, accepted, reserved, cursors, dead, dispatchPending, draining,
                      lifecycle, generation, pubs, tasks, status>>
      BY <1>2 DEF vars, busVars, runVars
    <2>2. TypeInv'
      BY <1>2, NextTypeInv DEF BusInv
    <2>3. BooksMatch'
      BY <1>2, <2>1 DEF BusInv, BooksInv, BooksMatch, ReservationsMatch, TimersMatch, DeadLettersExact, TasksMatch
    <2>4. AttemptsMatch' /\ PublishedOnce'
      BY <1>2, <2>1 DEF BusInv, BooksInv, AttemptsMatch, PublishedOnce, Absent, Announcements
    <2>5. CarriedOnce'
      BY <1>2, <2>1 DEF BusInv, CarriedOnce, Carriers, Open
    <2> QED
      BY <2>2, <2>3, <2>4, <2>5 DEF BusInv, BooksInv
  <1> QED
    BY <1>1, <1>2

THEOREM BusInvariant == Spec => []BusInv
  BY InitBooks, NextBooks, PTL DEF Spec

\* The books of the bus agree with its records in every run: a subscription is
\* reserved for exactly one attempt in flight, deadlines and retries are those
\* of the records, a record is dead exactly when the dead letters hold it with
\* its attempts used up, and suspended handlers have exactly one wake.
THEOREM BooksAgree == Spec => []BooksMatch
  BY BusInvariant, PTL DEF BusInv, BooksInv

-----------------------------------------------------------------------------
(* Settled records                                                          *)

\* Only the end of a handler acknowledges: of a copy that was delivered, of
\* the attempt in flight.
LEMMA AckSource ==
    ASSUME TypeInv, NEW e \in agenda, Dispatch(e), NEW r \in Routings,
           records[r].state # "ACKED", records'[r].state = "ACKED"
    PROVE  /\ e \in Carriers(agenda) /\ e.copy \in delivered /\ e.copy.routing = r /\ Open(e.copy)
           /\ records'[r].attempt = records[r].attempt /\ records'[r].consumer = records[r].consumer
           /\ \/ e.type = "consumer" /\ OfThisProcess(e)
              \/ e.type = "wake" /\ e.copy \in tasks
  <1>0. e \in Event /\ Handle(e) /\ records \in [Routings -> Record]
    BY TakeFacts DEF Dispatch, TypeInv, TypeOK
  <1>1. ASSUME NEW s, NEW reason, NEW base, FailAttempt(s, reason, base) PROVE FALSE
    BY <1>0, <1>1 DEF FailAttempt
  <1>2. ASSUME Carries(e), NEW outcome, Acknowledge(e.copy, outcome, Take(e))
        PROVE  /\ e \in Carriers(agenda) /\ e.copy \in delivered /\ e.copy.routing = r /\ Open(e.copy)
               /\ records'[r].attempt = records[r].attempt /\ records'[r].consumer = records[r].consumer
    <2>1. /\ e.copy \in delivered /\ Open(e.copy)
          /\ records' = [records EXCEPT ![e.copy.routing].settled = TRUE, ![e.copy.routing].state = "ACKED"]
      BY <1>1, <1>2 DEF Acknowledge
    <2>2. e.copy.routing = r
      BY <1>0, <2>1
    <2> QED
      BY <1>0, <1>2, <2>1, <2>2 DEF Carriers, Record
  <1>3. CASE records' = records
    BY <1>3
  <1>4. CASE Admit(e)
    <2>1. records' = [s \in Routings |->
                        IF s \in Created(e.pub)
                        THEN Unattempted("QUEUED", nextOrder + Position(s))
                        ELSE records[s]]
      BY <1>4, Zenon DEF Admit
    <2>2. records'[r] = records[r] \/ records'[r].state = "QUEUED"
      BY <2>1 DEF Unattempted
    <2> QED
      BY <2>2
  <1>5. CASE Consume(e)
    <2>1. /\ Carries(e) /\ e.type = "consumer"
          /\ \/ records' = records
             \/ OfThisProcess(e) /\ \E outcome : Acknowledge(e.copy, outcome, Take(e))
      BY <1>5 DEF Consume, Carries, busVars
    <2> QED
      BY <1>2, <1>3, <2>1
  <1>6. CASE Wake(e)
    <2>1. /\ Carries(e) /\ e.type = "wake"
          /\ \/ records' = records
             \/ e.copy \in tasks /\ \E outcome : Acknowledge(e.copy, outcome, Take(e))
      BY <1>6 DEF Wake, Carries, busVars
    <2> QED
      BY <1>2, <1>3, <2>1
  <1>7. CASE OnRetry(e)
    <2>1. records' = records \/ records' = [records EXCEPT ![e.routing].state = "QUEUED",
                                                           ![e.routing].consumer = NoSubscriber,
                                                           ![e.routing].settled = FALSE]
      BY <1>7 DEF OnRetry
    <2>2. records[r] \in Record
      BY <1>0
    <2>3. records'[r] = records[r] \/ records'[r].state = "QUEUED"
      BY <1>0, <2>1, <2>2 DEF Record
    <2> QED
      BY <2>3
  <1>8. CASE Publish(e) \/ Reject(e) \/ OnDispatch(e) \/ Lifecycle(e) \/ Control(e)
    <2>1. records' = records
      BY <1>8 DEF Publish, Reject, OnDispatch, Lifecycle, Control, busVars
    <2> QED
      BY <1>3, <2>1
  <1>9. CASE Arrive(e) \/ OnTimeout(e)
    <2>1. records' = records \/ \E s, reason, base : FailAttempt(s, reason, base)
      BY <1>9 DEF Arrive, OnTimeout
    <2> QED
      BY <1>1, <1>3, <2>1
  <1> QED
    BY <1>0, <1>4, <1>5, <1>6, <1>7, <1>8, <1>9 DEF Handle

\* Under every effect a settled record stays, and attempts only grow.
LEMMA SettledStays ==
    ASSUME TypeInv, AttemptsMatch, BookStep, NEW r \in Routings
    PROVE  /\ records[r].state \in {"ACKED", "DEAD"} => records'[r] = records[r]
           /\ records'[r].attempt >= records[r].attempt
           /\ records[r].state # "ABSENT" => records'[r].state # "ABSENT" /\ records'[r].order = records[r].order
  <1>0. records \in [Routings -> Record] /\ records[r] \in Record /\ records[r].attempt \in Nat
    BY DEF TypeInv, TypeOK, Record
  <1>1. CASE records'[r] = records[r]
    BY <1>0, <1>1
  <1>2. CASE QuietBook
    BY <1>1, <1>2 DEF QuietBook
  <1>3. ASSUME NEW p \in Publications, AdmitBook(p)
        PROVE  records'[r] = records[r] \/ (records[r].state = "ABSENT" /\ records'[r].attempt = records[r].attempt)
    BY <1>3, AdmittedRecords DEF AttemptsMatch
  <1>4. ASSUME NEW s \in Routings, AckBook(s) \/ DeadBook(s) \/ RetryBook(s) \/ RequeueBook(s) \/ \E c : ReserveBook(s, c)
        PROVE  \/ records'[r] = records[r]
               \/ /\ records[r].state \notin {"ACKED", "DEAD"} /\ records'[r].state # "ABSENT"
                  /\ records'[r].attempt \in {records[r].attempt, records[r].attempt + 1}
                  /\ records'[r].order = records[r].order
    <2>1. CASE s # r
      BY <1>4, <2>1, OtherRecords
    <2>2. CASE s = r
      <3>1. records'[r].order = records[r].order
        <4>1. AckBook(r) \/ DeadBook(r) \/ RetryBook(r) => records'[r].order = records[r].order
          BY <1>0 DEF AckBook, DeadBook, RetryBook, Record
        <4>2. RequeueBook(r) => records'[r].order = records[r].order
          BY <1>0 DEF RequeueBook, Record
        <4>3. ASSUME NEW c, ReserveBook(r, c) PROVE records'[r].order = records[r].order
          BY <1>0, <4>3 DEF ReserveBook, Record
        <4> QED
          BY <1>4, <2>2, <4>1, <4>2, <4>3
      <3> QED
        BY <1>4, <2>2, <3>1, ThisRecord
    <2> QED
      BY <2>1, <2>2
  <1>5. CASE \E s \in Routings : AckBook(s) \/ DeadBook(s) \/ RetryBook(s) \/ RequeueBook(s) \/ \E c : ReserveBook(s, c)
    BY <1>0, <1>4, <1>5
  <1>6. CASE \E p \in Publications : AdmitBook(p)
    BY <1>0, <1>3, <1>6
  <1> QED
    BY <1>2, <1>5, <1>6 DEF BookStep, HandlerBook, LoopBook

\* A settled record stays as it is, attempts are never taken back, and an
\* attempt is acknowledged strictly before its deadline, whatever duplicated,
\* late or stale copies still are on their way.
THEOREM SettledForGood == Spec => TerminalIsFinal
  <1> DEFINE Final == \A r \in Routings :
                        /\ records[r].state \in {"ACKED", "DEAD"} => records'[r] = records[r]
                        /\ records'[r].attempt >= records[r].attempt
                        /\ records[r].state = "IN_FLIGHT" /\ records'[r].state = "ACKED" =>
                              \A e \in agenda : IsTimeout(e, r, records[r].attempt) => now' < e.time
  <1>1. ASSUME BusInv, Next PROVE Final
    <2> SUFFICES ASSUME NEW r \in Routings
                 PROVE  /\ records[r].state \in {"ACKED", "DEAD"} => records'[r] = records[r]
                        /\ records'[r].attempt >= records[r].attempt
                        /\ records[r].state = "IN_FLIGHT" /\ records'[r].state = "ACKED" =>
                              \A e \in agenda : IsTimeout(e, r, records[r].attempt) => now' < e.time
      OBVIOUS
    <2>0. TypeInv /\ BooksInv /\ AttemptsMatch /\ CarriedOnce /\ agenda \subseteq Event
      BY <1>1 DEF BusInv, BooksInv, TypeInv, TypeOK
    <2>1. CASE ReserveNext
      <3>1. LoopBook
        BY <2>0, <2>1, ReserveNextBook
      <3>2. PICK s \in Routings : \E c : ReserveBook(s, c)
        BY <3>1 DEF LoopBook
      <3>3. records'[r] = records[r] \/ records'[r].state = "IN_FLIGHT"
        BY <2>0, <3>2, OtherRecords, ThisRecord
      <3>4. BookStep
        BY <3>1 DEF BookStep
      <3> QED
        BY <2>0, <3>3, <3>4, SettledStays
    <2>2. ASSUME NEW e \in agenda, Dispatch(e)
          PROVE  /\ records[r].state \in {"ACKED", "DEAD"} => records'[r] = records[r]
                 /\ records'[r].attempt >= records[r].attempt
                 /\ records[r].state = "IN_FLIGHT" /\ records'[r].state = "ACKED" =>
                       \A t \in agenda : IsTimeout(t, r, records[r].attempt) => now' < t.time
      <3>1. BookStep
        BY <2>0, <2>2, DispatchBook DEF BookStep
      <3>2. ASSUME records[r].state = "IN_FLIGHT", records'[r].state = "ACKED",
                   NEW t \in agenda, IsTimeout(t, r, records[r].attempt)
            PROVE  now' < t.time
        <4>1. e \in Carriers(agenda) /\ e.copy.routing = r /\ e.copy.attempt = records[r].attempt
          BY <2>0, <2>2, <3>2, AckSource DEF Open
        <4>2. t.seq < e.seq
          BY <2>0, <3>2, <4>1 DEF CarriedOnce
        <4>3. t # e /\ now' = e.time /\ IsFirst(e, agenda)
          BY <2>2, <3>2, <4>1 DEF Dispatch, IsTimeout, Carriers, Carries
        <4>4. t.time \in Nat /\ e.time \in Nat /\ t.seq \in Nat /\ e.seq \in Nat
          BY <2>0, EventFields
        <4> QED
          BY <4>2, <4>3, <4>4 DEF IsFirst, Earlier
      <3> QED
        BY <2>0, <3>1, <3>2, SettledStays
    <2> QED
      BY <1>1, <2>1, <2>2 DEF Next
  <1>2. BusInv /\ [Next]_vars => [Final]_vars
    BY <1>1
  <1> QED
    BY <1>2, BusInvariant, PTL DEF Spec, TerminalIsFinal

-----------------------------------------------------------------------------
(* Deliveries and their order                                               *)

\* The orders given so far are below the next one.
OrdersMatch == \A r \in Routings : records[r].state # "ABSENT" => records[r].order < nextOrder

\* Work on its way was accepted in the generation it carries, and suspended
\* work in the generation that runs: a crash abandons it.
AcceptedInv ==
    /\ \A e \in agenda : e.type = "consumer" => <<e.copy, e.generation>> \in accepted
    /\ \A c \in tasks : <<c, generation[c.consumer]>> \in accepted

\* What a handler leaves suspended belongs to processes that go on.
LEMMA HandlerSuspends ==
    ASSUME TypeInv, NEW e \in agenda, Dispatch(e)
    PROVE  /\ accepted \subseteq accepted'
           /\ \A c \in tasks' :
                 /\ generation'[c.consumer] = generation[c.consumer]
                 /\ \/ c \in tasks
                    \/ e.type = "consumer" /\ c = e.copy /\ OfThisProcess(e)
  <1>0. e \in Event /\ Handle(e)
    BY TakeFacts DEF Dispatch
  <1>1. CASE Publish(e) \/ Reject(e) \/ OnDispatch(e) \/ Control(e)
    <2>1. UNCHANGED <<accepted, generation, tasks>>
      BY <1>1 DEF Publish, Reject, OnDispatch, Control, busVars, runVars
    <2> QED
      BY <2>1
  <1>2. CASE Admit(e)
    <2>1. UNCHANGED <<accepted, generation, tasks>>
      BY <1>2 DEF Admit
    <2> QED
      BY <2>1
  <1>3. CASE Arrive(e)
    <2>1. UNCHANGED <<generation, tasks>> /\ accepted \subseteq accepted'
      BY <1>3 DEF Arrive, runVars
    <2> QED
      BY <2>1
  <1>4. CASE Consume(e)
    <2>1. UNCHANGED <<accepted, generation>> /\ e.type = "consumer"
      BY <1>4 DEF Consume, busVars, Acknowledge
    <2>2. tasks' = tasks \/ (tasks' = tasks \cup {e.copy} /\ OfThisProcess(e))
      BY <1>4 DEF Consume
    <2> QED
      BY <2>1, <2>2
  <1>5. CASE Wake(e)
    <2>1. UNCHANGED <<accepted, generation>> /\ tasks' \subseteq tasks
      BY <1>5 DEF Wake, busVars, Acknowledge
    <2> QED
      BY <2>1
  <1>6. CASE OnTimeout(e) \/ OnRetry(e)
    <2>1. UNCHANGED <<accepted, generation, tasks>>
      BY <1>6 DEF OnTimeout, OnRetry, runVars
    <2> QED
      BY <2>1
  <1>7. CASE Lifecycle(e)
    <2>1. accepted' = accepted /\ tasks' \subseteq tasks
      BY <1>7 DEF Lifecycle, busVars, runVars
    <2>2. \/ generation' = generation
          \/ /\ generation' = [generation EXCEPT ![e.component] = @ + 1]
             /\ tasks' = tasks \ TasksOf(e.component)
      BY <1>7 DEF Lifecycle, runVars
    <2>3. ASSUME NEW c \in tasks' PROVE generation'[c.consumer] = generation[c.consumer]
      <3>1. c \in Copy /\ c.consumer \in Components /\ generation \in [Components -> Nat]
        BY <2>1, <2>3 DEF TypeInv, TypeOK, Copy
      <3>2. generation' = generation \/ c.consumer # e.component
        BY <2>1, <2>2, <2>3 DEF TasksOf
      <3> QED
        BY <2>2, <3>1, <3>2
    <2> QED
      BY <2>1, <2>3
  <1> QED
    BY <1>0, <1>1, <1>2, <1>3, <1>4, <1>5, <1>6, <1>7 DEF Handle

LEMMA AcceptedStep ==
    ASSUME BusInv, AcceptedInv, Next
    PROVE  AcceptedInv'
  <1>0. TypeInv /\ TasksMatch
    BY DEF BusInv, BooksInv, BooksMatch
  <1>1. CASE ReserveNext
    <2>1. UNCHANGED <<accepted, generation, tasks>>
      BY <1>1 DEF ReserveNext, runVars
    <2>2. \A f \in agenda' : f.type = "consumer" => f \in agenda
      BY <1>1 DEF ReserveNext, Reserve, TimeoutEvent, ArrivalEvent
    <2> QED
      BY <2>1, <2>2 DEF AcceptedInv
  <1>2. ASSUME NEW e \in agenda, Dispatch(e) PROVE AcceptedInv'
    <2>1. /\ accepted \subseteq accepted'
          /\ \A c \in tasks' :
                /\ generation'[c.consumer] = generation[c.consumer]
                /\ \/ c \in tasks
                   \/ e.type = "consumer" /\ c = e.copy /\ OfThisProcess(e)
      BY <1>0, <1>2, HandlerSuspends
    <2>2. ASSUME NEW f \in agenda', f.type = "consumer" PROVE <<f.copy, f.generation>> \in accepted'
      <3>1. f \in Carriers(agenda')
        BY <2>2 DEF Carriers, Carries
      <3>2. f \in Carriers(agenda) \/ <<f.copy, f.generation>> \in accepted'
        BY <1>0, <1>2, <2>2, <3>1, DispatchCarry DEF CarrySame, CarryDrop, CarryOn, CarryCrash
      <3> QED
        BY <2>1, <2>2, <3>2 DEF AcceptedInv, Carriers
    <2>3. \A c \in tasks' : <<c, generation'[c.consumer]>> \in accepted'
      BY <1>2, <2>1 DEF AcceptedInv, OfThisProcess
    <2> QED
      BY <2>2, <2>3 DEF AcceptedInv
  <1> QED
    BY <1>1, <1>2 DEF Next

\* A step that acknowledges a record is the end of work its consumer accepted
\* in the process that ends it.
LEMMA AckedStep ==
    ASSUME BusInv, AcceptedInv, Next
    PROVE  AckedByItsProcess
  <1> SUFFICES ASSUME NEW r \in Routings, records[r].state # "ACKED", records'[r].state = "ACKED"
               PROVE  \E copy \in delivered : AcknowledgedBy(r, copy)
    BY DEF AckedByItsProcess
  <1>0. TypeInv /\ BooksInv /\ AttemptsMatch /\ CarriedOnce
    BY DEF BusInv, BooksInv
  <1>1. ~ReserveNext
    <2> SUFFICES ASSUME ReserveNext PROVE FALSE
      OBVIOUS
    <2>1. PICK s \in Routings : \E c : ReserveBook(s, c)
      BY <1>0, ReserveNextBook DEF LoopBook
    <2> QED
      BY <1>0, <2>1, OtherRecords, ThisRecord
  <1>2. PICK e \in agenda : Dispatch(e)
    BY <1>1 DEF Next
  <1>3. /\ e.copy \in delivered /\ e.copy.routing = r /\ Open(e.copy)
        /\ \/ e.type = "consumer" /\ OfThisProcess(e)
           \/ e.type = "wake" /\ e.copy \in tasks
    BY <1>0, <1>2, AckSource
  <1>4. ~e.copy.dropped /\ e.copy.consumer = records[r].consumer /\ e.copy.attempt = records[r].attempt
    BY <1>0, <1>3 DEF CarriedOnce, Open
  <1>5. <<e.copy, generation[e.copy.consumer]>> \in accepted
    BY <1>2, <1>3 DEF AcceptedInv, OfThisProcess
  <1> QED
    BY <1>3, <1>4, <1>5 DEF AcknowledgedBy

\* The records of a publication are numbered after all earlier ones, within
\* the numbers it takes.
LEMMA PositionInRange ==
    ASSUME NEW p \in Publications, NEW r \in Created(p)
    PROVE  Position(r) \in Nat /\ Position(r) < Recipients(Destination[p]) /\ Recipients(Destination[p]) \in Nat
  <1> DEFINE d == Destination[p]
  <1>0. r[1] = p /\ d \in Destinations /\ DestinationOf(r) = d /\ Subscribers[d] \in Seq(Components)
    BY PublicationsAssumption, DestinationsAssumption DEF Created, DestinationOf
  <1>1. CASE d \in Topics
    <2>1. r[2] \in SubscriberSet(d) /\ SubscriberSet(d) \subseteq Components
      BY <1>0, <1>1 DEF Created, SubscriberSet
    <2>2. PICK i \in DOMAIN Subscribers[d] : Subscribers[d][i] = r[2]
      BY <2>1 DEF SubscriberSet
    <2> DEFINE j == CHOOSE k \in DOMAIN Subscribers[d] : Subscribers[d][k] = r[2]
    <2>3. j \in DOMAIN Subscribers[d]
      BY <2>2
    <2>4. Position(r) = j - 1
      BY <1>0, <2>1, PublicationsAssumption DEF Position
    <2>5. Recipients(d) = Len(Subscribers[d])
      BY <1>1 DEF Recipients
    <2> HIDE DEF j, d
    <2>6. j \in 1..Len(Subscribers[d]) /\ Len(Subscribers[d]) \in Nat
      BY <1>0, <2>3
    <2> QED
      BY <2>4, <2>5, <2>6 DEF d
  <1>2. CASE d \notin Topics
    <2>1. r[2] = NoSubscriber
      BY <1>2 DEF Created
    <2> QED
      BY <1>2, <2>1 DEF Position, Recipients
  <1> QED
    BY <1>1, <1>2

\* Without an admission no number is given and no record comes to exist.
LEMMA OnlyAdmissions ==
    ASSUME TypeInv, BooksInv, NEW e \in agenda, Dispatch(e), ~Admit(e)
    PROVE  nextOrder' = nextOrder /\ \A r \in Routings : records[r].state = "ABSENT" => records'[r].state = "ABSENT"
  <1>1. Handle(e)
    BY DEF Dispatch
  <1>2. nextOrder' = nextOrder
    BY <1>1 DEF Handle, Publish, Reject, OnDispatch, Arrive, Consume, Wake, OnTimeout, OnRetry,
                      Lifecycle, Control, Acknowledge, busVars
  <1>3. CASE e.type = "admission"
    <2>1. records' = records
      BY <1>1, <1>3 DEF Handle, Publish, Reject, OnDispatch, Arrive, Consume, Wake, OnTimeout, OnRetry,
                      Lifecycle, Control, busVars
    <2> QED
      BY <1>2, <2>1
  <1>4. CASE e.type # "admission"
    <2>1. EffectOf(e)
      BY DispatchEffect
    <2>2. ASSUME NEW s \in Routings, AckBook(s) \/ DeadBook(s) \/ RetryBook(s) \/ RequeueBook(s), NEW r \in Routings,
                 records[r].state = "ABSENT"
          PROVE  records'[r].state = "ABSENT"
      BY <2>2, OtherRecords, ThisRecord
    <2>3. QuietBook => records' = records
      BY DEF QuietBook
    <2> QED
      BY <1>2, <1>4, <2>1, <2>2, <2>3 DEF EffectOf
  <1> QED
    BY <1>3, <1>4

\* What a step does to the orders.
LEMMA NewOrders ==
    ASSUME BusInv, Next
    PROVE  \/ nextOrder' = nextOrder /\ \A r \in Routings : records[r].state = "ABSENT" => records'[r].state = "ABSENT"
           \/ /\ nextOrder' >= nextOrder
              /\ \A r \in Routings :
                    records'[r] # records[r] =>
                        /\ records[r].state = "ABSENT" /\ records'[r].attempt = 0
                        /\ nextOrder <= records'[r].order /\ records'[r].order < nextOrder'
  <1>0. TypeInv /\ BooksInv /\ nextOrder \in Nat /\ records \in [Routings -> Record] /\ agenda \subseteq Event
    BY DEF BusInv, TypeInv, TypeOK
  <1>1. CASE ReserveNext
    <2>1. PICK s \in Routings : \E c : ReserveBook(s, c)
      BY <1>0, <1>1, ReserveNextBook DEF LoopBook
    <2>2. nextOrder' = nextOrder
      BY <1>1 DEF ReserveNext
    <2>3. \A r \in Routings : records[r].state = "ABSENT" => records'[r].state = "ABSENT"
      BY <1>0, <2>1, OtherRecords, ThisRecord
    <2> QED
      BY <2>2, <2>3
  <1>2. ASSUME NEW e \in agenda, Dispatch(e), ~Admit(e)
        PROVE  nextOrder' = nextOrder /\ \A r \in Routings : records[r].state = "ABSENT" => records'[r].state = "ABSENT"
    BY <1>0, <1>2, OnlyAdmissions
  <1>3. ASSUME NEW e \in agenda, Dispatch(e), Admit(e)
        PROVE  /\ nextOrder' >= nextOrder
               /\ \A r \in Routings :
                     records'[r] # records[r] =>
                         /\ records[r].state = "ABSENT" /\ records'[r].attempt = 0
                         /\ nextOrder <= records'[r].order /\ records'[r].order < nextOrder'
    <2>1. records' = [r \in Routings |->
                        IF r \in Created(e.pub)
                        THEN Unattempted("QUEUED", nextOrder + Position(r))
                        ELSE records[r]]
      BY <1>3, Zenon DEF Admit
    <2>2. nextOrder' = nextOrder + Recipients(Destination[e.pub]) /\ e.type = "admission"
      BY <1>3, Zenon DEF Admit
    <2>3. e.pub \in Publications /\ Absent(e.pub)
      BY <1>0, <2>2, EventFields DEF BooksInv, PublishedOnce
    <2>4. Recipients(Destination[e.pub]) \in Nat
      BY <2>3, PublicationsAssumption, DestinationsAssumption DEF Recipients
    <2>5. ASSUME NEW r \in Routings, records'[r] # records[r]
          PROVE  /\ records[r].state = "ABSENT" /\ records'[r].attempt = 0
                 /\ nextOrder <= records'[r].order /\ records'[r].order < nextOrder'
      <3>1. r \in Created(e.pub) /\ records'[r] = Unattempted("QUEUED", nextOrder + Position(r))
        BY <2>1, <2>5
      <3>2. records'[r].attempt = 0 /\ records'[r].order = nextOrder + Position(r)
        BY <3>1 DEF Unattempted
      <3>3. records[r].state = "ABSENT"
        BY <2>3, <3>1 DEF Absent, Created
      <3>4. Position(r) \in Nat /\ Position(r) < Recipients(Destination[e.pub])
        BY <2>3, <3>1, PositionInRange
      <3> QED
        BY <1>0, <2>2, <2>4, <3>2, <3>3, <3>4
    <2> QED
      BY <1>0, <2>2, <2>4, <2>5
  <1> QED
    BY <1>1, <1>2, <1>3 DEF Next

LEMMA OrdersStep ==
    ASSUME BusInv, OrdersMatch, Next PROVE OrdersMatch'
  <1>0. /\ TypeInv /\ AttemptsMatch /\ BookStep /\ nextOrder \in Nat /\ nextOrder' \in Nat
        /\ \A r \in Routings : records'[r].order \in Nat /\ records[r].order \in Nat
    BY DispatchBook, ReserveNextBook, NextTypeInv DEF BusInv, BooksInv, Next, BookStep, TypeInv, TypeOK, Record
  <1> SUFFICES ASSUME NEW r \in Routings, records'[r].state # "ABSENT" PROVE records'[r].order < nextOrder'
    BY DEF OrdersMatch
  <1>1. records[r].state # "ABSENT" => records'[r].order = records[r].order /\ records[r].order < nextOrder
    BY <1>0, SettledStays DEF OrdersMatch
  <1> QED
    BY <1>0, <1>1, NewOrders

\* A first attempt goes to the oldest record that can be reserved, and records
\* that wait for the same consumers can all be reserved, or none.
LEMMA FirstAttempt ==
    ASSUME BusInv, Next, NEW s \in Routings, records[s].attempt = 0, records'[s].attempt > 0,
           NEW r \in Routings, Rivals(r, s), records[r].attempt = 0
    PROVE  records[s].order <= records[r].order
  <1>0. TypeInv /\ BooksInv /\ AttemptsMatch
    BY DEF BusInv, BooksInv
  <1>1. ReserveNext
    <2> SUFFICES ASSUME NEW e \in agenda, Dispatch(e) PROVE FALSE
      BY DEF Next
    <2>1. HandlerBook
      BY <1>0, DispatchBook
    <2>2. records'[s].attempt = records[s].attempt
      BY <1>0, <2>1, HandlerKeeps
    <2> QED
      BY <2>2
  <1>2. PICK q \in Routings : \E c \in SubscriberSet(DestinationOf(q)) : \E f \in Faults :
              OldestReservable(q) /\ Free(DestinationOf(q), c) /\ Reserve(q, c, f)
    BY <1>0, <1>1, ReservePick
  <1>3. PICK c \in SubscriberSet(DestinationOf(q)) : \E f \in Faults :
              OldestReservable(q) /\ Free(DestinationOf(q), c) /\ Reserve(q, c, f)
    BY <1>2
  <1>4. ReserveBook(q, c)
    BY <1>1, <1>3, ReserveIsBook DEF OldestReservable, ReserveNext
  <1>5. q = s
    <2> SUFFICES ASSUME q # s PROVE FALSE
      OBVIOUS
    <2>1. records'[s] = records[s]
      BY <1>0, <1>4, OtherRecords
    <2> QED
      BY <2>1
  <1>6. records[r].state = "QUEUED"
    BY <1>0 DEF AttemptsMatch, Rivals
  <1>7. Candidates(r) = Candidates(s)
    BY DEF Rivals, Candidates
  <1> QED
    BY <1>3, <1>5, <1>6, <1>7 DEF OldestReservable, CanReserve

LEMMA OrderStep ==
    ASSUME BusInv, OrdersMatch, PublicationOrder, Next PROVE PublicationOrder'
  <1>0. /\ TypeInv /\ AttemptsMatch /\ BookStep /\ nextOrder \in Nat
        /\ \A r \in Routings : /\ records[r].order \in Nat /\ records[r].attempt \in Nat
                               /\ records'[r].order \in Nat /\ records'[r].attempt \in Nat
    BY DispatchBook, ReserveNextBook, NextTypeInv DEF BusInv, BooksInv, Next, BookStep, TypeInv, TypeOK, Record
  <1> SUFFICES ASSUME NEW r \in Routings, NEW s \in Routings,
                      DestinationOf(r) = DestinationOf(s), r[2] = s[2],
                      records'[r].state # "ABSENT", records'[s].state # "ABSENT",
                      records'[r].order < records'[s].order, records'[s].attempt > 0
               PROVE  records'[r].attempt > 0
    BY DEF PublicationOrder, Rivals, DestinationOf
  <1>1. /\ records'[r].attempt >= records[r].attempt
        /\ records[r].state # "ABSENT" => records'[r].order = records[r].order
        /\ records[s].state # "ABSENT" => records'[s].order = records[s].order
    BY <1>0, SettledStays
  <1>2. CASE records[r].state # "ABSENT" /\ records[s].state # "ABSENT"
    <2>1. Rivals(r, s) /\ records[r].order < records[s].order
      BY <1>1, <1>2 DEF Rivals
    <2>2. CASE records[s].attempt > 0
      BY <1>0, <1>1, <2>1, <2>2 DEF PublicationOrder
    <2>3. CASE records[s].attempt = 0
      <3>1. records[r].attempt # 0
        BY <1>0, <2>1, <2>3, FirstAttempt
      <3> QED
        BY <1>0, <1>1, <3>1
    <2> QED
      BY <1>0, <2>2, <2>3
  <1>3. CASE records[s].state = "ABSENT"
    BY <1>3, NewOrders
  <1>4. CASE records[r].state = "ABSENT" /\ records[s].state # "ABSENT"
    <2>1. nextOrder <= records'[r].order /\ records'[s].order < nextOrder
      BY <1>1, <1>4, NewOrders DEF OrdersMatch
    <2> QED
      BY <1>0, <2>1
  <1> QED
    BY <1>2, <1>3, <1>4

\* In every run a record is acknowledged only by the process that accepted a
\* copy of its attempt in flight, and the records that wait for the same
\* consumers are first attempted in the order of their publications.
THEOREM DeliveredAsPublished == Spec => DeliveredInOrder
  <1>1. Init => AcceptedInv /\ PublicationOrder /\ OrdersMatch
    <2> SUFFICES ASSUME Init PROVE AcceptedInv /\ PublicationOrder /\ OrdersMatch
      OBVIOUS
    <2>1. (\A r \in Routings : records[r].state = "ABSENT") /\ tasks = {}
      BY DEF Init, Unattempted
    <2>2. \A e \in agenda : e.type # "consumer"
      BY InitEvents
    <2> QED
      BY <2>1, <2>2 DEF AcceptedInv, PublicationOrder, Rivals, OrdersMatch
  <1>2. /\ BusInv /\ AcceptedInv /\ PublicationOrder /\ OrdersMatch /\ [Next]_vars
        => AcceptedInv' /\ PublicationOrder' /\ OrdersMatch'
    <2>1. ASSUME BusInv, AcceptedInv, PublicationOrder, OrdersMatch, Next
          PROVE  AcceptedInv' /\ PublicationOrder' /\ OrdersMatch'
      BY <2>1, AcceptedStep, OrderStep, OrdersStep
    <2>2. ASSUME AcceptedInv, PublicationOrder, OrdersMatch, UNCHANGED vars
          PROVE  AcceptedInv' /\ PublicationOrder' /\ OrdersMatch'
      BY <2>2 DEF vars, busVars, runVars, AcceptedInv, PublicationOrder, Rivals, OrdersMatch
    <2> QED
      BY <2>1, <2>2
  <1>3. BusInv /\ AcceptedInv /\ [Next]_vars => [AckedByItsProcess]_vars
    BY AckedStep
  <1> QED
    BY <1>1, <1>2, <1>3, BusInvariant, PTL DEF Spec, DeliveredInOrder

-----------------------------------------------------------------------------
(* Capacity and the end of a run                                            *)

ActiveRecords(d) == {r \in Routings : DestinationOf(r) = d /\ records[r].state \notin {"ABSENT", "ACKED", "DEAD"}}

CapacityInv == \A d \in Destinations : IsFiniteSet(ActiveRecords(d)) /\ Cardinality(ActiveRecords(d)) <= Capacity[d]

\* A publication creates no more records than its recipients.
LEMMA CreatedSize ==
    ASSUME NEW p \in Publications
    PROVE  IsFiniteSet(Created(p)) /\ Cardinality(Created(p)) <= Recipients(Destination[p])
  <1> DEFINE d == Destination[p]
             n == Len(Subscribers[d])
  <1>0. d \in Destinations /\ Subscribers[d] \in Seq(Components)
    BY PublicationsAssumption, DestinationsAssumption
  <1>1. CASE d \in Topics
    <2> DEFINE T == Created(p)
               f == [i \in 1..n |-> <<p, Subscribers[d][i]>>]
    <2>1. n \in Nat /\ DOMAIN Subscribers[d] = 1..n
      BY <1>0
    <2>2. T = {<<p, Subscribers[d][i]>> : i \in 1..n}
      <3>1. T = {p} \X SubscriberSet(d)
        BY <1>1 DEF Created
      <3>2. SubscriberSet(d) = {Subscribers[d][i] : i \in 1..n}
        BY <2>1 DEF SubscriberSet
      <3> QED
        BY <3>1, <3>2
    <2> HIDE DEF T, n, d
    <2>3. f \in Surjection(1..n, T)
      BY <2>2 DEF Surjection
    <2>4. IsFiniteSet(1..n) /\ Cardinality(1..n) = n
      <3>1. 1 \in Int /\ n \in Int
        BY <2>1
      <3>2. Cardinality(1..n) = IF 1 > n THEN 0 ELSE n - 1 + 1
        BY <3>1, FS_Interval
      <3> QED
        BY <2>1, <3>1, <3>2, FS_Interval
    <2>5. IsFiniteSet(T) /\ Cardinality(T) <= n
      BY <2>3, <2>4, FS_Surjection
    <2> QED
      BY <1>1, <2>5 DEF Recipients, T, n, d
  <1>2. CASE d \notin Topics
    <2>1. Created(p) = {<<p, NoSubscriber>>} /\ Recipients(d) = 1
      BY <1>2 DEF Created, Recipients
    <2>2. IsFiniteSet({<<p, NoSubscriber>>}) /\ Cardinality({<<p, NoSubscriber>>}) = 1
      BY FS_Singleton
    <2> QED
      BY <2>1, <2>2
  <1> QED
    BY <1>1, <1>2

\* Records become active by an admission only, which has made sure of room.
LEMMA CapacityStep ==
    ASSUME BusInv, CapacityInv, Next PROVE CapacityInv'
  <1> SUFFICES ASSUME NEW d \in Destinations
               PROVE  IsFiniteSet(ActiveRecords(d)') /\ Cardinality(ActiveRecords(d)') <= Capacity[d]
    BY DEF CapacityInv
  <1> DEFINE S == ActiveRecords(d)
             T == ActiveRecords(d)'
  <1>0. /\ TypeInv /\ BooksInv /\ AttemptsMatch /\ BookStep /\ agenda \subseteq Event
        /\ IsFiniteSet(S) /\ Cardinality(S) <= Capacity[d] /\ Capacity[d] \in Nat
    BY DispatchBook, ReserveNextBook, DestinationsAssumption
       DEF BusInv, BooksInv, Next, BookStep, CapacityInv, TypeInv, TypeOK
  <1>1. \A r \in T \ S : r \in Routings /\ DestinationOf(r) = d /\ records[r].state = "ABSENT" /\ records'[r].state # "ABSENT"
    <2> SUFFICES ASSUME NEW r \in T, r \notin S
                 PROVE  r \in Routings /\ DestinationOf(r) = d /\ records[r].state = "ABSENT" /\ records'[r].state # "ABSENT"
      OBVIOUS
    <2>1. r \in Routings /\ DestinationOf(r) = d /\ records'[r].state \notin {"ABSENT", "ACKED", "DEAD"}
      BY DEF ActiveRecords, DestinationOf
    <2>2. records[r].state \in {"ABSENT", "ACKED", "DEAD"}
      BY <2>1 DEF ActiveRecords
    <2>3. records[r].state \in {"ACKED", "DEAD"} => records'[r] = records[r]
      BY <1>0, <2>1, SettledStays
    <2> QED
      BY <2>1, <2>2, <2>3
  <1>2. CASE T \subseteq S
    <2> HIDE DEF S, T
    <2>1. IsFiniteSet(T) /\ Cardinality(T) <= Cardinality(S)
      BY <1>0, <1>2, FS_Subset
    <2>2. Cardinality(S) \in Nat /\ Cardinality(T) \in Nat
      BY <1>0, <2>1, FS_CardinalityType
    <2> QED
      BY <1>0, <2>1, <2>2 DEF T
  <1>3. ASSUME NEW e \in agenda, Dispatch(e), Admit(e), ~(T \subseteq S)
        PROVE  IsFiniteSet(T) /\ Cardinality(T) <= Capacity[d]
    <2>1. /\ e.type = "admission"
          /\ ActiveCount(Destination[e.pub]) + Recipients(Destination[e.pub]) <= Capacity[Destination[e.pub]]
          /\ records' = [r \in Routings |->
                          IF r \in Created(e.pub)
                          THEN Unattempted("QUEUED", nextOrder + Position(r))
                          ELSE records[r]]
      BY <1>3, Zenon DEF Admit
    <2>2. e.pub \in Publications
      BY <1>0, <2>1, EventFields
    <2>3. T \subseteq S \cup Created(e.pub)
      <3> SUFFICES ASSUME NEW r \in T, r \notin S PROVE r \in Created(e.pub)
        OBVIOUS
      <3>1. r \in Routings /\ records[r].state = "ABSENT" /\ records'[r].state # "ABSENT"
        BY <1>1
      <3> QED
        BY <2>1, <3>1
    <2>4. Destination[e.pub] = d
      <3>1. PICK r \in T : r \notin S
        BY <1>3
      <3>2. r \in Created(e.pub) /\ DestinationOf(r) = d
        BY <1>1, <2>3, <3>1
      <3> QED
        BY <3>2 DEF Created, DestinationOf
    <2>5. Cardinality(S) + Recipients(d) <= Capacity[d]
      BY <2>1, <2>4 DEF ActiveCount, ActiveRecords
    <2>6. IsFiniteSet(Created(e.pub)) /\ Cardinality(Created(e.pub)) <= Recipients(d)
      BY <2>2, <2>4, CreatedSize
    <2> DEFINE C == Created(e.pub)
    <2> HIDE DEF S, T, C
    <2>7. IsFiniteSet(S \cup C) /\ Cardinality(S \cup C) = Cardinality(S) + Cardinality(C) - Cardinality(S \cap C)
      BY <1>0, <2>6, FS_Union DEF C
    <2>8. IsFiniteSet(T) /\ Cardinality(T) <= Cardinality(S \cup C)
      BY <2>3, <2>7, FS_Subset DEF C
    <2>9. /\ Cardinality(S) \in Nat /\ Cardinality(C) \in Nat /\ Cardinality(T) \in Nat
          /\ Cardinality(S \cap C) \in Nat /\ Cardinality(S \cup C) \in Nat
      <3>1. IsFiniteSet(S \cap C)
        BY <1>0, FS_Subset
      <3> QED
        BY <1>0, <2>6, <2>7, <2>8, <3>1, FS_CardinalityType DEF C
    <2>10. Recipients(d) \in Nat
      BY DestinationsAssumption DEF Recipients
    <2> QED
      BY <1>0, <2>5, <2>6, <2>7, <2>8, <2>9, <2>10 DEF C
  <1>4. ASSUME NEW e \in agenda, Dispatch(e), ~Admit(e) PROVE T \subseteq S
    <2> SUFFICES ASSUME NEW r \in Routings, records[r].state = "ABSENT" PROVE records'[r].state = "ABSENT"
      BY <1>1
    <2> QED
      BY <1>0, <1>4, OnlyAdmissions
  <1>5. ASSUME ReserveNext PROVE T \subseteq S
    <2>1. LoopBook
      BY <1>0, <1>5, ReserveNextBook
    <2>2. PICK s \in Routings : \E c : ReserveBook(s, c)
      BY <2>1 DEF LoopBook
    <2>3. \A r \in Routings : records[r].state = "ABSENT" => records'[r].state = "ABSENT"
      BY <1>0, <2>2, OtherRecords, ThisRecord
    <2> QED
      BY <1>1, <2>3
  <1> HIDE DEF S, T
  <1> QED
    BY <1>0, <1>2, <1>3, <1>4, <1>5 DEF Next, T

LEMMA InitCapacity == Init => CapacityInv
  <1> SUFFICES ASSUME Init, NEW d \in Destinations
               PROVE  IsFiniteSet(ActiveRecords(d)) /\ Cardinality(ActiveRecords(d)) <= Capacity[d]
    BY DEF CapacityInv
  <1>1. ActiveRecords(d) = {}
    BY DEF ActiveRecords, Init, Unattempted
  <1>2. Cardinality({}) = 0 /\ IsFiniteSet({})
    BY FS_EmptySet
  <1>3. Capacity[d] \in Nat
    BY DestinationsAssumption
  <1> QED
    BY <1>1, <1>2, <1>3

\* A run that ended has nothing pending, and is never in a deadlock.
EndInv == status # "DEADLOCK" /\ (status = "COMPLETED" => agenda = {} /\ ~draining)

\* With nothing pending the bus waits for nothing: timers, wakes and answers
\* are events.
LEMMA NothingPending ==
    ASSUME BusInv, agenda = {}
    PROVE  /\ Waiting = {} /\ tasks = {} /\ reserved = {}
           /\ \A r \in Routings : records[r].state \in {"ABSENT", "QUEUED", "ACKED", "DEAD"}
  <1>0. TypeOK /\ BooksMatch /\ PublishedOnce
    BY DEF BusInv, BooksInv, TypeInv
  <1>1. Waiting = {}
    BY <1>0 DEF PublishedOnce, Waiting
  <1>2. tasks = {}
    BY <1>0 DEF BooksMatch, TasksMatch
  <1>3. \A r \in Routings : records[r].state \notin {"IN_FLIGHT", "RETRY"}
    BY <1>0 DEF BooksMatch, TimersMatch
  <1>4. \A r \in Routings : records[r].state \in {"ABSENT", "QUEUED", "ACKED", "DEAD"}
    BY <1>0, <1>3 DEF TypeOK, Record, RecordState
  <1>5. reserved = {}
    BY <1>0, <1>3 DEF BooksMatch, ReservationsMatch
  <1> QED
    BY <1>1, <1>2, <1>4, <1>5

LEMMA EndStep ==
    ASSUME BusInv, BusInv', EndInv, Next PROVE EndInv'
  <1>0. status = "RUNNING"
    BY DEF Next
  <1>1. CASE ReserveNext
    BY <1>0, <1>1 DEF ReserveNext, EndInv
  <1>2. ASSUME NEW e \in agenda, Dispatch(e) PROVE EndInv'
    <2>1. Handle(e)
      BY <1>2 DEF Dispatch
    <2>2. Boundary \/ status' = "FAILED"
      BY <2>1 DEF Handle, Publish, Reject, Admit, OnDispatch, Arrive, Consume, Wake, OnTimeout, OnRetry,
                  Lifecycle, Control
    <2>3. agenda' = {} => Waiting' = {} /\ tasks' = {}
      <3>1. BusInv' /\ agenda' = {} => Waiting' = {} /\ tasks' = {}
        BY DEF BusInv, BooksInv, BooksMatch, PublishedOnce, TasksMatch, Waiting
      <3> QED
        BY <3>1
    <2>4. CASE Boundary
      BY <1>0, <2>3, <2>4 DEF Boundary, EndInv
    <2>5. CASE status' = "FAILED"
      BY <2>5 DEF EndInv
    <2> QED
      BY <2>2, <2>4, <2>5
  <1> QED
    BY <1>1, <1>2 DEF Next

\* In every run the records of a destination that are not settled are at most
\* its capacity, fan-out included; no run ends in a deadlock, and one that
\* completes has answered every publisher, holds no reservation and leaves
\* only records for which no consumer is ready.
THEOREM BoundedAndAtRest == Spec => []BoundedAndSettled
  <1>1. Init => CapacityInv /\ EndInv
    <2>1. Init => EndInv
      BY DEF Init, EndInv
    <2> QED
      BY <2>1, InitCapacity
  <1>2. BusInv /\ BusInv' /\ CapacityInv /\ EndInv /\ [Next]_vars => CapacityInv' /\ EndInv'
    <2>1. ASSUME BusInv, BusInv', CapacityInv, EndInv, Next PROVE CapacityInv' /\ EndInv'
      BY <2>1, CapacityStep, EndStep
    <2>2. ASSUME CapacityInv, EndInv, UNCHANGED vars PROVE CapacityInv' /\ EndInv'
      <3>1. UNCHANGED <<records, agenda, draining, status>>
        BY <2>2 DEF vars, busVars
      <3>2. \A d : ActiveRecords(d)' = ActiveRecords(d)
        BY <3>1 DEF ActiveRecords
      <3>3. CapacityInv'
        BY <2>2, <3>2 DEF CapacityInv
      <3>4. EndInv'
        BY <2>2, <3>1 DEF EndInv
      <3> QED
        BY <3>3, <3>4
    <2> QED
      BY <2>1, <2>2
  <1>3. BusInv /\ NoStrandedBacklog /\ CapacityInv /\ EndInv => BoundedAndSettled
    <2> SUFFICES ASSUME BusInv, NoStrandedBacklog, CapacityInv, EndInv PROVE BoundedAndSettled
      OBVIOUS
    <2>1. CapacityRespected
      BY DEF CapacityRespected, CapacityInv, ActiveCount, ActiveRecords
    <2>2. ASSUME status = "COMPLETED"
          PROVE  /\ reserved = {}
                 /\ \A p \in Publications : pubs[p] # "waiting"
                 /\ \A r \in Routings :
                       \/ records[r].state \in {"ABSENT", "ACKED", "DEAD"}
                       \/ records[r].state = "QUEUED" /\ Candidates(r) = {}
      <3>1. agenda = {} /\ ~draining
        BY <2>2 DEF EndInv
      <3>2. /\ Waiting = {} /\ reserved = {}
            /\ \A r \in Routings : records[r].state \in {"ABSENT", "QUEUED", "ACKED", "DEAD"}
        BY <3>1, NothingPending
      <3>3. ~SomeReservable
        BY <3>1 DEF NoStrandedBacklog
      <3> QED
        BY <3>2, <3>3 DEF Waiting, SomeReservable, CanReserve
    <2> QED
      BY <2>1, <2>2 DEF BoundedAndSettled, Quiescent, EndInv
  <1> QED
    BY <1>1, <1>2, <1>3, BusInvariant, NoLostWakeUp, PTL DEF Spec

=============================================================================
