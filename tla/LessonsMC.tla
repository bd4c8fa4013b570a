------------------------------ MODULE LessonsMC ------------------------------
(***************************************************************************)
(* The patterns of the commerce catalog, and the assertions with which the *)
(* scenario of a lesson is assessed.  A run shows one lesson, so that the  *)
(* services of the others are not there, or the assessment of some         *)
(* scenario: the rest stays as it begins.                                  *)
(***************************************************************************)
EXTENDS CircuitBreaker, Reservations

CONSTANTS Pair, Deliverers, Relayers, Shoppers, Lifetime, CartLifetime, Hours,
          Assertions, Actions, MaxFollowUps, MaxInstant

ASSUME LifetimesAssumption == Lifetime \in Nat /\ CartLifetime \in Nat

VARIABLES
    lesson,
    cacheTime, invalidate, history, cached, cart, change, order,
    keyed, payments, result, handler, client,
    useOutbox, dedupes, database, inbox, published, task,
    pc, sagaOrder, resource, shipped,
    runTime, verdict, agenda, sequence, world, rows, boundaries

priceVars == <<cacheTime, invalidate, history, cached, cart, change, order>>
retryVars == <<keyed, payments, result, handler, client>>
outboxVars == <<useOutbox, dedupes, database, inbox, published, task>>
sagaVars == <<pc, sagaOrder, resource, shipped>>
assessmentVars == <<runTime, verdict, agenda, sequence, world, rows, boundaries>>

PriceLesson == INSTANCE PriceCache WITH Changes <- Pair, Orders <- Shoppers, MaxTime <- Hours, now <- cacheTime
RetryLesson == INSTANCE PaymentRetry WITH Clients <- Pair, idempotent <- keyed
OutboxLesson == INSTANCE Outbox WITH Pays <- Pair, Relays <- Relayers, Deliveries <- Deliverers, idempotent <- dedupes, db <- database
SagaLesson == INSTANCE Saga WITH order <- sagaOrder

\* One assertion of each mode; the marker of one is at the time of an action.
OneOfEach == <<[mode |-> "eventually", time |-> 1], [mode |-> "always", time |-> 0], [mode |-> "at", time |-> 1]>>
TwoActions == <<1, 2>>
Assessor == INSTANCE Assessment WITH MaxTime <- MaxInstant, now <- runTime, status <- verdict

ASSUME AssessmentAssumption == Assessor!WellFormed

Lessons == {"circuit", "reservations", "prices", "retry", "outbox", "saga", "assessment"}

LessonsInit ==
    /\ lesson \in Lessons
    /\ Init /\ ReservationsInit /\ PriceLesson!Init /\ RetryLesson!Init /\ OutboxLesson!Init /\ SagaLesson!Init /\ Assessor!Init
    /\ lesson # "reservations" => optimistic
    /\ lesson # "prices" => invalidate
    /\ lesson # "retry" => keyed /\ \A c \in Pair : client[c].allowed = 1
    /\ lesson # "outbox" => useOutbox /\ dedupes
    /\ lesson # "assessment" => \A i \in DOMAIN world : world[i] = "true"

Still(l, others) == lesson = l \/ UNCHANGED others
Unshown == /\ UNCHANGED lesson
           /\ Still("circuit", vars) /\ Still("reservations", reservationsVars) /\ Still("prices", priceVars)
           /\ Still("retry", retryVars) /\ Still("outbox", outboxVars) /\ Still("saga", sagaVars)
           /\ Still("assessment", assessmentVars)

\* The lesson shown takes a step, and the others none.
LessonsNext ==
    \/ lesson = "circuit" /\ Next /\ Unshown
    \/ lesson = "reservations" /\ ReservationsNext /\ Unshown
    \/ lesson = "prices" /\ PriceLesson!Next /\ Unshown
    \/ lesson = "retry" /\ RetryLesson!Next /\ Unshown
    \/ lesson = "outbox" /\ OutboxLesson!Next /\ Unshown
    \/ lesson = "saga" /\ SagaLesson!Next /\ Unshown
    \/ lesson = "assessment" /\ Assessor!Next /\ Unshown

LessonsSpec == LessonsInit /\ [][LessonsNext]_<<lesson, vars, reservationsVars, priceVars, retryVars, outboxVars, sagaVars, assessmentVars>>

-----------------------------------------------------------------------------
(* Properties, beside OneProbe and NoOversell; each is stated and commented *)
(* in the module of its lesson.                                             *)

\* No price served, and no order placed, is staler than the cache's design
\* allows (PriceCache).
BoundedStaleness == PriceLesson!BoundedStaleness

\* A payment retried with its key is charged once (PaymentRetry).
ChargedOnce == RetryLesson!ChargedOnce

\* An approved payment's event is not lost, and is applied once (Outbox).
NotifiedOnce == OutboxLesson!NotifiedOnce

\* An order is confirmed on stock and money, and undone only in doubt (Saga).
OrderStandsOnBoth == SagaLesson!OrderStandsOnBoth

\* Every verdict is what the evaluations so far call for (Assessment).
VerdictsFollowHistory == Assessor!VerdictsFollowHistory
=============================================================================
