---------------------------- MODULE Lessons_proofs ----------------------------
(***************************************************************************)
(* The patterns of the commerce catalog keep their promises for any number *)
(* of requests, clients, relays and deliveries and any times.  A part for  *)
(* each lesson has its inductive invariant and its steps; the end puts     *)
(* them together in the run that shows any one of the lessons.             *)
(***************************************************************************)
EXTENDS LessonsMC, Integers, Sequences, FiniteSetTheorems, SequenceTheorems, TLAPS

-----------------------------------------------------------------------------
(* The breaker has one probe at a time when the dependency's timeout is    *)
(* shorter than the cooldown.                                              *)

\* A link gives up before the breaker has cooled down.
ShortTimeout == Timeout < Cooldown

BreakerTypes ==
    /\ now \in Nat /\ openedAt \in Nat /\ failures \in Nat
    /\ breaker \in {"CLOSED", "OPEN", "HALF_OPEN"}
    /\ status \in [Calls -> {"new", "waiting", "approved", "failed", "rejected", "abandoned"}]
    /\ started \in [Calls -> Nat]
    /\ probe \subseteq Calls

\* A call waits no longer than its timeout.
InTime == \A c \in Calls : Waiting(c) => started[c] <= now /\ now <= started[c] + Timeout
\* What still waits while the breaker is open was admitted before it opened.
Stragglers == breaker = "OPEN" => openedAt <= now /\ \A c \in Calls : Waiting(c) => started[c] <= openedAt
\* A call that has begun is never a new probe.
Once == \A p \in probe : status[p] # "new"

BreakerInv == BreakerTypes /\ InTime /\ Stragglers /\ Once /\ OneProbe

LEMMA BreakerInit == Init => BreakerInv
  BY DEF Init, BreakerInv, BreakerTypes, InTime, Stragglers, Once, OneProbe, Waiting

\* Nothing waits when the breaker has cooled down: this is where the timeout
\* must be shorter than the cooldown.
LEMMA NothingWaits == ASSUME ShortTimeout, BreakerInv, CooledDown PROVE \A c \in Calls : ~Waiting(c)
  <1> SUFFICES ASSUME NEW c \in Calls, Waiting(c) PROVE FALSE
    OBVIOUS
  <1>1. now \in Nat /\ openedAt \in Nat /\ started[c] \in Nat
    BY DEF BreakerInv, BreakerTypes
  <1>2. now - openedAt >= Cooldown /\ started[c] <= openedAt /\ now <= started[c] + Timeout
    BY DEF BreakerInv, CooledDown, Stragglers, InTime
  <1> QED
    BY <1>1, <1>2, CircuitAssumption DEF ShortTimeout

LEMMA ReceiveStep == ASSUME ShortTimeout, BreakerInv, NEW c \in Calls, Receive(c) PROVE BreakerInv'
  <1> USE DEF Waiting
  <1>0. /\ status[c] = "new" /\ c \notin probe
        /\ now \in Nat /\ openedAt \in Nat /\ Timeout \in Nat
    BY CircuitAssumption DEF Receive, BreakerInv, BreakerTypes, Once
  <1>1. CASE Call(c)
    <2>1. BreakerTypes' /\ Once'
      BY <1>0, <1>1 DEF BreakerInv, BreakerTypes, Once, Call, Admit
    <2>2. InTime' /\ Stragglers' /\ OneProbe'
      BY <1>0, <1>1 DEF BreakerInv, BreakerTypes, InTime, Stragglers, OneProbe, Call, Admit
    <2> QED
      BY <2>1, <2>2 DEF BreakerInv
  <1>2. CASE Probe(c)
    <2>0. \A d \in Calls : ~Waiting(d)
      BY <1>2, NothingWaits DEF Probe
    <2>1. BreakerTypes' /\ Once'
      BY <1>0, <1>2 DEF BreakerInv, BreakerTypes, Once, Probe, Admit
    <2>2. \A d \in Calls : Waiting(d)' => d = c
      BY <1>2, <2>0 DEF Probe, Admit, BreakerInv, BreakerTypes
    <2>3. Waiting(c)' /\ c \in probe' /\ started'[c] = now /\ now' = now /\ breaker' = "HALF_OPEN"
      BY <1>2 DEF Probe, Admit, BreakerInv, BreakerTypes
    <2>4. InTime' /\ Stragglers' /\ OneProbe'
      BY <1>0, <2>1, <2>2, <2>3 DEF InTime, Stragglers, OneProbe, BreakerTypes
    <2> QED
      BY <2>1, <2>4 DEF BreakerInv
  <1>3. CASE Reject(c)
    <2>1. BreakerTypes' /\ Once'
      BY <1>0, <1>3 DEF BreakerInv, BreakerTypes, Once, Reject
    <2>2. InTime' /\ Stragglers' /\ OneProbe'
      BY <1>0, <1>3 DEF BreakerInv, BreakerTypes, InTime, Stragglers, OneProbe, Reject
    <2> QED
      BY <2>1, <2>2 DEF BreakerInv
  <1> QED
    BY <1>1, <1>2, <1>3 DEF Receive

LEMMA SucceedStep == ASSUME BreakerInv, NEW c \in Calls, Succeed(c) PROVE BreakerInv'
  <1> USE DEF Waiting
  <1>1. BreakerTypes' /\ Once' /\ InTime' /\ Stragglers'
    BY DEF Succeed, BreakerInv, BreakerTypes, Once, InTime, Stragglers
  <1>2. OneProbe'
    <2>1. CASE breaker = "HALF_OPEN"
      BY <2>1 DEF Succeed, BreakerInv, BreakerTypes, OneProbe
    <2>2. CASE breaker # "HALF_OPEN"
      BY <2>2 DEF Succeed, BreakerInv, BreakerTypes, OneProbe
    <2> QED
      BY <2>1, <2>2
  <1> QED
    BY <1>1, <1>2 DEF BreakerInv

LEMMA FailStep == ASSUME BreakerInv, NEW c \in Calls, Fail(c) PROVE BreakerInv'
  <1> USE DEF Waiting
  <1>1. BreakerTypes' /\ Once' /\ InTime'
    BY DEF Fail, BreakerInv, BreakerTypes, Once, InTime
  <1>2. Stragglers'
    <2>1. CASE Trips
      BY <2>1 DEF Fail, BreakerInv, BreakerTypes, Stragglers, InTime
    <2>2. CASE ~Trips
      BY <2>2 DEF Fail, BreakerInv, BreakerTypes, Stragglers
    <2> QED
      BY <2>1, <2>2
  <1>3. OneProbe'
    <2>1. CASE breaker = "HALF_OPEN"
      BY <2>1 DEF Fail, Trips, BreakerInv, BreakerTypes, OneProbe
    <2>2. CASE breaker # "HALF_OPEN"
      <3>1. \A p \in probe : ~Waiting(p)
        BY <2>2 DEF BreakerInv, OneProbe
      <3>2. probe' = probe /\ breaker' # "HALF_OPEN" /\ \A p \in probe : ~Waiting(p)'
        BY <2>2, <3>1 DEF Fail, BreakerInv, BreakerTypes
      <3> QED
        BY <3>2 DEF OneProbe
    <2> QED
      BY <2>1, <2>2
  <1> QED
    BY <1>1, <1>2, <1>3 DEF BreakerInv

LEMMA RestartStep == ASSUME BreakerInv, Restart PROVE BreakerInv'
  <1>1. BreakerTypes' /\ \A c \in Calls : ~Waiting(c)'
    BY DEF Restart, BreakerInv, BreakerTypes, Waiting
  <1>2. Once'
    BY DEF Restart, BreakerInv, BreakerTypes, Once, Waiting
  <1> QED
    BY <1>1, <1>2 DEF Restart, BreakerInv, BreakerTypes, InTime, Stragglers, OneProbe

LEMMA TickStep == ASSUME BreakerInv, Tick PROVE BreakerInv'
  <1> USE DEF Waiting
  <1>1. BreakerTypes' /\ Once' /\ OneProbe'
    BY DEF Tick, BreakerInv, BreakerTypes, Once, OneProbe
  <1>2. InTime' /\ Stragglers'
    BY CircuitAssumption DEF Tick, BreakerInv, BreakerTypes, InTime, Stragglers
  <1> QED
    BY <1>1, <1>2 DEF BreakerInv

\* With a timeout shorter than the cooldown, the breaker never has two probes,
\* and no outcome but the probe's decides while it is half open.
THEOREM ProbeAlone == ASSUME ShortTimeout PROVE Spec => []OneProbe
  <1>1. ASSUME BreakerInv, [Next]_vars PROVE BreakerInv'
    <2>1. CASE UNCHANGED vars
      BY <1>1, <2>1 DEF vars, BreakerInv, BreakerTypes, InTime, Stragglers, Once, OneProbe, Waiting
    <2>2. CASE Next
      BY <1>1, <2>2, ReceiveStep, SucceedStep, FailStep, RestartStep, TickStep DEF Next
    <2> QED
      BY <1>1, <2>1, <2>2
  <1>2. BreakerInv => OneProbe
    BY DEF BreakerInv
  <1> QED
    BY <1>1, <1>2, BreakerInit, PTL DEF Spec

-----------------------------------------------------------------------------
(* No unit is sold twice.  The revision counts the reservations, and what  *)
(* a transaction has seen is the stock of the revision it began at.        *)

StockTypes ==
    /\ optimistic \in BOOLEAN /\ stock \in Int /\ revision \in Nat
    /\ reserved \subseteq Requests /\ IsFiniteSet(reserved)
    /\ request \in [Requests -> Request]

\* The revision counts the reservations.
Counted == Cardinality(reserved) = revision /\ stock = Units - revision
Reserved == \A r \in Requests : r \in reserved => request[r].step = "RESERVED"
\* What a handler has seen; who tries again has seen a reservation.
Seen == \A r \in Requests : Running(r) =>
    /\ request[r].base <= revision
    /\ request[r].seen = Units - request[r].base
    /\ request[r].attempt > 1 => request[r].base >= 1
Safe == optimistic => stock >= 0 /\ \A r \in Requests : Running(r) => request[r].seen >= 1

StockInv == StockTypes /\ Counted /\ Reserved /\ Seen /\ Safe /\ RefusedForCause

LEMMA StockInit == ReservationsInit => StockInv
  <1> SUFFICES ASSUME ReservationsInit PROVE StockInv
    OBVIOUS
  <1>1. Cardinality(reserved) = 0 /\ IsFiniteSet(reserved)
    BY FS_EmptySet DEF ReservationsInit
  <1>2. StockTypes
    BY <1>1, ReservationsAssumption DEF ReservationsInit, StockTypes, Request, ATTEMPTS
  <1> QED
    BY <1>1, <1>2, ReservationsAssumption DEF ReservationsInit, StockInv, Counted, Reserved, Seen, Safe, RefusedForCause, Running

\* Steps of one handler that leave the database alone.
LEMMA HandlerStep ==
    ASSUME StockInv, NEW r \in Requests, NEW q \in Request,
           request' = [request EXCEPT ![r] = q], request[r].step # "RESERVED",
           UNCHANGED <<optimistic, stock, revision, reserved>>,
           q.step \in {"validating", "committing"} =>
              /\ q.base <= revision /\ q.seen = Units - q.base
              /\ q.attempt > 1 => q.base >= 1
              /\ optimistic => q.seen >= 1,
           q.step = "OUT_OF_STOCK" => stock < 1,
           q.step = "CONFLICT" => Cardinality(reserved) >= IF optimistic THEN ATTEMPTS ELSE 1
    PROVE  StockInv'
  <1>1. \A o \in Requests : request'[o] = IF o = r THEN q ELSE request[o]
    BY DEF StockInv, StockTypes
  <1>2. StockTypes' /\ Counted' /\ Reserved'
    BY <1>1 DEF StockInv, StockTypes, Counted, Reserved
  <1>3. Seen'
    BY <1>1 DEF StockInv, Seen, Running
  <1>4. Safe'
    BY <1>1 DEF StockInv, Safe, Running
  <1>5. RefusedForCause'
    BY <1>1 DEF StockInv, RefusedForCause
  <1> QED
    BY <1>2, <1>3, <1>4, <1>5 DEF StockInv

LEMMA CheckStep ==
    ASSUME StockInv, NEW r \in Requests, NEW attempt \in 1 .. ATTEMPTS, Check(r, attempt),
           request[r].step # "RESERVED", attempt > 1 => revision >= 1,
           UNCHANGED <<optimistic, stock, revision, reserved>>
    PROVE  StockInv'
  <1> DEFINE q == IF stock < 1 THEN [request[r] EXCEPT !.step = "OUT_OF_STOCK"]
                  ELSE [step |-> "validating", base |-> revision, seen |-> stock, attempt |-> attempt]
  <1>0. request[r] \in Request /\ stock \in Int /\ revision \in Nat /\ stock = Units - revision
    BY DEF StockInv, StockTypes, Counted
  <1>1. q \in Request /\ request' = [request EXCEPT ![r] = q]
    BY <1>0 DEF Check, Request
  <1>2. CASE stock < 1
    <2>1. q.step = "OUT_OF_STOCK"
      BY <1>0, <1>2 DEF Request
    <2> HIDE DEF q
    <2> QED
      BY <1>1, <1>2, <2>1, HandlerStep
  <1>3. CASE ~(stock < 1)
    <2>1. q.step = "validating" /\ q.base = revision /\ q.seen = stock /\ q.attempt = attempt
      BY <1>3
    <2>2. /\ q.base <= revision /\ q.seen = Units - q.base /\ q.seen >= 1
          /\ q.attempt > 1 => q.base >= 1
      BY <1>0, <1>3, <2>1
    <2> HIDE DEF q
    <2> QED
      BY <1>1, <2>1, <2>2, HandlerStep
  <1> QED
    BY <1>2, <1>3

LEMMA WriteStep == ASSUME StockInv, NEW r \in Requests, Write(r) PROVE StockInv'
  <1>0. /\ request[r] \in Request /\ request[r].step = "validating" /\ stock \in Int /\ revision \in Nat /\ stock = Units - revision
        /\ request[r].attempt > 1 => request[r].base >= 1
        /\ request[r].base <= revision /\ request[r].seen = Units - request[r].base /\ request[r].base \in Nat
        /\ optimistic => request[r].seen >= 1
    BY DEF StockInv, StockTypes, Counted, Seen, Safe, Running, Write, Request
  <1>1. CASE optimistic
    <2> DEFINE q == [request[r] EXCEPT !.step = "committing"]
    <2>1. q \in Request /\ q.step = "committing" /\ q.base = request[r].base /\ q.seen = request[r].seen /\ q.attempt = request[r].attempt
      BY <1>0 DEF Request
    <2>2. request' = [request EXCEPT ![r] = q] /\ UNCHANGED <<optimistic, stock, revision, reserved>>
      BY <1>1 DEF Write
    <2> HIDE DEF q
    <2> QED
      BY <1>0, <2>1, <2>2, HandlerStep
  <1>2. CASE ~optimistic
    <2> DEFINE q == [request[r] EXCEPT !.step = "committing", !.base = revision, !.seen = stock]
    <2>1. q \in Request /\ q.step = "committing" /\ q.base = revision /\ q.seen = stock /\ q.attempt = request[r].attempt
      BY <1>0 DEF Request
    <2>2. request' = [request EXCEPT ![r] = q] /\ UNCHANGED <<optimistic, stock, revision, reserved>>
      BY <1>2 DEF Write
    <2>3. q.base <= revision /\ q.seen = Units - q.base /\ (q.attempt > 1 => q.base >= 1)
      BY <1>0, <2>1
    <2> HIDE DEF q
    <2> QED
      BY <1>0, <1>2, <2>1, <2>2, <2>3, HandlerStep
  <1> QED
    BY <1>1, <1>2

LEMMA AcceptStep == ASSUME StockInv, NEW r \in Requests, Accept(r) PROVE StockInv'
  <1>0. /\ request[r] \in Request /\ request[r].step = "committing" /\ r \notin reserved
        /\ revision \in Nat /\ stock \in Int /\ Units \in Nat
        /\ request[r].base = revision /\ request[r].seen = Units - revision
    BY ReservationsAssumption DEF StockInv, StockTypes, Reserved, Seen, Running, Accept
  <1>1. IsFiniteSet(reserved') /\ Cardinality(reserved') = Cardinality(reserved) + 1
    BY <1>0, FS_AddElement DEF Accept, StockInv, StockTypes
  <1>2. /\ request' = [request EXCEPT ![r].step = "RESERVED"]
        /\ \A o \in Requests : request'[o] = IF o = r THEN [request[r] EXCEPT !.step = "RESERVED"] ELSE request[o]
    BY DEF Accept, To, StockInv, StockTypes
  <1>3. StockTypes'
    <2>1. [request[r] EXCEPT !.step = "RESERVED"] \in Request
      BY <1>0 DEF Request
    <2> QED
      BY <1>0, <1>1, <1>2, <2>1 DEF Accept, StockInv, StockTypes
  <1>4. request'[r].step = "RESERVED" /\ \A o \in Requests \ {r} : request'[o] = request[o]
    BY <1>0, <1>2 DEF Request
  <1>5. Counted' /\ Reserved'
    BY <1>0, <1>1, <1>4 DEF Accept, StockInv, Counted, Reserved
  <1>6. Seen'
    BY <1>0, <1>4 DEF Accept, StockInv, StockTypes, Request, Seen, Running
  <1>7. Safe'
    <2>1. ASSUME optimistic PROVE stock' >= 0 /\ \A o \in Requests : Running(o)' => request'[o].seen >= 1
      <3>1. request[r].seen >= 1
        BY <1>0, <2>1 DEF StockInv, Safe, Running
      <3>2. stock' >= 0
        BY <1>0, <3>1 DEF Accept
      <3>3. ASSUME NEW o \in Requests, Running(o)' PROVE request'[o].seen >= 1
        BY <1>4, <2>1, <3>3 DEF StockInv, Safe, Running
      <3> QED
        BY <3>2, <3>3
    <2>2. optimistic' = optimistic
      BY DEF Accept
    <2> QED
      BY <2>1, <2>2 DEF Safe
  <1>8. RefusedForCause'
    <2>1. \A o \in Requests : request'[o].step = "OUT_OF_STOCK" => stock' < 1
      <3>1. ASSUME NEW o \in Requests, request'[o].step = "OUT_OF_STOCK" PROVE stock' < 1
        <4>1. stock < 1
          BY <1>4, <3>1 DEF StockInv, RefusedForCause
        <4>2. stock' = stock - 1
          BY <1>0 DEF Accept, StockInv, Counted
        <4> QED
          BY <1>0, <4>1, <4>2
      <3> QED
        BY <3>1
    <2>2. \A o \in Requests : request'[o].step = "CONFLICT" => Cardinality(reserved') >= IF optimistic' THEN ATTEMPTS ELSE 1
      <3>1. Cardinality(reserved) \in Nat /\ optimistic' = optimistic
        BY <1>0 DEF StockInv, Counted, Accept
      <3> QED
        BY <1>1, <1>4, <3>1 DEF StockInv, RefusedForCause, ATTEMPTS
    <2> QED
      BY <2>1, <2>2 DEF RefusedForCause
  <1> QED
    BY <1>3, <1>5, <1>6, <1>7, <1>8 DEF StockInv

LEMMA RefuseStep ==
    ASSUME StockInv, NEW r \in Requests, NEW step \in {"CONFLICT", "FAILED", "lost"}, To(r, step), request[r].step # "RESERVED",
           step = "CONFLICT" => Cardinality(reserved) >= IF optimistic THEN ATTEMPTS ELSE 1,
           UNCHANGED <<optimistic, stock, revision, reserved>>
    PROVE  StockInv'
  <1> DEFINE q == [request[r] EXCEPT !.step = step]
  <1>1. q \in Request /\ q.step = step
    BY DEF StockInv, StockTypes, Request
  <1>2. request' = [request EXCEPT ![r] = q]
    BY DEF To
  <1> HIDE DEF q
  <1> QED
    BY <1>1, <1>2, HandlerStep

LEMMA ConflictStep == ASSUME StockInv, NEW r \in Requests, Conflict(r) PROVE StockInv'
  <1>0. /\ request[r].step = "committing" /\ request[r].base # revision /\ request[r].base <= revision
        /\ request[r].base \in Nat /\ revision \in Nat /\ request[r].attempt \in 1 .. ATTEMPTS
        /\ request[r].attempt > 1 => request[r].base >= 1
        /\ Cardinality(reserved) = revision
    BY DEF Conflict, StockInv, StockTypes, Request, Seen, Running, Counted
  <1>1. revision >= 1
    BY <1>0
  <1>2. UNCHANGED <<optimistic, stock, revision, reserved>>
    BY DEF Conflict
  <1>3. CASE optimistic /\ request[r].attempt < ATTEMPTS
    <2>1. request[r].attempt + 1 \in 1 .. ATTEMPTS /\ Check(r, request[r].attempt + 1)
      BY <1>0, <1>3 DEF Conflict, ATTEMPTS
    <2> QED
      BY <1>0, <1>1, <1>2, <2>1, CheckStep
  <1>4. CASE ~(optimistic /\ request[r].attempt < ATTEMPTS)
    <2>1. To(r, "CONFLICT")
      BY <1>4 DEF Conflict
    <2>2. optimistic => Cardinality(reserved) >= ATTEMPTS
      BY <1>0, <1>4 DEF ATTEMPTS
    <2>3. Cardinality(reserved) >= IF optimistic THEN ATTEMPTS ELSE 1
      BY <1>0, <1>1, <2>2
    <2> QED
      BY <1>0, <1>2, <2>1, <2>3, RefuseStep
  <1> QED
    BY <1>3, <1>4

LEMMA CrashStep == ASSUME StockInv, Crash PROVE StockInv'
  <1>1. ASSUME NEW r \in Requests
        PROVE /\ request'[r] \in Request /\ ~Running(r)'
              /\ request[r].step = "RESERVED" => request'[r].step = "RESERVED"
              /\ request'[r].step \in {"OUT_OF_STOCK", "CONFLICT"} => request'[r].step = request[r].step
    <2>1. request[r] \in Request
      BY DEF StockInv, StockTypes
    <2>2. CASE Running(r)
      <3>1. request'[r] = [request[r] EXCEPT !.step = "lost"]
        BY <2>2 DEF Crash
      <3>2. request'[r] \in Request /\ request'[r].step = "lost"
        BY <2>1, <3>1 DEF Request
      <3> QED
        BY <2>2, <3>2 DEF Running
    <2>3. CASE ~Running(r)
      <3>1. request'[r] = request[r]
        BY <2>3 DEF Crash
      <3> QED
        BY <2>1, <2>3, <3>1 DEF Running
    <2> QED
      BY <2>2, <2>3
  <1>2. UNCHANGED <<optimistic, stock, revision, reserved>> /\ request' \in [Requests -> Request]
    BY <1>1 DEF Crash
  <1>3. StockTypes' /\ Counted' /\ Reserved'
    BY <1>1, <1>2 DEF StockInv, StockTypes, Counted, Reserved
  <1>4. Seen' /\ Safe'
    BY <1>1, <1>2 DEF StockInv, Seen, Safe
  <1>5. RefusedForCause'
    BY <1>1, <1>2 DEF StockInv, RefusedForCause
  <1> QED
    BY <1>3, <1>4, <1>5 DEF StockInv

LEMMA StockStep == ASSUME StockInv, [ReservationsNext]_reservationsVars PROVE StockInv'
  <1>1. ASSUME NEW r \in Requests, Reserve(r) PROVE StockInv'
    <2>1. /\ 1 \in 1 .. ATTEMPTS /\ Check(r, 1) /\ request[r].step # "RESERVED"
          /\ UNCHANGED <<optimistic, stock, revision, reserved>>
      BY <1>1 DEF Reserve, ATTEMPTS
    <2> QED
      BY <2>1, CheckStep
  <1>2. ASSUME NEW r \in Requests, CommitFails(r) PROVE StockInv'
    BY <1>2, RefuseStep DEF CommitFails
  <1>3. CASE UNCHANGED reservationsVars
    BY <1>3 DEF reservationsVars, StockInv, StockTypes, Counted, Reserved, Seen, Safe, RefusedForCause, Running
  <1> QED
    BY <1>1, <1>2, <1>3, WriteStep, AcceptStep, ConflictStep, CrashStep DEF ReservationsNext

\* Whatever the order of reads, commits, failed commits and crashes, no unit
\* is sold twice with optimistic, and every refusal has its cause.
THEOREM SoldOnce == ReservationsSpec => []NoOversell
  <1>1. StockInv => NoOversell
    <2> SUFFICES ASSUME StockInv PROVE NoOversell
      OBVIOUS
    <2>1. CountsMatch
      BY DEF StockInv, Counted, CountsMatch
    <2>2. NeverNegative
      BY DEF StockInv, Safe, NeverNegative
    <2> QED
      BY <2>1, <2>2 DEF StockInv, NoOversell
  <1> QED
    BY <1>1, StockInit, StockStep, PTL DEF ReservationsSpec


-----------------------------------------------------------------------------
(* The saga: where the handler is tells how far the work went.             *)

SagaSteps == DOMAIN SagaLesson!After \cup {"finished", "failed"}
SagaTypes ==
    /\ pc \in SagaSteps /\ shipped \in BOOLEAN
    /\ sagaOrder \in {"none", "CREATED", "CONFIRMED", "NEEDS_COMPENSATION", "CANCELLED"}
    /\ resource \in [{"inventory", "payments"} -> {"none", "forward", "compensated"}]

\* Before the doubt an order is not settled, and the calls behind the handler
\* have done their work, which nothing undoes.
Forward ==
    /\ pc \in {"reserve", "charge", "ship", "confirm", "doubt"} => sagaOrder = "CREATED"
    /\ pc = "create" => sagaOrder = "none"
    /\ pc \in {"charge", "ship", "confirm", "doubt"} => resource["inventory"] = "forward"
    /\ pc \in {"ship", "confirm", "doubt"} => resource["payments"] = "forward"
\* After it the order is marked before anything is undone.
Backward == pc \in {"refund", "release", "cancel"} =>
    /\ sagaOrder = "NEEDS_COMPENSATION"
    /\ \A t \in DOMAIN resource : resource[t] # "none"

SagaInv == SagaTypes /\ Forward /\ Backward /\ OrderStandsOnBoth

LEMMA SagaInit == SagaLesson!Init => SagaInv
  BY DEF SagaLesson!Init, SagaLesson!After, SagaInv, SagaTypes, SagaSteps, Forward, Backward, OrderStandsOnBoth, SagaLesson!OrderStandsOnBoth

LEMMA SagaStep == ASSUME SagaInv, [SagaLesson!Next]_sagaVars PROVE SagaInv'
  <1> USE DEF SagaInv, SagaTypes, SagaSteps, Forward, Backward, OrderStandsOnBoth, SagaLesson!OrderStandsOnBoth, SagaLesson!After
  <1>1. CASE SagaLesson!Save
    BY <1>1 DEF SagaLesson!Save, SagaLesson!Saves
  <1>2. CASE SagaLesson!Done
    BY <1>2 DEF SagaLesson!Done, SagaLesson!Work, SagaLesson!Target, SagaLesson!Compensates
  <1>3. CASE SagaLesson!ErrorReply
    BY <1>3 DEF SagaLesson!ErrorReply, SagaLesson!Target, SagaLesson!Compensates
  <1>4. CASE SagaLesson!Ship
    BY <1>4 DEF SagaLesson!Ship
  <1>5. CASE SagaLesson!TimeOut
    BY <1>5 DEF SagaLesson!TimeOut, SagaLesson!Work, SagaLesson!Target, SagaLesson!Compensates
  <1>6. CASE SagaLesson!Fail
    BY <1>6 DEF SagaLesson!Fail
  <1>7. CASE UNCHANGED sagaVars
    BY <1>7 DEF sagaVars
  <1> QED
    BY <1>1, <1>2, <1>3, <1>4, <1>5, <1>6, <1>7 DEF SagaLesson!Next


-----------------------------------------------------------------------------
(* The retried payment: what a handler is about to pay, or has answered,   *)
(* stands against the payments of the table.                               *)

RetryTypes ==
    /\ keyed \in BOOLEAN /\ payments \in Nat /\ result \in Nat
    /\ handler \in [RetryLesson!Attempts -> [step : {"none", "sent", "committing", "answered", "lost"}, base : Nat, payment : Nat]]
    /\ client \in [Pair -> [attempt : 0 .. 2, allowed : {1, 2}, step : {"new", "waiting", "sleeping", "replied", "UNKNOWN"}, told : Nat]]

\* Who waits has sent an attempt; who sleeps has one left.
Attempted == \A c \in Pair :
    /\ client[c].step = "new" => client[c].attempt = 0
    /\ client[c].step = "waiting" => client[c].attempt >= 1
    /\ client[c].step = "sleeping" => client[c].attempt < client[c].allowed
    /\ client[c].told <= payments
\* A transaction pays the next payment of the revision it began at, and a
\* payment answered is in the table.
Numbered == \A a \in RetryLesson!Attempts :
    /\ handler[a].step = "committing" => handler[a].base <= payments /\ handler[a].payment = handler[a].base + 1
    /\ handler[a].step = "answered" => handler[a].payment <= payments
\* With a key only a transaction that saw no payment pays.
FirstOnly == keyed => \A a \in RetryLesson!Attempts : handler[a].step = "committing" => handler[a].base = 0

RetryInv == RetryTypes /\ Attempted /\ Numbered /\ FirstOnly /\ ChargedOnce

LEMMA RetryInit == RetryLesson!Init => RetryInv
  BY DEF RetryLesson!Init, RetryInv, RetryTypes, Attempted, Numbered, FirstOnly, ChargedOnce, RetryLesson!ChargedOnce, RetryLesson!Told

LEMMA RetryHandlerStep ==
    ASSUME RetryInv, NEW a \in RetryLesson!Attempts,
           RetryLesson!Previous(a) \/ RetryLesson!Pay(a) \/ RetryLesson!Commit(a) \/ RetryLesson!Refuse(a) \/ RetryLesson!Lose(a)
    PROVE  RetryInv'
  <1> USE DEF RetryLesson!Set
  <1>0. RetryTypes /\ Attempted /\ Numbered /\ FirstOnly /\ ChargedOnce
    BY DEF RetryInv
  <1>1. UNCHANGED <<keyed, client>> /\ \A b \in RetryLesson!Attempts \ {a} : handler'[b] = handler[b]
    BY <1>0 DEF RetryLesson!Previous, RetryLesson!Pay, RetryLesson!Commit, RetryLesson!Refuse, RetryLesson!Lose, RetryTypes
  <1>2. CASE RetryLesson!Previous(a)
    <2>1. RetryTypes' /\ Attempted' /\ Numbered' /\ FirstOnly'
      BY <1>0, <1>2 DEF RetryLesson!Previous, RetryTypes, Attempted, Numbered, FirstOnly, ChargedOnce, RetryLesson!ChargedOnce
    <2>2. ChargedOnce'
      BY <1>0, <1>1, <1>2 DEF RetryLesson!Previous, RetryTypes, ChargedOnce, RetryLesson!ChargedOnce, RetryLesson!Told
    <2> QED
      BY <2>1, <2>2 DEF RetryInv
  <1>3. CASE RetryLesson!Pay(a)
    <2>1. RetryTypes' /\ Attempted' /\ Numbered' /\ FirstOnly'
      BY <1>0, <1>3 DEF RetryLesson!Pay, RetryTypes, Attempted, Numbered, FirstOnly, ChargedOnce, RetryLesson!ChargedOnce
    <2>2. ChargedOnce'
      BY <1>0, <1>1, <1>3 DEF RetryLesson!Pay, RetryTypes, ChargedOnce, RetryLesson!ChargedOnce, RetryLesson!Told
    <2> QED
      BY <2>1, <2>2 DEF RetryInv
  <1>4. CASE RetryLesson!Commit(a)
    <2>1. RetryTypes' /\ Attempted' /\ Numbered' /\ FirstOnly'
      BY <1>0, <1>4 DEF RetryLesson!Commit, RetryTypes, Attempted, Numbered, FirstOnly, ChargedOnce, RetryLesson!ChargedOnce
    <2>2. payments' = payments + 1 /\ handler[a].payment = payments + 1 /\ handler'[a].payment = payments'
      BY <1>0, <1>4 DEF RetryLesson!Commit, RetryTypes, Numbered
    <2>3. \A c \in Pair : client'[c].told <= payments'
      BY <1>0, <1>1, <2>2 DEF RetryTypes, Attempted
    <2>4. keyed' => payments' <= 1 /\ result' = payments'
      BY <1>0, <1>1, <1>4, <2>2 DEF RetryLesson!Commit, RetryTypes, FirstOnly, ChargedOnce, RetryLesson!ChargedOnce
    <2>5. \A b \in RetryLesson!Attempts \ {a} : handler'[b].step = "answered" => handler'[b].payment <= payments
      BY <1>0, <1>1 DEF Numbered
    <2>6. ASSUME ~keyed', NEW b \in RetryLesson!Attempts, NEW d \in RetryLesson!Attempts, b # d,
                 handler'[b].step = "answered", handler'[b].payment # 0, handler'[d].step = "answered"
          PROVE  handler'[b].payment # handler'[d].payment
      BY <1>0, <1>1, <2>2, <2>5, <2>6 DEF RetryTypes, ChargedOnce, RetryLesson!ChargedOnce
    <2>7. ChargedOnce'
      BY <2>3, <2>4, <2>6 DEF ChargedOnce, RetryLesson!ChargedOnce, RetryLesson!Told
    <2> QED
      BY <2>1, <2>7 DEF RetryInv
  <1>5. CASE RetryLesson!Refuse(a) \/ RetryLesson!Lose(a)
    <2>1. RetryTypes' /\ Attempted' /\ Numbered' /\ FirstOnly'
      BY <1>0, <1>5 DEF RetryLesson!Refuse, RetryLesson!Lose, RetryTypes, Attempted, Numbered, FirstOnly
    <2>2. ChargedOnce'
      BY <1>0, <1>1, <1>5 DEF RetryLesson!Refuse, RetryLesson!Lose, RetryTypes, ChargedOnce, RetryLesson!ChargedOnce, RetryLesson!Told
    <2> QED
      BY <2>1, <2>2 DEF RetryInv
  <1> QED
    BY <1>2, <1>3, <1>4, <1>5

LEMMA RetryClientStep ==
    ASSUME RetryInv, NEW c \in Pair, RetryLesson!Send(c) \/ RetryLesson!Reply(c) \/ RetryLesson!TimeOut(c)
    PROVE  RetryInv'
  <1> USE DEF RetryLesson!Set
  <1>0. RetryTypes /\ Attempted /\ Numbered /\ FirstOnly /\ ChargedOnce /\ client[c].attempt \in 0 .. 2 /\ client[c].allowed \in 1 .. 2
    BY DEF RetryInv, RetryTypes
  <1>1. CASE RetryLesson!Send(c)
    <2> DEFINE a == <<c, client[c].attempt + 1>>
    <2>1. client[c].attempt + 1 \in 1 .. 2 /\ a \in RetryLesson!Attempts
      BY <1>0, <1>1 DEF RetryLesson!Send, Attempted, RetryLesson!Attempts
    <2>2. /\ handler' = [handler EXCEPT ![a] = [step |-> "sent", base |-> 0, payment |-> 0]]
          /\ client' = [client EXCEPT ![c].step = "waiting", ![c].attempt = client[c].attempt + 1]
          /\ UNCHANGED <<keyed, payments, result>>
      BY <1>1 DEF RetryLesson!Send
    <2> HIDE DEF a
    <2>3. RetryTypes' /\ Attempted'
      BY <1>0, <2>1, <2>2 DEF RetryTypes, Attempted
    <2>4. Numbered' /\ FirstOnly'
      BY <1>0, <2>1, <2>2 DEF RetryTypes, Numbered, FirstOnly
    <2>5. ChargedOnce'
      BY <1>0, <2>1, <2>2 DEF RetryTypes, ChargedOnce, RetryLesson!ChargedOnce, RetryLesson!Told
    <2> QED
      BY <2>3, <2>4, <2>5 DEF RetryInv
  <1>2. CASE RetryLesson!Reply(c)
    <2>1. <<c, client[c].attempt>> \in RetryLesson!Attempts
      BY <1>0, <1>2 DEF RetryLesson!Reply, Attempted, RetryLesson!Attempts
    <2>2. RetryTypes' /\ Attempted' /\ Numbered' /\ FirstOnly'
      BY <1>0, <1>2, <2>1 DEF RetryLesson!Reply, RetryTypes, Attempted, Numbered, FirstOnly
    <2>3. ChargedOnce'
      BY <1>0, <1>2, <2>1, <2>2 DEF RetryLesson!Reply, RetryTypes, Attempted, ChargedOnce, RetryLesson!ChargedOnce, RetryLesson!Told
    <2> QED
      BY <2>2, <2>3 DEF RetryInv
  <1>3. CASE RetryLesson!TimeOut(c)
    <2>1. RetryTypes' /\ Attempted' /\ Numbered' /\ FirstOnly'
      BY <1>0, <1>3 DEF RetryLesson!TimeOut, RetryTypes, Attempted, Numbered, FirstOnly
    <2>2. ChargedOnce'
      BY <1>0, <1>3, <2>1 DEF RetryLesson!TimeOut, RetryTypes, Attempted, ChargedOnce, RetryLesson!ChargedOnce, RetryLesson!Told
    <2> QED
      BY <2>1, <2>2 DEF RetryInv
  <1> QED
    BY <1>1, <1>2, <1>3

LEMMA RetryStep == ASSUME RetryInv, [RetryLesson!Next]_retryVars PROVE RetryInv'
  <1>1. CASE UNCHANGED retryVars
    BY <1>1 DEF retryVars, RetryInv, RetryTypes, Attempted, Numbered, FirstOnly, ChargedOnce, RetryLesson!ChargedOnce, RetryLesson!Told
  <1> QED
    BY <1>1, RetryHandlerStep, RetryClientStep DEF RetryLesson!Next


-----------------------------------------------------------------------------
(* The outbox: the row of the payment, the event and the notifications.    *)

OutboxTasks == Pair \cup Relayers \cup Deliverers

OutboxSteps == {"new", "paying", "sleeping", "paid", "relay", "publishing", "marking", "relayed",
                "copy", "noting", "acknowledging", "acknowledged", "ignored", "failed"}
OutboxTypes ==
    /\ useOutbox \in BOOLEAN /\ dedupes \in BOOLEAN /\ published \in BOOLEAN
    /\ database \in [revision : Nat, paid : BOOLEAN, sent : {"none", "no", "yes"}]
    /\ inbox \in [revision : Nat, notes : Nat, rows : Nat]
    /\ task \in [OutboxTasks -> [step : OutboxSteps, base : Nat]]

\* There is a row to relay only with the outbox, for a payment; it is marked
\* only once it was published.
RowTold ==
    /\ database.sent # "none" => useOutbox /\ database.paid
    /\ database.sent = "yes" => published
\* Nobody goes further than what is of record allows.
TasksFollow == \A t \in OutboxTasks :
    /\ task[t].step \in {"sleeping", "noting"} => database.paid
    /\ task[t].step = "publishing" => database.sent # "none"
    /\ task[t].step = "marking" => database.sent # "none" /\ published
\* The inbox row is committed with the notification, so that a transaction
\* that saw none began before the first commit.
InboxCounts == dedupes =>
    /\ inbox.rows = inbox.revision /\ inbox.notes = inbox.revision
    /\ \A t \in OutboxTasks : task[t].step = "noting" => task[t].base = 0

OutboxInv == OutboxTypes /\ RowTold /\ TasksFollow /\ InboxCounts /\ NotifiedOnce

LEMMA OutboxInit == OutboxLesson!Init => OutboxInv
  <1> SUFFICES ASSUME OutboxLesson!Init PROVE OutboxInv
    OBVIOUS
  <1> USE DEF OutboxLesson!Init, OutboxTasks
  <1>1. \A t \in OutboxTasks : task[t].step \in {"new", "relay", "copy"} /\ task[t].base = 0
    OBVIOUS
  <1>2. OutboxTypes
    BY DEF OutboxTypes, OutboxSteps
  <1>3. RowTold /\ TasksFollow /\ InboxCounts
    BY <1>1 DEF RowTold, TasksFollow, InboxCounts
  <1>4. NotifiedOnce
    BY DEF NotifiedOnce, OutboxLesson!NotifiedOnce
  <1> QED
    BY <1>2, <1>3, <1>4 DEF OutboxInv

\* A handler that goes on to a step and base, and leaves the databases alone.
LEMMA OutboxTaskStep ==
    ASSUME OutboxInv, NEW t \in OutboxTasks, NEW step \in OutboxSteps, NEW base \in Nat, OutboxLesson!Set(t, step, base),
           UNCHANGED <<useOutbox, dedupes, database, inbox>>, published => published',
           published' => database.paid, step \in {"sleeping", "noting"} => database.paid,
           step \in {"publishing", "marking"} => database.sent # "none", step = "marking" => published',
           published' \in BOOLEAN, dedupes /\ step = "noting" => base = 0
    PROVE  OutboxInv'
  <1>0. /\ OutboxTypes /\ RowTold /\ TasksFollow /\ InboxCounts /\ NotifiedOnce
        /\ task' = [task EXCEPT ![t] = [step |-> step, base |-> base]]
    BY DEF OutboxInv, OutboxLesson!Set
  <1>1. OutboxTypes' /\ RowTold'
    BY <1>0 DEF OutboxTypes, RowTold
  <1>2. TasksFollow' /\ InboxCounts'
    BY <1>0 DEF OutboxTypes, TasksFollow, InboxCounts
  <1>3. NotifiedOnce'
    BY <1>0 DEF NotifiedOnce, OutboxLesson!NotifiedOnce
  <1> QED
    BY <1>1, <1>2, <1>3 DEF OutboxInv

LEMMA OutboxNextStep ==
    ASSUME OutboxInv, NEW t \in OutboxTasks,
           \/ OutboxLesson!Pay(t) \/ OutboxLesson!CommitPayment(t) \/ OutboxLesson!Wake(t)
           \/ OutboxLesson!Relay(t) \/ OutboxLesson!Publish(t) \/ OutboxLesson!CommitMark(t)
           \/ OutboxLesson!Consume(t) \/ OutboxLesson!CommitNote(t) \/ OutboxLesson!Acknowledge(t)
           \/ OutboxLesson!Fail(t)
    PROVE  OutboxInv'
  <1> USE DEF OutboxTasks, OutboxSteps, OutboxLesson!Step, OutboxLesson!End
  <1>0. OutboxTypes /\ RowTold /\ TasksFollow /\ InboxCounts /\ NotifiedOnce
    BY DEF OutboxInv
  <1>1. CASE OutboxLesson!Pay(t)
    <2>1. CASE database.paid
      BY <1>0, <1>1, <2>1, OutboxTaskStep DEF OutboxLesson!Pay, OutboxTypes, NotifiedOnce, OutboxLesson!NotifiedOnce
    <2>2. CASE ~database.paid
      BY <1>0, <1>1, <2>2, OutboxTaskStep DEF OutboxLesson!Pay, OutboxTypes, NotifiedOnce, OutboxLesson!NotifiedOnce
    <2> QED
      BY <2>1, <2>2
  <1>2. CASE OutboxLesson!CommitPayment(t)
    <2>1. OutboxTypes' /\ RowTold' /\ TasksFollow' /\ InboxCounts'
      BY <1>0, <1>2 DEF OutboxLesson!CommitPayment, OutboxLesson!Set, OutboxTypes, RowTold, TasksFollow, InboxCounts
    <2>2. NotifiedOnce'
      BY <1>0, <1>2 DEF OutboxLesson!CommitPayment, OutboxTypes, NotifiedOnce, OutboxLesson!NotifiedOnce
    <2> QED
      BY <2>1, <2>2 DEF OutboxInv
  <1>3. CASE OutboxLesson!Wake(t)
    BY <1>0, <1>3, OutboxTaskStep DEF OutboxLesson!Wake, OutboxTypes, TasksFollow
  <1>4. CASE OutboxLesson!Relay(t)
    <2>1. CASE database.sent = "no"
      BY <1>0, <1>4, <2>1, OutboxTaskStep DEF OutboxLesson!Relay, OutboxTypes, NotifiedOnce, OutboxLesson!NotifiedOnce
    <2>2. CASE database.sent # "no"
      BY <1>0, <1>4, <2>2, OutboxTaskStep DEF OutboxLesson!Relay, OutboxTypes, NotifiedOnce, OutboxLesson!NotifiedOnce
    <2> QED
      BY <2>1, <2>2
  <1>5. CASE OutboxLesson!Publish(t)
    BY <1>0, <1>5, OutboxTaskStep DEF OutboxLesson!Publish, OutboxTypes, TasksFollow, RowTold
  <1>6. CASE OutboxLesson!CommitMark(t)
    <2>1. database' = [database EXCEPT !.revision = database.revision + 1, !.sent = "yes"] /\ published /\ database.sent # "none"
      BY <1>0, <1>6 DEF OutboxLesson!CommitMark, TasksFollow
    <2>2. /\ database'.revision = database.revision + 1 /\ database'.paid = database.paid /\ database'.sent = "yes"
          /\ task' = [task EXCEPT ![t] = [step |-> "relayed", base |-> 0]]
          /\ UNCHANGED <<useOutbox, dedupes, inbox, published>>
      BY <1>0, <1>6, <2>1 DEF OutboxLesson!CommitMark, OutboxLesson!Set, OutboxTypes
    <2>3. database' \in [revision : Nat, paid : BOOLEAN, sent : {"none", "no", "yes"}]
      <3>1. database \in [revision : Nat, paid : BOOLEAN, sent : {"none", "no", "yes"}] /\ database.revision + 1 \in Nat
        BY <1>0 DEF OutboxTypes
      <3> QED
        BY <2>1, <3>1, Zenon
    <2>4. OutboxTypes'
      BY <1>0, <2>2, <2>3 DEF OutboxTypes
    <2>5. RowTold' /\ TasksFollow' /\ InboxCounts'
      BY <1>0, <2>1, <2>2 DEF OutboxTypes, RowTold, TasksFollow, InboxCounts
    <2>6. NotifiedOnce'
      BY <1>0, <2>1, <2>2 DEF RowTold, NotifiedOnce, OutboxLesson!NotifiedOnce
    <2> QED
      BY <2>4, <2>5, <2>6 DEF OutboxInv
  <1>7. CASE OutboxLesson!Consume(t)
    <2>1. CASE dedupes /\ inbox.rows > 0
      BY <1>0, <1>7, <2>1, OutboxTaskStep DEF OutboxLesson!Consume, OutboxTypes, NotifiedOnce, OutboxLesson!NotifiedOnce
    <2>2. CASE ~(dedupes /\ inbox.rows > 0)
      <3>1. /\ dedupes => inbox.revision = 0
            /\ OutboxLesson!Set(t, "noting", inbox.revision) /\ inbox.revision \in Nat /\ database.paid
        BY <1>0, <1>7, <2>2 DEF OutboxLesson!Consume, OutboxTypes, InboxCounts, NotifiedOnce, OutboxLesson!NotifiedOnce
      <3> QED
        BY <1>0, <1>7, <3>1, OutboxTaskStep DEF OutboxLesson!Consume, OutboxTypes
    <2> QED
      BY <2>1, <2>2
  <1>8. CASE OutboxLesson!CommitNote(t)
    <2>1. /\ task[t].step = "noting" /\ task[t].base = inbox.revision /\ database.paid
          /\ dedupes => inbox.revision = 0
      BY <1>0, <1>8 DEF OutboxLesson!CommitNote, TasksFollow, InboxCounts
    <2>2. /\ inbox' = [revision |-> inbox.revision + 1, notes |-> inbox.notes + 1,
                       rows |-> IF dedupes THEN inbox.rows + 1 ELSE inbox.rows]
          /\ task' = [task EXCEPT ![t] = [step |-> "acknowledging", base |-> 0]]
          /\ UNCHANGED <<useOutbox, dedupes, database, published>>
      BY <1>8 DEF OutboxLesson!CommitNote, OutboxLesson!Set
    <2>3. OutboxTypes' /\ RowTold' /\ TasksFollow' /\ InboxCounts'
      BY <1>0, <2>1, <2>2 DEF OutboxTypes, RowTold, TasksFollow, InboxCounts
    <2>4. NotifiedOnce'
      BY <1>0, <2>1, <2>2 DEF OutboxTypes, InboxCounts, NotifiedOnce, OutboxLesson!NotifiedOnce
    <2> QED
      BY <2>3, <2>4 DEF OutboxInv
  <1>9. CASE OutboxLesson!Acknowledge(t) \/ OutboxLesson!Fail(t)
    BY <1>0, <1>9, OutboxTaskStep DEF OutboxLesson!Acknowledge, OutboxLesson!Fail, OutboxTypes, NotifiedOnce, OutboxLesson!NotifiedOnce
  <1> QED
    BY <1>1, <1>2, <1>3, <1>4, <1>5, <1>6, <1>7, <1>8, <1>9

LEMMA OutboxStep == ASSUME OutboxInv, [OutboxLesson!Next]_outboxVars PROVE OutboxInv'
  <1>1. CASE UNCHANGED outboxVars
    BY <1>1 DEF outboxVars, OutboxInv, OutboxTypes, RowTold, TasksFollow, InboxCounts, NotifiedOnce, OutboxLesson!NotifiedOnce
  <1> QED
    BY <1>1, OutboxNextStep DEF OutboxLesson!Next, OutboxTasks


-----------------------------------------------------------------------------
(* The cached price: the history is ordered, and what was told was of      *)
(* record when it was told.                                                *)

PriceOrder == [step : {"new", "asksCart", "toldCart", "asksPrice", "toldPrice", "placing", "rejecting",
                       "PLACED", "REJECTED", "failed"},
               began : Nat, expiresAt : Nat, version : Nat, checkedOutAt : Nat]
PriceChange == [step : {"new", "committing", "UPDATED", "failed"}, version : Nat, from : Nat]
PriceTypes ==
    /\ cacheTime \in Nat /\ invalidate \in BOOLEAN /\ cart \in Nat
    /\ history \in Seq(Nat) /\ Len(history) >= 1
    /\ cached \in [version : Nat, expires : Nat]
    /\ change \in [Pair -> PriceChange]
    /\ order \in [Shoppers -> PriceOrder]

\* Commits come in the order of their times, and a change not yet committed was
\* asked for at the present time.
HistoryOrdered ==
    /\ \A v, w \in 1 .. Len(history) : v <= w => history[v] <= history[w]
    /\ \A v \in 1 .. Len(history) : history[v] <= cacheTime
ChangesFollow == \A c \in Pair : change[c].step = "committing" => change[c].from = cacheTime

\* A version that was the last at time t, or was followed only after it.
CurrentAt(v, t) == v \in 1 .. Len(history) /\ (v < Len(history) => t <= history[v + 1])

CacheRecent == cached.version # 0 =>
    /\ cached.expires - Lifetime <= cacheTime
    /\ CurrentAt(cached.version, cached.expires - Lifetime)
    /\ invalidate => cached.version = Len(history)

Age == IF invalidate THEN 0 ELSE Lifetime
OrderRecent(q) ==
    /\ q.began <= cacheTime
    /\ q.step = "toldCart" => q.expiresAt = 0 \/ q.began < q.expiresAt
    /\ q.step \in {"asksPrice", "toldPrice", "placing", "PLACED"} => q.began < q.expiresAt
    /\ q.step \in {"toldPrice", "placing", "PLACED"} => CurrentAt(q.version, q.began - Age)
    /\ q.step \in {"placing", "PLACED"} => history[q.version] <= q.checkedOutAt
OrdersRecent == \A o \in Shoppers : OrderRecent(order[o])

PriceInv == PriceTypes /\ HistoryOrdered /\ ChangesFollow /\ CacheRecent /\ OrdersRecent

LEMMA PriceInvGives == PriceInv => BoundedStaleness
  <1> SUFFICES ASSUME PriceInv PROVE PriceLesson!BoundedStaleness
    BY DEF BoundedStaleness
  <1> USE DEF PriceInv, PriceTypes, HistoryOrdered, PriceLesson!Version, PriceLesson!OfRecord, CurrentAt
  <1>1. PriceLesson!Hit => IF invalidate THEN cached.version = Len(history)
                           ELSE PriceLesson!OfRecord(cached.version, cached.expires - Lifetime, cacheTime)
    BY DEF PriceLesson!Hit, CacheRecent
  <1>2. ASSUME NEW o \in PriceLesson!Placed
        PROVE  /\ PriceLesson!OfRecord(order[o].version, order[o].began - Age, order[o].checkedOutAt)
               /\ order[o].began < order[o].expiresAt
    BY <1>2 DEF PriceLesson!Placed, OrdersRecent, OrderRecent
  <1> QED
    BY <1>1, <1>2 DEF PriceLesson!BoundedStaleness, Age

LEMMA PriceInit == PriceLesson!Init => PriceInv
  <1> SUFFICES ASSUME PriceLesson!Init PROVE PriceInv
    OBVIOUS
  <1> USE DEF PriceLesson!Init, PriceLesson!NoChange, PriceLesson!NoOrder
  <1>1. Len(history) = 1 /\ history[1] = 0 /\ cacheTime = 0
    OBVIOUS
  <1>2. PriceTypes
    BY DEF PriceTypes, PriceOrder, PriceChange
  <1>3. HistoryOrdered /\ ChangesFollow
    BY <1>1 DEF HistoryOrdered, ChangesFollow
  <1>4. CacheRecent /\ OrdersRecent
    BY <1>1 DEF CacheRecent, OrdersRecent, OrderRecent
  <1> QED
    BY <1>2, <1>3, <1>4 DEF PriceInv

\* GET /price leaves a live entry, or the version of now.
LEMMA FillRecent ==
    ASSUME PriceInv, PriceLesson!Fill, UNCHANGED <<cacheTime, invalidate, history>>
    PROVE  cached' \in [version : Nat, expires : Nat] /\ CacheRecent'
  <1>0. Len(history) \in Nat /\ Len(history) >= 1 /\ cacheTime \in Nat /\ Lifetime \in Nat /\ CacheRecent /\ cached \in [version : Nat, expires : Nat]
    BY LifetimesAssumption DEF PriceInv, PriceTypes
  <1>1. CASE PriceLesson!Hit
    BY <1>0, <1>1 DEF PriceLesson!Fill, CacheRecent, CurrentAt
  <1>2. CASE ~PriceLesson!Hit
    <2>1. cached' = [version |-> Len(history), expires |-> cacheTime + Lifetime]
      BY <1>2 DEF PriceLesson!Fill, PriceLesson!Version
    <2> QED
      BY <1>0, <2>1 DEF CacheRecent, CurrentAt
  <1> QED
    BY <1>1, <1>2

\* A step of one order.
LEMMA PriceOrderStep ==
    ASSUME PriceInv, NEW o \in Shoppers, NEW q \in PriceOrder, order' = [order EXCEPT ![o] = q],
           UNCHANGED <<cacheTime, invalidate, history, cart, change>>,
           cached' \in [version : Nat, expires : Nat] /\ CacheRecent', OrderRecent(q)
    PROVE  PriceInv'
  <1>1. PriceTypes'
    BY DEF PriceInv, PriceTypes
  <1>2. HistoryOrdered' /\ ChangesFollow'
    BY DEF PriceInv, HistoryOrdered, ChangesFollow
  <1>3. \A p \in Shoppers : order'[p] = q \/ order'[p] = order[p]
    BY DEF PriceInv, PriceTypes
  <1>4. OrdersRecent'
    BY <1>3 DEF PriceInv, OrdersRecent, OrderRecent, CurrentAt, Age
  <1> QED
    BY <1>1, <1>2, <1>4 DEF PriceInv

LEMMA CacheStays == ASSUME PriceInv, UNCHANGED <<cacheTime, invalidate, history, cached>>
                    PROVE  cached' \in [version : Nat, expires : Nat] /\ CacheRecent'
  BY DEF PriceInv, PriceTypes, CacheRecent, CurrentAt


LEMMA PriceOrdersStep ==
    ASSUME PriceInv, NEW o \in Shoppers,
           \/ PriceLesson!Checkout(o) \/ PriceLesson!GetCart(o) \/ PriceLesson!ReadCart(o) \/ PriceLesson!GetPrice(o)
           \/ PriceLesson!ReadPrice(o) \/ PriceLesson!Save(o) \/ PriceLesson!GiveUp(o)
    PROVE  PriceInv'
  <1>0. /\ order[o] \in PriceOrder /\ OrderRecent(order[o]) /\ cacheTime \in Nat /\ cart \in Nat /\ Lifetime \in Nat
        /\ Age \in Nat /\ cached \in [version : Nat, expires : Nat] /\ CacheRecent
        /\ Len(history) \in Nat /\ Len(history) >= 1
    BY LifetimesAssumption DEF PriceInv, PriceTypes, OrdersRecent, Age
  <1>9. \A v \in 1 .. Len(history) : history[v] \in Nat /\ history[v] <= cacheTime
    BY DEF PriceInv, PriceTypes, HistoryOrdered
  <1>1. CASE PriceLesson!Checkout(o)
    <2> DEFINE q == [order[o] EXCEPT !.step = "asksCart", !.began = cacheTime]
    <2>1. q \in PriceOrder /\ q.step = "asksCart" /\ q.began = cacheTime
      BY <1>0 DEF PriceOrder
    <2>2. order' = [order EXCEPT ![o] = q] /\ UNCHANGED <<cacheTime, invalidate, history, cart, change, cached>>
      BY <1>1 DEF PriceLesson!Checkout
    <2> HIDE DEF q
    <2>3. OrderRecent(q)
      BY <1>0, <2>1 DEF OrderRecent
    <2> QED
      BY <2>1, <2>2, <2>3, CacheStays, PriceOrderStep
  <1>2. CASE PriceLesson!GetCart(o)
    <2> DEFINE q == [order[o] EXCEPT !.step = "toldCart", !.expiresAt = IF cacheTime < cart THEN cart ELSE 0]
    <2>1. /\ q \in PriceOrder /\ q.step = "toldCart" /\ q.began = order[o].began
          /\ q.expiresAt = IF cacheTime < cart THEN cart ELSE 0
      BY <1>0 DEF PriceOrder
    <2>2. order' = [order EXCEPT ![o] = q] /\ UNCHANGED <<cacheTime, invalidate, history, cart, change, cached>>
      BY <1>2 DEF PriceLesson!GetCart
    <2>3. order[o].began \in Nat /\ order[o].began <= cacheTime
      BY <1>0 DEF PriceOrder, OrderRecent
    <2> HIDE DEF q
    <2>4. OrderRecent(q)
      BY <1>0, <2>1, <2>3 DEF OrderRecent
    <2> QED
      BY <2>1, <2>2, <2>4, CacheStays, PriceOrderStep
  <1>3. CASE PriceLesson!ReadCart(o)
    <2> DEFINE q == [order[o] EXCEPT !.step = IF order[o].expiresAt = 0 THEN "rejecting" ELSE "asksPrice"]
    <2>1. q \in PriceOrder /\ OrderRecent(q)
      BY <1>0, <1>3 DEF PriceOrder, OrderRecent, PriceLesson!ReadCart
    <2>2. order' = [order EXCEPT ![o] = q] /\ UNCHANGED <<cacheTime, invalidate, history, cart, change, cached>>
      BY <1>3 DEF PriceLesson!ReadCart
    <2> HIDE DEF q
    <2> QED
      BY <2>1, <2>2, CacheStays, PriceOrderStep
  <1>4. CASE PriceLesson!GetPrice(o)
    <2> DEFINE q == [order[o] EXCEPT !.step = "toldPrice", !.version = PriceLesson!Price]
    <2>1. PriceLesson!Price \in Nat /\ CurrentAt(PriceLesson!Price, order[o].began - Age)
      <3>1. CASE PriceLesson!Hit
        <4>1. PriceLesson!Price = cached.version /\ cached.version # 0 /\ cacheTime < cached.expires
          BY <3>1 DEF PriceLesson!Hit, PriceLesson!Price
        <4>2. cached.version \in 1 .. Len(history) /\ order[o].began <= cacheTime
          BY <1>0, <4>1 DEF CacheRecent, CurrentAt, OrderRecent
        <4>3. cached.version < Len(history) => order[o].began - Age <= history[cached.version + 1]
          <5>1. CASE invalidate
            BY <1>0, <4>1, <4>2, <5>1 DEF CacheRecent
          <5>2. ASSUME ~invalidate, cached.version < Len(history) PROVE order[o].began - Age <= history[cached.version + 1]
            <6>1. cached.version + 1 \in 1 .. Len(history) /\ cached.expires - Lifetime <= history[cached.version + 1]
              BY <1>0, <4>1, <4>2, <5>2 DEF CacheRecent, CurrentAt
            <6>2. Age = Lifetime /\ history[cached.version + 1] \in Nat /\ order[o].began \in Nat /\ cached.expires \in Nat
              BY <1>0, <1>9, <5>2, <6>1 DEF Age, PriceOrder
            <6> QED
              BY <1>0, <4>1, <4>2, <6>1, <6>2
          <5> QED
            BY <5>1, <5>2
        <4> QED
          BY <1>0, <4>1, <4>2, <4>3 DEF CurrentAt
      <3>2. CASE ~PriceLesson!Hit
        BY <1>0, <3>2 DEF PriceLesson!Price, PriceLesson!Version, CurrentAt
      <3> QED
        BY <3>1, <3>2
    <2>2. q \in PriceOrder
      BY <1>0, <2>1 DEF PriceOrder
    <2>3. q.step = "toldPrice" /\ q.version = PriceLesson!Price /\ q.began = order[o].began /\ q.expiresAt = order[o].expiresAt
      BY <1>0 DEF PriceOrder
    <2>4. /\ order' = [order EXCEPT ![o] = q] /\ order[o].step = "asksPrice"
          /\ UNCHANGED <<cacheTime, invalidate, history, cart, change>> /\ PriceLesson!Fill
      BY <1>4 DEF PriceLesson!GetPrice
    <2> HIDE DEF q
    <2>5. OrderRecent(q)
      BY <1>0, <2>1, <2>3, <2>4 DEF OrderRecent
    <2> QED
      BY <2>2, <2>4, <2>5, FillRecent, PriceOrderStep
  <1>5. CASE PriceLesson!ReadPrice(o)
    <2> DEFINE q == [order[o] EXCEPT !.step = "placing", !.checkedOutAt = cacheTime]
    <2>1. /\ q \in PriceOrder /\ q.step = "placing" /\ q.checkedOutAt = cacheTime
          /\ q.began = order[o].began /\ q.expiresAt = order[o].expiresAt /\ q.version = order[o].version
      BY <1>0 DEF PriceOrder
    <2>2. /\ order' = [order EXCEPT ![o] = q] /\ UNCHANGED <<cacheTime, invalidate, history, cart, change, cached>>
          /\ order[o].step = "toldPrice"
      BY <1>5 DEF PriceLesson!ReadPrice
    <2> HIDE DEF q
    <2>3. OrderRecent(q)
      BY <1>0, <1>9, <2>1, <2>2 DEF OrderRecent, CurrentAt
    <2> QED
      BY <2>1, <2>2, <2>3, CacheStays, PriceOrderStep
  <1>6. CASE PriceLesson!Save(o)
    <2> DEFINE q == [order[o] EXCEPT !.step = IF order[o].step = "placing" THEN "PLACED" ELSE "REJECTED"]
    <2>1. q \in PriceOrder /\ OrderRecent(q)
      BY <1>0, <1>6 DEF PriceOrder, OrderRecent, PriceLesson!Save
    <2>2. order' = [order EXCEPT ![o] = q] /\ UNCHANGED <<cacheTime, invalidate, history, cart, change, cached>>
      BY <1>6 DEF PriceLesson!Save
    <2> HIDE DEF q
    <2> QED
      BY <2>1, <2>2, CacheStays, PriceOrderStep
  <1>7. CASE PriceLesson!GiveUp(o)
    <2> DEFINE q == [PriceLesson!NoOrder EXCEPT !.step = "failed"]
    <2>1. q \in PriceOrder /\ OrderRecent(q)
      BY <1>0 DEF PriceOrder, OrderRecent, PriceLesson!NoOrder
    <2>2. order' = [order EXCEPT ![o] = q] /\ UNCHANGED <<cacheTime, invalidate, history, cart, change, cached>>
      BY <1>7 DEF PriceLesson!GiveUp
    <2> HIDE DEF q
    <2> QED
      BY <2>1, <2>2, CacheStays, PriceOrderStep
  <1> QED
    BY <1>1, <1>2, <1>3, <1>4, <1>5, <1>6, <1>7

\* The next version is of record from now on, so that what was current at a
\* time still was.
LEMMA PriceCommitStep == ASSUME PriceInv, NEW c \in Pair, PriceLesson!CommitChange(c) PROVE PriceInv'
  <1> DEFINE n == Len(history)
  <1>0. /\ n \in Nat /\ n >= 1 /\ cacheTime \in Nat /\ Lifetime \in Nat /\ invalidate \in BOOLEAN /\ cart \in Nat
        /\ history \in Seq(Nat) /\ cached \in [version : Nat, expires : Nat]
        /\ change \in [Pair -> PriceChange]
        /\ order \in [Shoppers -> PriceOrder]
        /\ HistoryOrdered /\ ChangesFollow /\ CacheRecent /\ OrdersRecent
    BY LifetimesAssumption DEF PriceInv, PriceTypes
  <1>1. /\ change[c].step = "committing" /\ change[c].from = cacheTime
        /\ history' = Append(history, cacheTime) /\ change' = [change EXCEPT ![c].step = "UPDATED"]
        /\ cached' = IF invalidate THEN [version |-> 0, expires |-> 0] ELSE cached
        /\ UNCHANGED <<cacheTime, invalidate, cart, order>>
    BY <1>0 DEF PriceLesson!CommitChange, ChangesFollow
  <1>3. /\ history' \in Seq(Nat) /\ Len(history') = n + 1 /\ history'[n + 1] = cacheTime
        /\ \A v \in 1 .. n : history'[v] = history[v] /\ history[v] \in Nat
    BY <1>0, <1>1
  <1> HIDE DEF n
  <1>4. PriceTypes'
    <2>1. [change[c] EXCEPT !.step = "UPDATED"] \in PriceChange /\ cached' \in [version : Nat, expires : Nat]
      BY <1>0, <1>1 DEF PriceChange
    <2>2. change' \in [Pair -> PriceChange]
      BY <1>0, <1>1, <2>1
    <2> QED
      BY <1>0, <1>1, <1>3, <2>1, <2>2 DEF PriceTypes
  <1>5. HistoryOrdered'
    <2>1. \A v, w \in 1 .. n + 1 : v <= w => history'[v] <= history'[w]
      <3>1. SUFFICES ASSUME NEW v \in 1 .. n + 1, NEW w \in 1 .. n + 1, v <= w
                     PROVE  history'[v] <= history'[w]
        OBVIOUS
      <3>2. CASE w \in 1 .. n
        <4>1. v \in 1 .. n
          BY <1>0, <3>1, <3>2 DEF n
        <4> QED
          BY <1>0, <1>3, <3>1, <3>2, <4>1 DEF HistoryOrdered, n
      <3>3. CASE w = n + 1 /\ v \in 1 .. n
        BY <1>0, <1>3, <3>3 DEF HistoryOrdered, n
      <3>4. CASE w = n + 1 /\ v = n + 1
        BY <1>0, <1>3, <3>4
      <3> QED
        BY <1>0, <3>1, <3>2, <3>3, <3>4 DEF n
    <2>2. \A v \in 1 .. n + 1 : history'[v] <= cacheTime'
      BY <1>0, <1>1, <1>3 DEF HistoryOrdered, n
    <2> QED
      BY <1>3, <2>1, <2>2 DEF HistoryOrdered
  <1>6. ChangesFollow'
    BY <1>0, <1>1, <1>3 DEF ChangesFollow, PriceInv, PriceTypes, n
  <1>7. ASSUME NEW v, NEW t \in Int, CurrentAt(v, t), t <= cacheTime
        PROVE  v \in 1 .. n + 1 /\ (v < n + 1 => t <= history'[v + 1])
    <2>1. v \in 1 .. n /\ (v < n => t <= history[v + 1])
      BY <1>7 DEF CurrentAt, n
    <2>2. v < n => v + 1 \in 1 .. n
      BY <1>0, <2>1
    <2> QED
      BY <1>0, <1>3, <1>7, <2>1, <2>2
  <1>8. CacheRecent'
    <2>1. CASE invalidate
      BY <1>1, <2>1 DEF CacheRecent
    <2>2. CASE ~invalidate
      <3>1. cached' = cached /\ cacheTime' = cacheTime /\ ~invalidate'
        BY <1>1, <2>2
      <3>2. ASSUME cached.version # 0
            PROVE  /\ cached.expires - Lifetime <= cacheTime
                   /\ cached.version \in 1 .. n + 1
                   /\ cached.version < n + 1 => cached.expires - Lifetime <= history'[cached.version + 1]
        BY <1>0, <1>7, <3>2 DEF CacheRecent
      <3> QED
        BY <1>3, <3>1, <3>2 DEF CacheRecent, CurrentAt
    <2> QED
      BY <2>1, <2>2
  <1>9. OrdersRecent'
    <2>1. ASSUME NEW o \in Shoppers PROVE OrderRecent(order[o])'
      <3>1. /\ OrderRecent(order[o]) /\ order[o] \in PriceOrder /\ order'[o] = order[o] /\ cacheTime' = cacheTime
            /\ Age' = Age /\ Age \in Nat
        BY <1>0, <1>1 DEF OrdersRecent, Age
      <3>2. ASSUME order[o].step \in {"toldPrice", "placing", "PLACED"}
            PROVE  /\ order[o].version \in 1 .. n /\ order[o].version \in 1 .. n + 1
                   /\ order[o].version < n + 1 => order[o].began - Age <= history'[order[o].version + 1]
        <4>1. CurrentAt(order[o].version, order[o].began - Age) /\ order[o].began - Age \in Int /\ order[o].began - Age <= cacheTime
          BY <1>0, <3>1, <3>2 DEF OrderRecent, PriceOrder
        <4> QED
          BY <1>7, <4>1 DEF CurrentAt, n
      <3> QED
        BY <1>3, <3>1, <3>2 DEF OrderRecent, CurrentAt
    <2> QED
      BY <2>1 DEF OrdersRecent
  <1> QED
    BY <1>4, <1>5, <1>6, <1>8, <1>9 DEF PriceInv

LEMMA PriceChangeStep ==
    ASSUME PriceInv, NEW c \in Pair, PriceLesson!BeginChange(c) \/ PriceLesson!ChangeFails(c)
    PROVE  PriceInv'
  <1>0. UNCHANGED <<cacheTime, invalidate, history, cached, cart, order>>
    BY DEF PriceLesson!BeginChange, PriceLesson!ChangeFails
  <1>1. CacheRecent' /\ OrdersRecent' /\ HistoryOrdered'
    BY <1>0 DEF PriceInv, CacheRecent, OrdersRecent, OrderRecent, HistoryOrdered, CurrentAt, Age
  <1>2. /\ PriceTypes /\ HistoryOrdered /\ ChangesFollow
        /\ Len(history) \in Nat /\ Len(history) >= 1 /\ cacheTime \in Nat
    BY DEF PriceInv, PriceTypes
  <1>3. PICK q \in PriceChange :
           /\ change' = [change EXCEPT ![c] = q]
           /\ q.step = "committing" => q.version = Len(history) /\ q.from = cacheTime
    <2>1. CASE PriceLesson!BeginChange(c)
      <3> DEFINE q == [step |-> "committing", version |-> Len(history), from |-> cacheTime]
      <3>1. q \in PriceChange /\ q.version = Len(history) /\ q.from = cacheTime
        BY <1>2 DEF PriceChange
      <3>2. change' = [change EXCEPT ![c] = q]
        BY <2>1 DEF PriceLesson!BeginChange, PriceLesson!Version
      <3> HIDE DEF q
      <3> QED
        BY <3>1, <3>2
    <2>2. CASE PriceLesson!ChangeFails(c)
      <3> DEFINE q == [PriceLesson!NoChange EXCEPT !.step = "failed"]
      <3>1. q \in PriceChange /\ q.step # "committing"
        BY DEF PriceLesson!NoChange, PriceChange
      <3>2. change' = [change EXCEPT ![c] = q]
        BY <2>2 DEF PriceLesson!ChangeFails
      <3> HIDE DEF q
      <3> QED
        BY <3>1, <3>2
    <2> QED
      BY <2>1, <2>2
  <1>4. PriceTypes'
    BY <1>0, <1>2, <1>3 DEF PriceTypes
  <1>5. ChangesFollow'
    BY <1>0, <1>2, <1>3 DEF PriceTypes, HistoryOrdered, ChangesFollow
  <1> QED
    BY <1>1, <1>4, <1>5 DEF PriceInv

LEMMA PriceTimeStep == ASSUME PriceInv, PriceLesson!Tick \/ PriceLesson!View \/ PriceLesson!SaveCart PROVE PriceInv'
  <1> USE LifetimesAssumption
  <1>1. CASE PriceLesson!Tick
    <2>1. PriceTypes' /\ ChangesFollow'
      BY <1>1 DEF PriceLesson!Tick, PriceLesson!Committing, PriceInv, PriceTypes, ChangesFollow
    <2>4. HistoryOrdered'
      <3>1. /\ cacheTime \in Nat /\ cacheTime' = cacheTime + 1 /\ history' = history /\ HistoryOrdered
            /\ \A v \in 1 .. Len(history) : history[v] \in Nat
        BY <1>1 DEF PriceLesson!Tick, PriceInv, PriceTypes
      <3> QED
        BY <3>1 DEF HistoryOrdered
    <2>2. CacheRecent'
      BY <1>1 DEF PriceLesson!Tick, PriceInv, PriceTypes, CacheRecent, CurrentAt
    <2>3. OrdersRecent'
      BY <1>1 DEF PriceLesson!Tick, PriceInv, PriceTypes, PriceOrder, OrdersRecent, OrderRecent, CurrentAt, Age
    <2> QED
      BY <2>1, <2>2, <2>3, <2>4 DEF PriceInv
  <1>2. CASE PriceLesson!View
    <2>1. cached' \in [version : Nat, expires : Nat] /\ CacheRecent' /\ UNCHANGED <<cacheTime, invalidate, history, cart, change, order>>
      BY <1>2, FillRecent DEF PriceLesson!View
    <2> QED
      BY <2>1 DEF PriceInv, PriceTypes, HistoryOrdered, ChangesFollow, OrdersRecent, OrderRecent, CurrentAt, Age
  <1>3. CASE PriceLesson!SaveCart
    <2>1. cart' \in Nat /\ UNCHANGED <<cacheTime, invalidate, history, cached, change, order>>
      BY <1>3 DEF PriceLesson!SaveCart, PriceInv, PriceTypes
    <2>2. PriceTypes' /\ HistoryOrdered' /\ ChangesFollow'
      BY <2>1 DEF PriceInv, PriceTypes, HistoryOrdered, ChangesFollow
    <2>3. CacheRecent' /\ OrdersRecent'
      BY <2>1 DEF PriceInv, CacheRecent, OrdersRecent, OrderRecent, CurrentAt, Age
    <2> QED
      BY <2>2, <2>3 DEF PriceInv
  <1> QED
    BY <1>1, <1>2, <1>3

LEMMA PriceStep == ASSUME PriceInv, [PriceLesson!Next]_priceVars PROVE PriceInv'
  <1>1. CASE UNCHANGED priceVars
    BY <1>1 DEF priceVars, PriceInv, PriceTypes, HistoryOrdered, ChangesFollow, CacheRecent, OrdersRecent, OrderRecent, CurrentAt, Age
  <1> QED
    BY <1>1, PriceOrdersStep, PriceCommitStep, PriceChangeStep, PriceTimeStep DEF PriceLesson!Next

-----------------------------------------------------------------------------
(* The verdicts of a run's assertions are those the history of evaluations *)
(* calls for.                                                              *)

\* Boundary x settles assertion i.
SettledBy(i, x) ==
    /\ i < x.upto
    /\ CASE Assertions[i].mode = "always" -> ~(x.world[i] = "true") \/ x.phase = "completion"
         [] Assertions[i].mode = "at" -> x.marker = i \/ x.phase = "completion"
         [] OTHER -> x.world[i] = "true" \/ x.marker = i \/ x.phase = "completion"
Deciding(bs, i) == {b \in DOMAIN bs : SettledBy(i, bs[b])}
VerdictOf(x, i) == [status |-> IF x.world[i] = "true" THEN "PASS" ELSE "FAIL", time |-> x.time]

\* Row r of assertion i agrees with the boundaries bs: it is as the first one
\* that settles it has it, and open when there is none.
Decided(bs, i, r) == \E b \in Deciding(bs, i) : (\A c \in Deciding(bs, i) : b <= c) /\ r = VerdictOf(bs[b], i)
Agrees(bs, i, r, open) == IF Deciding(bs, i) = {} THEN r.status = open ELSE Decided(bs, i, r)
AllAgree(bs, rs, open) == \A i \in Assessor!Indices : Agrees(bs, i, rs[i], open)

Statuses == {"PENDING", "PASS", "FAIL", "INCOMPLETE"}
AllRows == [Assessor!Indices -> [status : Statuses, time : Nat]]
Worlds == [Assessor!Indices -> Assessor!Values]
Phases == {"init", "event", "completion"}
Markers == {0} \cup Assessor!Indices
Limits == {Assessor!Upto(rs, phase, marker, w) : rs \in AllRows, phase \in Phases, marker \in Markers, w \in Worlds}
Boundaries == [phase : Phases, marker : Markers, world : Worlds, time : Nat, upto : Limits]

AssessmentTypes ==
    /\ verdict \in {"READY", "COMPLETED", "FAILED"}
    /\ world \in Worlds /\ rows \in AllRows
    /\ boundaries \in Seq(Boundaries) /\ Len(boundaries) > 0
    /\ \A e \in agenda : e.time \in Nat /\ e.marker \in Markers
    /\ \A e, f \in agenda : e.marker = f.marker /\ e.marker # 0 => e = f
    /\ \A e \in agenda : e.marker # 0 => Assessor!Marker(e.marker)
    /\ verdict = "COMPLETED" => agenda = {} /\ \A i \in Assessor!Indices : Deciding(boundaries, i) # {}

\* A marker still to come is of an assertion that waits for it, as far as the
\* deadlines of settled ones have been cancelled.
MarkersWait ==
    verdict # "FAILED" =>
        \A e \in agenda : e.marker # 0 /\ (Assertions[e.marker].mode = "at" \/ Len(boundaries) > 1)
                              => rows[e.marker].status = "PENDING"

Open == IF verdict = "FAILED" THEN "INCOMPLETE" ELSE "PENDING"
AssessmentInv == AssessmentTypes /\ AllAgree(boundaries, rows, Open) /\ MarkersWait

-----------------------------------------------------------------------------
(* One evaluation                                                           *)

LEMMA Modes ==
    ASSUME Assessor!WellFormed
    PROVE  /\ Len(Assertions) \in Nat /\ Assessor!Indices = 1..Len(Assertions)
           /\ \A i \in Assessor!Indices : Assertions[i].mode \in {"always", "at", "eventually"} /\ Assertions[i].time \in Nat
  <1> DEFINE S == [mode : {"always", "at", "eventually"}, time : Nat]
  <1>1. Assertions \in Seq(S)
    BY DEF Assessor!WellFormed
  <1>2. \A x \in S : x.mode \in {"always", "at", "eventually"} /\ x.time \in Nat
    OBVIOUS
  <1> HIDE DEF S
  <1>3. Len(Assertions) \in Nat /\ DOMAIN Assertions = 1..Len(Assertions)
    BY <1>1, LenProperties
  <1>4. \A i \in 1..Len(Assertions) : Assertions[i] \in S
    BY <1>1, ElementOfSeq
  <1> QED
    BY <1>2, <1>3, <1>4 DEF Assessor!Indices

LEMMA EvaluatedRow ==
    ASSUME NEW rs, NEW phase, NEW marker, NEW w, NEW t, NEW i \in Assessor!Indices
    PROVE  Assessor!Evaluate(rs, phase, marker, w, t)[i] =
              IF i \in Assessor!Called(rs, phase, marker) /\ i < Assessor!Upto(rs, phase, marker, w)
              THEN [status |-> Assessor!Verdict(i, phase, marker, w[i] = "true"), time |-> t] ELSE rs[i]
  BY DEF Assessor!Evaluate

LEMMA VerdictType == \A i, phase, marker, holds : Assessor!Verdict(i, phase, marker, holds) \in Statuses
  BY DEF Assessor!Verdict, Statuses

LEMMA EvaluatedType ==
    ASSUME NEW rs \in AllRows, NEW phase, NEW marker, NEW w, NEW t \in Nat
    PROVE  Assessor!Evaluate(rs, phase, marker, w, t) \in AllRows
  <1>1. ASSUME NEW i \in Assessor!Indices PROVE Assessor!Evaluate(rs, phase, marker, w, t)[i] \in [status : Statuses, time : Nat]
    <2>1. [status |-> Assessor!Verdict(i, phase, marker, w[i] = "true"), time |-> t] \in [status : Statuses, time : Nat]
      BY VerdictType
    <2>2. rs[i] \in [status : Statuses, time : Nat]
      BY DEF AllRows
    <2> DEFINE R == [status : Statuses, time : Nat]
               new == [status |-> Assessor!Verdict(i, phase, marker, w[i] = "true"), time |-> t]
    <2>3. new \in R /\ rs[i] \in R
      BY <2>1, <2>2
    <2>4. Assessor!Evaluate(rs, phase, marker, w, t)[i] = new \/ Assessor!Evaluate(rs, phase, marker, w, t)[i] = rs[i]
      BY EvaluatedRow
    <2> HIDE DEF R, new
    <2>5. Assessor!Evaluate(rs, phase, marker, w, t)[i] \in R
      BY <2>3, <2>4
    <2> QED
      BY <2>5 DEF R
  <1>2. Assessor!Evaluate(rs, phase, marker, w, t) = [i \in Assessor!Indices |-> Assessor!Evaluate(rs, phase, marker, w, t)[i]]
    BY DEF Assessor!Evaluate
  <1> QED
    BY <1>1, <1>2 DEF AllRows

LEMMA FailedRow ==
    ASSUME NEW rs \in AllRows, NEW i \in Assessor!Indices
    PROVE  /\ Assessor!OnFailure(rs)[i] \in [status : Statuses, time : Nat]
           /\ rs[i].status = "PENDING" => Assessor!OnFailure(rs)[i].status = "INCOMPLETE"
           /\ rs[i].status # "PENDING" => Assessor!OnFailure(rs)[i] = rs[i]
  <1>1. rs[i] \in [status : Statuses, time : Nat]
    BY DEF AllRows
  <1> QED
    BY <1>1 DEF Assessor!OnFailure, Statuses

LEMMA FailedType == ASSUME NEW rs \in AllRows PROVE Assessor!OnFailure(rs) \in AllRows
  <1>1. Assessor!OnFailure(rs) = [i \in Assessor!Indices |-> Assessor!OnFailure(rs)[i]]
    BY DEF Assessor!OnFailure
  <1> QED
    BY <1>1, FailedRow DEF AllRows

LEMMA BoundaryType ==
    ASSUME NEW rs \in AllRows, NEW phase \in Phases, NEW marker \in Markers, NEW w \in Worlds, NEW t \in Nat
    PROVE  Assessor!Boundary(rs, phase, marker, w, t) \in Boundaries
  BY DEF Assessor!Boundary, Boundaries, Limits

\* The verdict of a boundary on an assertion that is still open.
LEMMA Settling ==
    ASSUME Assessor!WellFormed, NEW rs, NEW phase, NEW marker, NEW w, NEW t, NEW i \in Assessor!Indices, NEW x, NEW r,
           x = Assessor!Boundary(rs, phase, marker, w, t), r = Assessor!Evaluate(rs, phase, marker, w, t)[i],
           rs[i].status = "PENDING"
    PROVE  IF SettledBy(i, x) THEN r = VerdictOf(x, i) ELSE r.status = "PENDING"
  <1> DEFINE mode == Assertions[i].mode
             holds == w[i] = "true"
             reached == i < Assessor!Upto(rs, phase, marker, w)
             ends == marker = i \/ phase = "completion"
  <1>1. mode \in {"always", "at", "eventually"}
    BY Modes
  <1>2. x.upto = Assessor!Upto(rs, phase, marker, w) /\ x.world = w /\ x.phase = phase /\ x.marker = marker /\ x.time = t
    BY DEF Assessor!Boundary
  <1>3. r = IF (mode = "at" => ends) /\ reached THEN [status |-> Assessor!Verdict(i, phase, marker, holds), time |-> t] ELSE rs[i]
    BY EvaluatedRow DEF Assessor!Called, Assessor!Due
  <1>4. SettledBy(i, x) <=> /\ reached
                            /\ \/ mode = "always" /\ (~holds \/ phase = "completion")
                               \/ mode = "at" /\ ends
                               \/ mode = "eventually" /\ (holds \/ ends)
    BY <1>1, <1>2 DEF SettledBy
  <1>5. VerdictOf(x, i) = [status |-> IF holds THEN "PASS" ELSE "FAIL", time |-> t]
    BY <1>2 DEF VerdictOf
  <1>6. Assessor!Verdict(i, phase, marker, holds) =
           IF mode = "always" THEN IF ~holds THEN "FAIL" ELSE IF phase = "completion" THEN "PASS" ELSE "PENDING"
           ELSE IF holds THEN "PASS" ELSE IF ends THEN "FAIL" ELSE "PENDING"
    BY DEF Assessor!Verdict, Assessor!Due
  <1> HIDE DEF mode, holds, reached, ends
  <1>7. CASE SettledBy(i, x)
    <2>1. Assessor!Verdict(i, phase, marker, holds) = IF holds THEN "PASS" ELSE "FAIL"
      BY <1>1, <1>4, <1>6, <1>7
    <2> QED
      BY <1>3, <1>4, <1>5, <1>7, <2>1
  <1>8. CASE ~SettledBy(i, x)
    <2>1. (mode = "at" => ends) /\ reached => Assessor!Verdict(i, phase, marker, holds) = "PENDING"
      BY <1>1, <1>4, <1>6, <1>8
    <2> QED
      BY <1>3, <1>8, <2>1
  <1> QED
    BY <1>7, <1>8

\* A row whose predicate is not called stays as it is, as that of an assertion
\* that was settled.
LEMMA UncalledStays ==
    ASSUME NEW rs, NEW phase, NEW marker, NEW w, NEW t, NEW i \in Assessor!Indices, i \notin Assessor!Called(rs, phase, marker)
    PROVE  Assessor!Evaluate(rs, phase, marker, w, t)[i] = rs[i]
  <1> DEFINE reached == i \in Assessor!Called(rs, phase, marker) /\ i < Assessor!Upto(rs, phase, marker, w)
             new == [status |-> Assessor!Verdict(i, phase, marker, w[i] = "true"), time |-> t]
  <1>1. Assessor!Evaluate(rs, phase, marker, w, t)[i] = IF reached THEN new ELSE rs[i]
    BY DEF Assessor!Evaluate
  <1>2. ~reached
    OBVIOUS
  <1> HIDE DEF reached, new
  <1> QED
    BY <1>1, <1>2

LEMMA SettledStays ==
    ASSUME NEW rs, NEW phase, NEW marker, NEW w, NEW t, NEW i \in Assessor!Indices, rs[i].status # "PENDING"
    PROVE  Assessor!Evaluate(rs, phase, marker, w, t)[i] = rs[i]
  <1>1. i \notin Assessor!Called(rs, phase, marker)
    BY DEF Assessor!Called
  <1> QED
    BY <1>1, UncalledStays

LEMMA DecidedSettled == \A bs, i, r : Decided(bs, i, r) => r.status # "PENDING" /\ r.status # "INCOMPLETE"
  BY DEF Decided, VerdictOf

-----------------------------------------------------------------------------
(* One boundary more                                                        *)

LEMMA OneMoreDecides ==
    ASSUME NEW S, NEW bs \in Seq(S), NEW x \in S, NEW i
    PROVE  /\ Deciding(Append(bs, x), i) = Deciding(bs, i) \cup (IF SettledBy(i, x) THEN {Len(bs) + 1} ELSE {})
           /\ Deciding(bs, i) \subseteq 1..Len(bs)
           /\ \A b \in 1..Len(bs) : Append(bs, x)[b] = bs[b]
           /\ Append(bs, x)[Len(bs) + 1] = x
  <1> DEFINE more == Append(bs, x)
             n == Len(bs)
  <1>1. /\ n \in Nat /\ DOMAIN more = 1..n + 1 /\ DOMAIN bs = 1..n
        /\ \A b \in 1..n : more[b] = bs[b]
        /\ more[n + 1] = x
    BY AppendProperties
  <1> HIDE DEF more, n
  <1>2. 1..n + 1 = (1..n) \cup {n + 1} /\ n + 1 \notin 1..n
    BY <1>1
  <1>3. Deciding(more, i) = Deciding(bs, i) \cup (IF SettledBy(i, x) THEN {n + 1} ELSE {})
    BY <1>1, <1>2 DEF Deciding
  <1>4. Deciding(bs, i) \subseteq 1..n
    BY <1>1 DEF Deciding
  <1> QED
    BY <1>1, <1>3, <1>4 DEF more, n

LEMMA OneMoreAgrees ==
    ASSUME Assessor!WellFormed, NEW S, NEW bs \in Seq(S), NEW x \in S,
           NEW rs, NEW phase, NEW marker, NEW w, NEW t, NEW new,
           x = Assessor!Boundary(rs, phase, marker, w, t), new = Assessor!Evaluate(rs, phase, marker, w, t),
           AllAgree(bs, rs, "PENDING")
    PROVE  AllAgree(Append(bs, x), new, "PENDING")
  <1> SUFFICES ASSUME NEW i \in Assessor!Indices PROVE Agrees(Append(bs, x), i, new[i], "PENDING")
    BY DEF AllAgree
  <1> DEFINE more == Append(bs, x)
             n == Len(bs)
             old == Deciding(bs, i)
  <1>1. /\ Deciding(more, i) = old \cup (IF SettledBy(i, x) THEN {n + 1} ELSE {})
        /\ old \subseteq 1..n /\ n \in Nat
        /\ \A b \in 1..n : more[b] = bs[b]
        /\ more[n + 1] = x
    BY OneMoreDecides
  <1>2. Agrees(bs, i, rs[i], "PENDING")
    BY DEF AllAgree
  <1> HIDE DEF more, n, old
  <1>3. CASE old # {}
    <2>1. Decided(bs, i, rs[i])
      BY <1>2, <1>3 DEF Agrees, old
    <2>2. new[i] = rs[i]
      BY <2>1, DecidedSettled, SettledStays
    <2>3. PICK b \in old : (\A c \in old : b <= c) /\ rs[i] = VerdictOf(bs[b], i)
      BY <2>1 DEF Decided, old
    <2>4. b \in 1..n /\ more[b] = bs[b] /\ b <= n + 1
      BY <1>1
    <2>5. b \in Deciding(more, i) /\ \A c \in Deciding(more, i) : b <= c
      BY <1>1, <2>3, <2>4
    <2>6. Decided(more, i, new[i])
      BY <2>2, <2>3, <2>4, <2>5 DEF Decided
    <2> QED
      BY <2>5, <2>6 DEF Agrees, more
  <1>4. CASE old = {} /\ SettledBy(i, x)
    <2>1. rs[i].status = "PENDING"
      BY <1>2, <1>4 DEF Agrees, old
    <2>2. new[i] = VerdictOf(x, i)
      BY <1>4, <2>1, Settling
    <2>3. Deciding(more, i) = {n + 1}
      BY <1>1, <1>4
    <2>4. Decided(more, i, new[i])
      BY <1>1, <2>2, <2>3 DEF Decided
    <2> QED
      BY <2>3, <2>4 DEF Agrees, more
  <1>5. CASE old = {} /\ ~SettledBy(i, x)
    <2>1. rs[i].status = "PENDING"
      BY <1>2, <1>5 DEF Agrees, old
    <2>2. new[i].status = "PENDING"
      BY <1>5, <2>1, Settling
    <2>3. Deciding(more, i) = {}
      BY <1>1, <1>5
    <2> QED
      BY <2>2, <2>3 DEF Agrees, more
  <1> QED
    BY <1>3, <1>4, <1>5

\* A failure leaves what is open incomplete, and nothing else.
LEMMA FailureAgrees ==
    ASSUME NEW bs, NEW rs \in AllRows, AllAgree(bs, rs, "PENDING")
    PROVE  AllAgree(bs, Assessor!OnFailure(rs), "INCOMPLETE")
  <1> SUFFICES ASSUME NEW i \in Assessor!Indices PROVE Agrees(bs, i, Assessor!OnFailure(rs)[i], "INCOMPLETE")
    BY DEF AllAgree
  <1>1. Agrees(bs, i, rs[i], "PENDING")
    BY DEF AllAgree
  <1>2. CASE Deciding(bs, i) = {}
    BY <1>1, <1>2, FailedRow DEF Agrees
  <1>3. CASE Deciding(bs, i) # {}
    <2>1. Decided(bs, i, rs[i])
      BY <1>1, <1>3 DEF Agrees
    <2>2. Assessor!OnFailure(rs)[i] = rs[i]
      BY <2>1, DecidedSettled, FailedRow
    <2> QED
      BY <1>3, <2>1, <2>2 DEF Agrees
  <1> QED
    BY <1>2, <1>3

\* An evaluation in which no predicate breaks reaches every assertion, so that
\* of the completion settles them all.
LEMMA CompletionSettles ==
    ASSUME Assessor!WellFormed, NEW rs, NEW marker, NEW w, NEW t, NEW i \in Assessor!Indices,
           Assessor!Breaks(rs, "completion", marker, w) = {}
    PROVE  SettledBy(i, Assessor!Boundary(rs, "completion", marker, w, t))
  <1>1. Len(Assertions) \in Nat /\ i \in 1..Len(Assertions) /\ Assertions[i].mode \in {"always", "at", "eventually"}
    BY Modes
  <1>2. Assessor!Upto(rs, "completion", marker, w) = Len(Assertions) + 1
    <2>1. {} \cup {Len(Assertions) + 1} = {Len(Assertions) + 1}
      OBVIOUS
    <2>2. Assessor!Min({Len(Assertions) + 1}) = Len(Assertions) + 1
      BY <1>1 DEF Assessor!Min
    <2> QED
      BY <2>1, <2>2 DEF Assessor!Upto
  <1>3. i < Assessor!Upto(rs, "completion", marker, w)
    BY <1>1, <1>2
  <1> QED
    BY <1>1, <1>3 DEF SettledBy, Assessor!Boundary

-----------------------------------------------------------------------------
(* The invariant                                                            *)

\* A row that a boundary decides is the one the property asks for.
LEMMA InvariantSays == ASSUME Assessor!WellFormed PROVE AssessmentInv => Assessor!VerdictsFollowHistory
  <1> SUFFICES ASSUME AssessmentInv PROVE Assessor!VerdictsFollowHistory
    OBVIOUS
  <1>1. \A i \in Assessor!Indices : Assessor!Settles(i) = Deciding(boundaries, i)
    <2> SUFFICES ASSUME NEW i \in Assessor!Indices PROVE Assessor!Settles(i) = Deciding(boundaries, i)
      OBVIOUS
    <2>1. Assertions[i].mode \in {"always", "at", "eventually"}
      BY Modes
    <2>2. \A b \in DOMAIN boundaries : b \in Assessor!Settles(i) <=> SettledBy(i, boundaries[b])
      BY <2>1 DEF Assessor!Settles, Assessor!Reached, Assessor!True, Assessor!Ends, SettledBy
    <2>3. \A b \in Assessor!Settles(i) : b \in DOMAIN boundaries
      BY DEF Assessor!Settles, Assessor!Reached
    <2> QED
      BY <2>2, <2>3 DEF Deciding
  <1>2. ASSUME NEW i \in Assessor!Indices
        PROVE  IF Assessor!Settles(i) # {}
               THEN rows[i] = [status |-> IF Assessor!True(i, Assessor!Min(Assessor!Settles(i))) THEN "PASS" ELSE "FAIL", time |-> boundaries[Assessor!Min(Assessor!Settles(i))].time]
               ELSE rows[i].status = Open /\ verdict # "COMPLETED"
    <2>1. Agrees(boundaries, i, rows[i], Open)
      BY DEF AssessmentInv, AllAgree
    <2>2. CASE Assessor!Settles(i) = {}
      BY <1>1, <2>1, <2>2 DEF Agrees, AssessmentInv, AssessmentTypes
    <2>3. CASE Assessor!Settles(i) # {}
      <3> DEFINE D == Assessor!Settles(i)
      <3>1. PICK b \in D : (\A c \in D : b <= c) /\ rows[i] = VerdictOf(boundaries[b], i)
        BY <1>1, <2>1, <2>3 DEF Agrees, Decided
      <3>2. \A c \in D : c \in Nat
        <4>1. boundaries \in Seq(Boundaries)
          BY DEF AssessmentInv, AssessmentTypes
        <4>2. DOMAIN boundaries = 1..Len(boundaries) /\ Len(boundaries) \in Nat
          BY <4>1, LenProperties
        <4> QED
          BY <4>2 DEF Assessor!Settles, Assessor!Reached
      <3> HIDE DEF D
      <3>3. \A m \in D : (\A c \in D : m <= c) => m = b
        BY <3>1, <3>2
      <3>4. Assessor!Min(D) = b
        BY <3>1, <3>3 DEF Assessor!Min
      <3>5. rows[i] = [status |-> IF Assessor!True(i, b) THEN "PASS" ELSE "FAIL", time |-> boundaries[b].time]
        BY <3>1 DEF VerdictOf, Assessor!True
      <3> QED
        BY <2>3, <3>4, <3>5 DEF D
    <2> QED
      BY <2>2, <2>3
  <1>3. ASSUME verdict # "FAILED", Len(boundaries) > 1, NEW e \in agenda, e.marker # 0
        PROVE  rows[e.marker].status = "PENDING"
    BY <1>3 DEF AssessmentInv, MarkersWait
  <1> QED
    BY <1>2, <1>3 DEF Assessor!VerdictsFollowHistory, Open

Starting ==
    /\ agenda = Assessor!Composed /\ world \in Worlds
    /\ verdict = (IF Assessor!Broken(world) THEN "FAILED" ELSE "READY")
    /\ rows = Assessor!FirstRows(world)
    /\ boundaries = <<Assessor!Boundary(Assessor!Fresh, "init", 0, world, 0)>>

LEMMA FreshRows ==
    /\ Assessor!Fresh \in AllRows
    /\ \A i \in Assessor!Indices : Assessor!Fresh[i].status = "PENDING"
    /\ AllAgree(<<>>, Assessor!Fresh, "PENDING")
  <1>1. \A i \in Assessor!Indices : Assessor!Fresh[i] = [status |-> "PENDING", time |-> 0]
    BY DEF Assessor!Fresh
  <1>2. Assessor!Fresh \in AllRows
    BY DEF Assessor!Fresh, AllRows, Statuses
  <1>3. \A i \in Assessor!Indices : Deciding(<<>>, i) = {}
    BY DEF Deciding
  <1> QED
    BY <1>1, <1>2, <1>3 DEF AllAgree, Agrees

LEMMA ComposedMarkers ==
    ASSUME Assessor!WellFormed
    PROVE  /\ \A e \in Assessor!Composed : e.time \in Nat /\ e.marker \in Markers
           /\ \A e, f \in Assessor!Composed : e.marker = f.marker /\ e.marker # 0 => e = f
           /\ \A e \in Assessor!Composed : e.marker # 0 => Assessor!Marker(e.marker)
  <1>1. \A k \in DOMAIN Actions : Actions[k] \in Nat
    BY ElementOfSeq, LenProperties DEF Assessor!WellFormed
  <1>2. \A e \in Assessor!Composed :
           \/ \E k \in DOMAIN Actions : e = [time |-> Actions[k], sequence |-> k, marker |-> 0]
           \/ \E i \in Assessor!Indices : Assessor!Marker(i) /\ e = [time |-> Assertions[i].time, sequence |-> Len(Actions) + i, marker |-> i]
    BY DEF Assessor!Composed
  <1>3. \A e \in Assessor!Composed : e.time \in Nat /\ e.marker \in Markers
    BY <1>1, <1>2, Modes DEF Markers
  <1>4. \A e \in Assessor!Composed : e.marker # 0 => Assessor!Marker(e.marker)
                               /\ e = [time |-> Assertions[e.marker].time, sequence |-> Len(Actions) + e.marker, marker |-> e.marker]
    BY <1>2
  <1> QED
    BY <1>3, <1>4

LEMMA StartHolds == ASSUME Assessor!WellFormed PROVE Starting => AssessmentInv
  <1> SUFFICES ASSUME Starting PROVE AssessmentInv
    OBVIOUS
  <1> DEFINE x == Assessor!Boundary(Assessor!Fresh, "init", 0, world, 0)
             rs == Assessor!Evaluate(Assessor!Fresh, "init", 0, world, 0)
  <1>1. world \in Worlds
    BY DEF Starting
  <1>2. x \in Boundaries /\ rs \in AllRows
    <2>1. "init" \in Phases /\ 0 \in Markers /\ 0 \in Nat
      BY DEF Phases, Markers
    <2> QED
      BY <1>1, <2>1, FreshRows, BoundaryType, EvaluatedType
  <1>3. <<>> \in Seq(Boundaries) /\ Append(<<>>, x) = <<x>> /\ <<x>> \in Seq(Boundaries) /\ Len(<<x>>) = 1
    BY <1>2
  <1>4. AllAgree(<<x>>, rs, "PENDING")
    <2> DEFINE none == <<>>
    <2>1. none \in Seq(Boundaries) /\ AllAgree(none, Assessor!Fresh, "PENDING")
      BY <1>3, FreshRows
    <2> HIDE DEF none
    <2>2. AllAgree(Append(none, x), rs, "PENDING")
      BY <1>2, <2>1, OneMoreAgrees
    <2> QED
      BY <1>3, <2>2 DEF none
  <1>5. boundaries = <<x>> /\ boundaries \in Seq(Boundaries) /\ Len(boundaries) = 1
    BY <1>3 DEF Starting
  <1>6. CASE Assessor!Broken(world)
    <2>1. verdict = "FAILED" /\ rows = Assessor!OnFailure(rs)
      BY <1>6 DEF Starting, Assessor!FirstRows
    <2>2. rows \in AllRows /\ AllAgree(boundaries, rows, Open)
      BY <1>2, <1>4, <1>5, <2>1, FailedType, FailureAgrees DEF Open
    <2>3. MarkersWait
      BY <2>1 DEF MarkersWait
    <2>4. AssessmentTypes
      BY <1>1, <1>5, <2>1, <2>2, ComposedMarkers DEF AssessmentTypes, Starting
    <2> QED
      BY <2>2, <2>3, <2>4 DEF AssessmentInv
  <1>7. CASE ~Assessor!Broken(world)
    <2>1. verdict = "READY" /\ rows = rs
      BY <1>7 DEF Starting, Assessor!FirstRows
    <2>2. rows \in AllRows /\ AllAgree(boundaries, rows, Open)
      BY <1>2, <1>4, <1>5, <2>1 DEF Open
    <2>3. MarkersWait
      <3> SUFFICES ASSUME NEW e \in agenda, e.marker # 0, Assertions[e.marker].mode = "at" PROVE rows[e.marker].status = "PENDING"
        BY <1>5 DEF MarkersWait
      <3> DEFINE m == e.marker
      <3>1. m \in Assessor!Indices
        BY ComposedMarkers DEF Starting, Markers
      <3>2. m \notin Assessor!Called(Assessor!Fresh, "init", 0)
        BY DEF Assessor!Called, Assessor!Due
      <3>3. Assessor!Evaluate(Assessor!Fresh, "init", 0, world, 0)[m] = Assessor!Fresh[m]
        BY <3>1, <3>2, UncalledStays
      <3> QED
        BY <2>1, <3>1, <3>3, FreshRows
    <2>4. AssessmentTypes
      BY <1>1, <1>5, <2>1, <2>2, ComposedMarkers DEF AssessmentTypes, Starting
    <2> QED
      BY <2>2, <2>3, <2>4 DEF AssessmentInv
  <1> QED
    BY <1>6, <1>7

LEMMA ResetStarts == Assessor!Reset => Starting'
  BY DEF Assessor!Reset, Starting, Worlds

\* What is left of the agenda when the handler of e has scheduled its follow-ups.
Left(e, later) == (agenda \ {e}) \cup {[time |-> t, sequence |-> sequence + 1, marker |-> 0] : t \in later}

\* Markers stay unique, and the one of e is gone.
LEMMA LeftMarkers ==
    ASSUME AssessmentTypes, NEW e \in agenda, NEW later, \A t \in later : t \in Nat
    PROVE  /\ \A f \in Left(e, later) : f.time \in Nat /\ f.marker \in Markers
           /\ \A f, g \in Left(e, later) : f.marker = g.marker /\ f.marker # 0 => f = g
           /\ \A f \in Left(e, later) : f.marker # 0 => Assessor!Marker(f.marker) /\ f \in agenda /\ f.marker # e.marker
  <1>1. \A f \in Left(e, later) : f.marker # 0 => f \in agenda /\ f # e
    BY DEF Left
  <1>2. \A f \in Left(e, later) : f \in agenda \/ \E t \in later : f = [time |-> t, sequence |-> sequence + 1, marker |-> 0]
    BY DEF Left
  <1>3. \A f \in Left(e, later) : f.time \in Nat /\ f.marker \in Markers
    BY <1>2 DEF AssessmentTypes, Markers
  <1> QED
    BY <1>1, <1>3 DEF AssessmentTypes

LEMMA DispatchHolds == ASSUME Assessor!WellFormed, AssessmentInv, Assessor!Dispatch PROVE AssessmentInv'
  <1>0. PICK e \in agenda : \E i \in Assessor!Indices, v \in Assessor!Values, later \in {{}} \cup {{t} : t \in e.time..MaxInstant} :
           /\ world' = [world EXCEPT ![i] = v]
           /\ Assessor!AfterEvent(e.marker, world', e.time,
                         (agenda \ {e}) \cup {[time |-> t, sequence |-> sequence + 1, marker |-> 0] : t \in later})
    BY DEF Assessor!Dispatch
  <1>1. PICK i \in Assessor!Indices, v \in Assessor!Values, later \in {{}} \cup {{t} : t \in e.time..MaxInstant} :
           /\ world' = [world EXCEPT ![i] = v]
           /\ Assessor!AfterEvent(e.marker, world', e.time,
                         (agenda \ {e}) \cup {[time |-> t, sequence |-> sequence + 1, marker |-> 0] : t \in later})
    BY <1>0
  <1> DEFINE marker == e.marker
             t == e.time
             w == world'
             left == Left(e, later)
             first == Assessor!Evaluate(rows, "event", marker, w, t)
             rest == Assessor!Live(left, first)
             last == Assessor!Evaluate(first, "completion", 0, w, t)
             x == Assessor!Boundary(rows, "event", marker, w, t)
             y == Assessor!Boundary(first, "completion", 0, w, t)
             one == Append(boundaries, x)
             two == Append(one, y)
  <1>2. Assessor!AfterEvent(marker, w, t, left)
    BY <1>1 DEF Left
  <1>3. verdict = "READY" /\ AssessmentTypes
    BY DEF Assessor!Dispatch, AssessmentInv
  <1>4. /\ marker \in Markers /\ t \in Nat /\ w \in Worlds /\ rows \in AllRows
        /\ boundaries \in Seq(Boundaries) /\ Len(boundaries) > 0
    BY <1>1, <1>3 DEF AssessmentTypes, Worlds
  <1>5. "event" \in Phases /\ "completion" \in Phases /\ 0 \in Markers
    BY DEF Phases, Markers
  <1>6. first \in AllRows /\ last \in AllRows /\ x \in Boundaries /\ y \in Boundaries
    BY <1>4, <1>5, EvaluatedType, BoundaryType
  <1>7. one \in Seq(Boundaries) /\ two \in Seq(Boundaries) /\ Len(one) > 1 /\ Len(two) > 1
    BY <1>4, <1>6
  <1>8. AllAgree(one, first, "PENDING")
    <2>1. AllAgree(boundaries, rows, "PENDING")
      BY <1>3 DEF AssessmentInv, Open
    <2> QED
      BY <1>4, <1>6, <2>1, OneMoreAgrees
  <1>9. AllAgree(two, last, "PENDING")
    <2> HIDE DEF one, first
    <2> QED
      BY <1>6, <1>7, <1>8, OneMoreAgrees
  <1>10. /\ \A f \in left : f.time \in Nat /\ f.marker \in Markers
         /\ \A f, g \in left : f.marker = g.marker /\ f.marker # 0 => f = g
         /\ \A f \in left : f.marker # 0 => Assessor!Marker(f.marker) /\ f \in agenda /\ f.marker # marker
    <2>1. \A u \in later : u \in Nat
      <3>1. e.time \in Nat /\ MaxInstant \in Nat
        BY <1>3 DEF AssessmentTypes, Assessor!WellFormed
      <3> QED
        BY <3>1
    <2> QED
      BY <1>3, <2>1, LeftMarkers
  <1>11. \A f \in rest : f \in left
    BY DEF Assessor!Live
  <1>12. ASSUME NEW f \in rest, f.marker # 0 PROVE first[f.marker].status = "PENDING"
    <2> DEFINE m == f.marker
    <2>1. m \in Assessor!Indices /\ f \in agenda /\ m # marker /\ Assertions[m].mode # "always"
      BY <1>10, <1>11, <1>12 DEF Assessor!Marker, Markers
    <2>2. CASE Assertions[m].mode = "at"
      <3>1. rows[m].status = "PENDING"
        BY <1>3, <1>12, <2>1, <2>2 DEF AssessmentInv, MarkersWait
      <3>2. m \notin Assessor!Called(rows, "event", marker)
        BY <2>1, <2>2 DEF Assessor!Called, Assessor!Due
      <3> QED
        BY <2>1, <3>1, <3>2, UncalledStays
    <2>3. CASE Assertions[m].mode = "eventually"
      BY <1>12, <2>3 DEF Assessor!Live
    <2> QED
      BY <2>1, <2>2, <2>3, Modes
  <1> DEFINE Become(s, rs, bs, ag) == verdict' = s /\ rows' = rs /\ boundaries' = bs /\ agenda' = ag
             wrong == Assessor!OnFailure(first)
             failed == Assessor!OnFailure(last)
             finished == Assessor!Breaks(first, "completion", 0, w) = {}
  <1>13. \/ Become("FAILED", wrong, one, left)
         \/ Become("READY", first, one, rest)
         \/ Become("FAILED", wrong, one, {})
         \/ Become("FAILED", failed, two, {})
         \/ finished /\ Become("COMPLETED", last, two, {})
    <2> HIDE DEF left
    <2> QED
      BY <1>2 DEF Assessor!AfterEvent
  <1>14. CASE Become("FAILED", wrong, one, left)
    <2>1. verdict' = "FAILED" /\ rows' = Assessor!OnFailure(first) /\ boundaries' = one /\ agenda' = left
      BY <1>14
    <2> HIDE DEF first, one, left, w
    <2>2. rows' \in AllRows /\ AllAgree(boundaries', rows', Open')
      BY <1>6, <1>8, <2>1, FailedType, FailureAgrees DEF Open
    <2>3. MarkersWait'
      BY <2>1 DEF MarkersWait
    <2>4. AssessmentTypes'
      BY <1>4, <1>7, <1>10, <2>1, <2>2 DEF AssessmentTypes, w
    <2> QED
      BY <2>2, <2>3, <2>4 DEF AssessmentInv
  <1>15. CASE Become("READY", first, one, rest)
    <2>1. verdict' = "READY" /\ rows' = first /\ boundaries' = one /\ agenda' = rest
      BY <1>15
    <2> HIDE DEF first, one, left, w, rest
    <2>2. AllAgree(boundaries', rows', Open')
      BY <1>8, <2>1 DEF Open
    <2>3. MarkersWait'
      BY <1>12, <2>1 DEF MarkersWait
    <2>4. AssessmentTypes'
      BY <1>4, <1>6, <1>7, <1>10, <1>11, <2>1 DEF AssessmentTypes, w
    <2> QED
      BY <2>2, <2>3, <2>4 DEF AssessmentInv
  <1>16. CASE Become("FAILED", wrong, one, {})
    <2>1. verdict' = "FAILED" /\ rows' = Assessor!OnFailure(first) /\ boundaries' = one /\ agenda' = {}
      BY <1>16
    <2> HIDE DEF first, one, w
    <2>2. rows' \in AllRows /\ AllAgree(boundaries', rows', Open')
      BY <1>6, <1>8, <2>1, FailedType, FailureAgrees DEF Open
    <2>3. MarkersWait'
      BY <2>1 DEF MarkersWait
    <2>4. AssessmentTypes'
      BY <1>4, <1>7, <2>1, <2>2 DEF AssessmentTypes, w
    <2> QED
      BY <2>2, <2>3, <2>4 DEF AssessmentInv
  <1>17. CASE Become("FAILED", failed, two, {})
    <2>1. verdict' = "FAILED" /\ rows' = Assessor!OnFailure(last) /\ boundaries' = two /\ agenda' = {}
      BY <1>17
    <2> HIDE DEF last, two, w
    <2>2. rows' \in AllRows /\ AllAgree(boundaries', rows', Open')
      BY <1>6, <1>9, <2>1, FailedType, FailureAgrees DEF Open
    <2>3. MarkersWait'
      BY <2>1 DEF MarkersWait
    <2>4. AssessmentTypes'
      BY <1>4, <1>7, <2>1, <2>2 DEF AssessmentTypes, w
    <2> QED
      BY <2>2, <2>3, <2>4 DEF AssessmentInv
  <1>18. CASE finished /\ Become("COMPLETED", last, two, {})
    <2>1. verdict' = "COMPLETED" /\ rows' = last /\ boundaries' = two /\ agenda' = {}
      BY <1>18
    <2>2. \A j \in Assessor!Indices : SettledBy(j, y)
      BY <1>18, CompletionSettles
    <2>3. \A j \in Assessor!Indices : Deciding(two, j) # {}
      <3> HIDE DEF one, y
      <3> QED
        BY <1>6, <1>7, <2>2, OneMoreDecides
    <2> HIDE DEF last, two, w
    <2>4. AllAgree(boundaries', rows', Open')
      BY <1>9, <2>1 DEF Open
    <2>5. MarkersWait'
      BY <2>1 DEF MarkersWait
    <2>6. AssessmentTypes'
      BY <1>4, <1>6, <1>7, <2>1, <2>3 DEF AssessmentTypes, w
    <2> QED
      BY <2>4, <2>5, <2>6 DEF AssessmentInv
  <1> QED
    BY <1>13, <1>14, <1>15, <1>16, <1>17, <1>18

LEMMA FailHolds == ASSUME AssessmentInv, Assessor!Fail PROVE AssessmentInv'
  <1>1. /\ verdict = "READY" /\ verdict' = "FAILED" /\ rows' = Assessor!OnFailure(rows)
        /\ UNCHANGED <<world, boundaries>> /\ agenda' \subseteq agenda
    BY DEF Assessor!Fail
  <1>2. rows \in AllRows /\ AllAgree(boundaries, rows, "PENDING") /\ AssessmentTypes
    BY <1>1 DEF AssessmentInv, AssessmentTypes, Open
  <1>3. rows' \in AllRows /\ AllAgree(boundaries', rows', Open')
    BY <1>1, <1>2, FailedType, FailureAgrees DEF Open
  <1>4. MarkersWait'
    BY <1>1 DEF MarkersWait
  <1>5. AssessmentTypes'
    BY <1>1, <1>2, <1>3 DEF AssessmentTypes
  <1> QED
    BY <1>3, <1>4, <1>5 DEF AssessmentInv

\* The invariant holds at the start, after every step and after every reset.
LEMMA AssessmentInit == Assessor!Init => AssessmentInv
  <1>1. Assessor!Init => Starting
    BY DEF Assessor!Init, Starting, Worlds
  <1> QED
    BY <1>1, StartHolds, AssessmentAssumption

LEMMA StartHoldsAgain == Starting' => AssessmentInv'
  <1>1. Starting => AssessmentInv
    BY StartHolds, AssessmentAssumption
  <1> QED
    BY <1>1, PTL

LEMMA AssessmentStep == ASSUME AssessmentInv, [Assessor!Next]_assessmentVars PROVE AssessmentInv'
  <1>1. CASE Assessor!Dispatch
    BY <1>1, DispatchHolds, AssessmentAssumption
  <1>2. CASE Assessor!Fail
    BY <1>2, FailHolds, AssessmentAssumption
  <1>3. CASE Assessor!Reset
    BY <1>3, ResetStarts, StartHoldsAgain
  <1>4. CASE UNCHANGED assessmentVars
    BY <1>4 DEF AssessmentInv, AssessmentTypes, AllAgree, Agrees, Decided, Deciding, MarkersWait, Open, assessmentVars
  <1> QED
    BY <1>1, <1>2, <1>3, <1>4 DEF Assessor!Next

-----------------------------------------------------------------------------
(* The run shows one lesson, and the others stay as they begin.            *)

LessonsInv == StockInv /\ PriceInv /\ RetryInv /\ OutboxInv /\ SagaInv /\ AssessmentInv

LEMMA LessonsStep ==
    ASSUME LessonsInv,
           [LessonsNext]_<<lesson, vars, reservationsVars, priceVars, retryVars, outboxVars, sagaVars, assessmentVars>>
    PROVE  LessonsInv'
  <1>1. /\ [ReservationsNext]_reservationsVars /\ [PriceLesson!Next]_priceVars /\ [RetryLesson!Next]_retryVars
        /\ [OutboxLesson!Next]_outboxVars /\ [SagaLesson!Next]_sagaVars /\ [Assessor!Next]_assessmentVars
    BY DEF LessonsNext, Unshown, Still
  <1> QED
    BY <1>1, StockStep, PriceStep, RetryStep, OutboxStep, SagaStep, AssessmentStep DEF LessonsInv

LEMMA LessonsKept == LessonsSpec => []LessonsInv
  <1>1. LessonsInit => LessonsInv
    BY StockInit, PriceInit, RetryInit, OutboxInit, SagaInit, AssessmentInit DEF LessonsInit, LessonsInv
  <1> QED
    BY <1>1, LessonsStep, PTL DEF LessonsSpec

\* Whatever is cached, invalidated, changed and checked out meanwhile, no
\* price served and no order placed is staler than the cache's design allows.
THEOREM PricesRecent == LessonsSpec => []BoundedStaleness
  <1>1. LessonsInv => BoundedStaleness
    BY PriceInvGives DEF LessonsInv
  <1> QED
    BY <1>1, LessonsKept, PTL

\* Whatever is lost, retried and answered late, a payment with its key is
\* charged once, and without it no payment is reported that is not there.
THEOREM RetriesChargeOnce == LessonsSpec => []ChargedOnce
  <1>1. LessonsInv => ChargedOnce
    BY DEF LessonsInv, RetryInv
  <1> QED
    BY <1>1, LessonsKept, PTL

\* Whatever crashes between the payment, the publication and the mark, and
\* however often the event is delivered, it is not lost and is applied once.
THEOREM OutboxNotifiesOnce == LessonsSpec => []NotifiedOnce
  <1>1. LessonsInv => NotifiedOnce
    BY DEF LessonsInv, OutboxInv
  <1> QED
    BY <1>1, LessonsKept, PTL

\* Whatever times out, an order is confirmed on stock and money only, and
\* nothing is undone of an order that may still be confirmed.
THEOREM SagaSettles == LessonsSpec => []OrderStandsOnBoth
  <1>1. LessonsInv => OrderStandsOnBoth
    BY DEF LessonsInv, SagaInv
  <1> QED
    BY <1>1, LessonsKept, PTL

\* Verdicts follow the history in every reachable state, for any assertions,
\* actions and events (assessment.ts:50-101, engine.ts:145-150).
THEOREM VerdictsAgree == LessonsSpec => []VerdictsFollowHistory
  <1>1. LessonsInv => VerdictsFollowHistory
    BY InvariantSays, AssessmentAssumption DEF LessonsInv, VerdictsFollowHistory
  <1> QED
    BY <1>1, LessonsKept, PTL

=============================================================================
