------------------------ MODULE VirtualNetwork_proofs ------------------------
(***************************************************************************)
(* Deadlines, tasks, wakes and answers of the virtual network agree for    *)
(* any calls, policies, faults and scripts.  The argument: a request is    *)
(* one token that moves from its delivery to its endpoint event, to the    *)
(* handler that sleeps or the call that handler waits for, and ends with   *)
(* the answer; a call is made once, by its start, by the endpoint event of *)
(* the request it serves or by the timeout it retries; and the deadline of *)
(* a call is scheduled before its response.                                *)
(*                                                                         *)
(* A handler works in parts (settle, then reply or request), so that the   *)
(* invariant is an operator of the flights F, calls C, answers A, handlers *)
(* H, pending events E and next sequence number n, as a part leaves them.  *)
(***************************************************************************)
EXTENDS VirtualNetwork, TLAPS

CallTypes == {"start", "deadline", "delivery", "response", "endpoint", "wake"}

Typed(F, C, A, H, E, n) ==
    /\ F \in [Calls -> Flight]
    /\ C \in [Calls -> CallStatus]
    /\ A \in [Calls -> {"none", "ok", "error"}]
    /\ H \subseteq Handler
    /\ E \subseteq Event
    /\ n \in Nat

\* A flight that is not settled has its one deadline, at its time.
DeadlinesKept(F, C, E) ==
    /\ \A e \in E : e.type = "deadline" =>
          /\ F[e.call].state # "NONE" /\ ~F[e.call].settled /\ e.time = F[e.call].deadline
    /\ \A p \in Calls : F[p].state # "NONE" /\ ~F[p].settled => \E e \in E : e.type = "deadline" /\ e.call = p
    /\ \A e, f \in E : e.type = "deadline" /\ f.type = "deadline" /\ e.call = f.call => e = f
    /\ \A p \in Calls : C[p] = "waiting" => ~F[p].settled

\* A call is made once: by its start, or after the timeout it retries.
MadeOnce(F, C, E) ==
    /\ \A p \in Calls : F[p].state = "NONE" <=> C[p] \in {"idle", "skipped"}
    /\ \A p \in Calls : \A q \in Retry[p] : C[q] # "idle" => C[p] = "timeout"
    /\ \A e \in E : e.type = "start" => e.call \in FirstCalls /\ Upstream[e.call] = {} /\ C[e.call] = "idle"
    /\ \A e, f \in E : e.type = "start" /\ f.type = "start" /\ e.call = f.call => e = f

\* What was answered is what comes back, and it was scheduled after the
\* deadline.
AnswersKept(F, A, E, n) ==
    /\ \A p \in Calls : F[p].replied <=> A[p] # "none"
    /\ \A p \in Calls : F[p].replied => F[p].state # "NONE"
    /\ \A e \in E : e.type = "response" => F[e.call].replied /\ A[e.call] = e.answer
    /\ \A d, e \in E : d.type = "deadline" /\ e.type = "response" /\ d.call = e.call => d.seq < e.seq
    /\ \A e \in E : e.seq < n

\* An event on the way to the handler of a request.
Inbound(e) == e.type \in {"delivery", "endpoint"}

\* The request is one token until it is answered.
OneToken(F, C, H, E) ==
    /\ \A e \in E : e.type = "delivery" => F[e.call].state # "NONE" /\ ~F[e.call].replied
    /\ \A e \in E : e.type = "endpoint" => F[e.call].state \notin {"NONE", "SENT"} /\ ~F[e.call].replied
    /\ \A h \in H : F[h.call].state \notin {"NONE", "SENT"} /\ ~F[h.call].replied
    /\ \A e, f \in E : Inbound(e) /\ Inbound(f) /\ e.call = f.call => e = f
    /\ \A g, h \in H : g.call = h.call => g = h
    /\ \A e \in E, h \in H : Inbound(e) => e.call # h.call

\* The calls made for a request end its token, and one at most waits.
ServedByOne(F, C, H, E) ==
    /\ \A p \in Calls : C[p] # "idle" => \A u \in Upstream[p] :
          /\ F[u].state \notin {"NONE", "SENT"}
          /\ \A e \in E : Inbound(e) => e.call # u
          /\ \A h \in H : h.call # u
    /\ \A p \in Calls : C[p] = "waiting" => \A u \in Upstream[p] : ~F[u].replied
    /\ \A p, q \in Calls : C[p] = "waiting" /\ C[q] = "waiting" /\ Upstream[p] \cap Upstream[q] # {} => p = q

\* A sleeping handler has its wake, and no wake is without one.
WakesKept(H, E) ==
    /\ \A h \in H : \E e \in E : e.type = "wake" /\ e.call = h.call
    /\ \A e \in E : e.type = "wake" => \E h \in H : h.call = e.call
    /\ \A e, f \in E : e.type = "wake" /\ f.type = "wake" /\ e.call = f.call => e = f

Books(F, C, A, H, E, n) ==
    /\ Typed(F, C, A, H, E, n)
    /\ DeadlinesKept(F, C, E)
    /\ MadeOnce(F, C, E)
    /\ AnswersKept(F, A, E, n)
    /\ OneToken(F, C, H, E)
    /\ ServedByOne(F, C, H, E)
    /\ WakesKept(H, E)

\* The outcome of a call is an answer to the request it serves, except for X.
Passed(F, C, X) ==
    \A p \in Calls \ X : C[p] \in {"ok", "error"} \/ (C[p] = "timeout" /\ Retry[p] = {}) => \A u \in Upstream[p] : F[u].replied

\* Sleeping handlers are of the present generation.
Fresh == \A h \in handlers : h.generation = generation[Target[h.call]]

StatusKept == /\ status # "DEADLOCK"
              /\ status = "COMPLETED" => agenda = {}

IInv ==
    /\ Books(flights, calls, answers, handlers, agenda, nextSeq)
    /\ Passed(flights, calls, {})
    /\ Fresh
    /\ StatusKept
    /\ TypeOK


-----------------------------------------------------------------------------
(* Events                                                                   *)

LEMMA EventFields ==
    ASSUME NEW e \in Event
    PROVE  /\ e.time \in Nat /\ e.seq \in Nat
           /\ e.type \in CallTypes => e.call \in Calls
           /\ e.type = "response" => e.answer \in {"ok", "error"}
           /\ e.type = "endpoint" => e.generation \in Nat
           /\ e.type \in {"lifecycle", "control"} => e.component \in Components /\ e.next \in ServiceState
  BY DEF Event, CallTypes

LEMMA StartFields ==
    ASSUME NEW t \in Nat, NEW n \in Nat, NEW p \in Calls
    PROVE  LET x == StartEvent(t, n, p) IN x \in Event /\ x.type = "start" /\ x.call = p /\ x.seq = n /\ x.time = t
  BY DEF StartEvent, Event

LEMMA LifecycleFields ==
    ASSUME NEW t \in Nat, NEW n \in Nat, NEW c \in Components, NEW s \in ServiceState
    PROVE  LET x == LifecycleEvent(t, n, c, s) IN x \in Event /\ x.type = "lifecycle" /\ x.seq = n
  BY DEF LifecycleEvent, Event

LEMMA ControlFields ==
    ASSUME NEW t \in Nat, NEW n \in Nat, NEW c \in Components, NEW s \in ServiceState
    PROVE  LET x == ControlEvent(t, n, c, s) IN x \in Event /\ x.type = "control" /\ x.seq = n
  BY DEF ControlEvent, Event

LEMMA DeadlineFields ==
    ASSUME NEW t \in Nat, NEW n \in Nat, NEW p \in Calls
    PROVE  LET x == DeadlineEvent(t, n, p) IN x \in Event /\ x.type = "deadline" /\ x.call = p /\ x.seq = n /\ x.time = t
  BY DEF DeadlineEvent, Event

LEMMA DeliveryFields ==
    ASSUME NEW t \in Nat, NEW n \in Nat, NEW p \in Calls
    PROVE  LET x == DeliveryEvent(t, n, p) IN x \in Event /\ x.type = "delivery" /\ x.call = p /\ x.seq = n
  BY DEF DeliveryEvent, Event

LEMMA WakeFields ==
    ASSUME NEW t \in Nat, NEW n \in Nat, NEW p \in Calls
    PROVE  LET x == WakeEvent(t, n, p) IN x \in Event /\ x.type = "wake" /\ x.call = p /\ x.seq = n
  BY DEF WakeEvent, Event

LEMMA ResponseFields ==
    ASSUME NEW t \in Nat, NEW n \in Nat, NEW p \in Calls, NEW a \in {"ok", "error"}
    PROVE  LET x == ResponseEvent(t, n, p, a)
           IN  x \in Event /\ x.type = "response" /\ x.call = p /\ x.answer = a /\ x.seq = n
  BY DEF ResponseEvent, Event

LEMMA EndpointFields ==
    ASSUME NEW t \in Nat, NEW n \in Nat, NEW p \in Calls, NEW g \in Nat
    PROVE  LET x == EndpointEvent(t, n, p, g)
           IN  x \in Event /\ x.type = "endpoint" /\ x.call = p /\ x.generation = g /\ x.seq = n
  BY DEF EndpointEvent, Event

LEMMA FateOfLeg == ASSUME NEW p \in Calls, NEW d \in Decisions(p) PROVE d.delay \in Nat /\ d.dropped \in BOOLEAN
  BY PolicyAssumption DEF Decisions

-----------------------------------------------------------------------------
(* The parts of a handler                                                   *)

\* A part that leaves the flights, calls and handlers, and cancels or takes
\* events that nothing relies on.
LEMMA TakeBooks ==
    ASSUME NEW F, NEW C, NEW A, NEW H, NEW E, NEW n, Books(F, C, A, H, E, n),
           NEW e \in E, e.type \notin {"deadline", "wake"}
    PROVE  Books(F, C, A, H, E \ {e}, n)
  <1> DEFINE E1 == E \ {e}
  <1>1. E1 \subseteq E /\ \A f \in E : f.type \in {"deadline", "wake"} => f \in E1
    OBVIOUS
  <1> HIDE DEF E1
  <1>2. Typed(F, C, A, H, E1, n)
    BY <1>1 DEF Books, Typed
  <1>3. DeadlinesKept(F, C, E1)
    BY <1>1 DEF Books, DeadlinesKept
  <1>4. MadeOnce(F, C, E1)
    BY <1>1 DEF Books, MadeOnce
  <1>5. AnswersKept(F, A, E1, n)
    BY <1>1 DEF Books, AnswersKept
  <1>6. OneToken(F, C, H, E1)
    BY <1>1 DEF Books, OneToken
  <1>7. ServedByOne(F, C, H, E1)
    BY <1>1 DEF Books, ServedByOne
  <1>8. WakesKept(H, E1)
    BY <1>1 DEF Books, WakesKept
  <1> QED
    BY <1>2, <1>3, <1>4, <1>5, <1>6, <1>7, <1>8 DEF Books, E1

\* Nothing is on its way for request u: it may be answered.
Free(u, C, H, E) ==
    /\ \A e \in E : Inbound(e) => e.call # u
    /\ \A h \in H : h.call # u
    /\ \A p \in Calls : C[p] = "waiting" => u \notin Upstream[p]

Unanswered(u, F) == F[u].state \notin {"NONE", "SENT"} /\ ~F[u].replied

\* F1 is F with request u answered.
Answered(F1, F, u) ==
    /\ F1 \in [Calls -> Flight]
    /\ \A p \in Calls \ {u} : F1[p] = F[p]
    /\ F1[u].replied /\ F1[u].settled = F[u].settled /\ F1[u].deadline = F[u].deadline
    /\ F1[u].state \notin {"NONE", "SENT"}

\* An answer is recorded, and its response scheduled or lost.
LEMMA ReplyBooks ==
    ASSUME NEW F, NEW C, NEW A, NEW H, NEW E, NEW n, Books(F, C, A, H, E, n),
           NEW u \in Calls, NEW a \in {"ok", "error"}, NEW t \in Nat,
           Free(u, C, H, E), Unanswered(u, F),
           NEW F1, Answered(F1, F, u),
           NEW E1, NEW n1, (E1 = E /\ n1 = n) \/ (E1 = E \cup {ResponseEvent(t, n, u, a)} /\ n1 = n + 1)
    PROVE  Books(F1, C, [A EXCEPT ![u] = a], H, E1, n1)
  <1> DEFINE A1 == [A EXCEPT ![u] = a]
             x == ResponseEvent(t, n, u, a)
  <1>0. /\ Typed(F, C, A, H, E, n) /\ DeadlinesKept(F, C, E) /\ MadeOnce(F, C, E) /\ AnswersKept(F, A, E, n)
        /\ OneToken(F, C, H, E) /\ ServedByOne(F, C, H, E) /\ WakesKept(H, E) /\ n \in Nat
    BY DEF Books, Typed
  <1>1. x \in Event /\ x.type = "response" /\ x.call = u /\ x.answer = a /\ x.seq = n
    BY <1>0, ResponseFields
  <1>2. E \subseteq E1 /\ (\A e \in E1 : e \in E \/ e = x) /\ n1 \in Nat /\ n <= n1 /\ (x \in E1 => x \in E \/ n1 = n + 1)
    BY <1>0
  <1>3. A1 \in [Calls -> {"none", "ok", "error"}] /\ A1[u] = a /\ \A p \in Calls \ {u} : A1[p] = A[p]
    BY <1>0 DEF Typed
  <1>4. \A e \in E1 : e.call = u /\ e.type = "response" => e = x
    BY <1>0, <1>2 DEF AnswersKept, Unanswered
  <1>5. \A e \in E : e \in Event
    BY <1>0 DEF Typed
  <1> HIDE DEF A1, x
  <1>6. Typed(F1, C, A1, H, E1, n1)
    BY <1>0, <1>1, <1>2, <1>3 DEF Typed, Answered
  <1>7. DeadlinesKept(F1, C, E1)
    <2>1. \A p \in Calls : /\ F1[p].state = "NONE" <=> F[p].state = "NONE"
                           /\ F1[p].settled = F[p].settled /\ F1[p].deadline = F[p].deadline
      BY DEF Answered, Unanswered
    <2>2. \A e \in E1 : e.type = "deadline" => e \in E /\ e.call \in Calls
      BY <1>1, <1>2, <1>5, EventFields DEF CallTypes
    <2> QED
      BY <1>0, <1>2, <2>1, <2>2 DEF DeadlinesKept
  <1>8. MadeOnce(F1, C, E1)
    BY <1>0, <1>1, <1>2 DEF MadeOnce, Answered, Unanswered
  <1>9. AnswersKept(F1, A1, E1, n1)
    <2>1. \A e \in E : e.seq < n /\ e.seq \in Nat
      BY <1>0, <1>5, EventFields DEF AnswersKept
    <2>2. \A p \in Calls : (F1[p].replied <=> A1[p] # "none") /\ (F1[p].replied => F1[p].state # "NONE")
      BY <1>0, <1>3 DEF AnswersKept, Answered, Unanswered
    <2>3. ASSUME NEW e \in E1, e.type = "response" PROVE F1[e.call].replied /\ A1[e.call] = e.answer
      <3>1. CASE e = x
        BY <1>1, <1>3, <3>1 DEF Answered
      <3>2. CASE e # x
        <4>1. e \in E /\ F[e.call].replied /\ A[e.call] = e.answer /\ e.call \in Calls
          BY <1>0, <1>2, <1>5, <2>3, <3>2, EventFields DEF AnswersKept, CallTypes
        <4>2. e.call # u
          BY <4>1 DEF Unanswered
        <4> QED
          BY <1>3, <4>1, <4>2 DEF Answered
      <3> QED
        BY <3>1, <3>2
    <2>4. \A d, e \in E1 : d.type = "deadline" /\ e.type = "response" /\ d.call = e.call => d.seq < e.seq
      BY <1>0, <1>1, <1>2, <2>1 DEF AnswersKept
    <2>5. \A e \in E1 : e.seq < n1
      BY <1>0, <1>1, <1>2, <2>1
    <2> QED
      BY <2>2, <2>3, <2>4, <2>5 DEF AnswersKept
  <1>10. OneToken(F1, C, H, E1)
    BY <1>0, <1>1, <1>2, <1>5, EventFields DEF OneToken, Free, Answered, Inbound, Typed, Handler, CallTypes
  <1>11. ServedByOne(F1, C, H, E1)
    BY <1>0, <1>1, <1>2, CallsAssumption DEF ServedByOne, Free, Answered, Inbound, Unanswered
  <1>12. WakesKept(H, E1)
    BY <1>0, <1>1, <1>2 DEF WakesKept
  <1> QED
    BY <1>6, <1>7, <1>8, <1>9, <1>10, <1>11, <1>12 DEF Books, A1

\* Call q may be made: it was not, and its task is at work on the request it
\* serves.
MayCall(q, F, C, H, E) ==
    /\ C[q] = "idle"
    /\ \A e \in E : e.type = "start" => e.call # q
    /\ \A p \in Calls : q \in Retry[p] => C[p] = "timeout"
    /\ \A u \in Upstream[q] : Free(u, C, H, E) /\ Unanswered(u, F)

\* F1 and C1 are F and C with call q made, to be settled by t.
Called(F1, C1, F, C, q, t) ==
    /\ F1 \in [Calls -> Flight] /\ C1 \in [Calls -> CallStatus]
    /\ \A p \in Calls \ {q} : F1[p] = F[p] /\ C1[p] = C[p]
    /\ F1[q].state = "SENT" /\ ~F1[q].replied /\ ~F1[q].settled /\ F1[q].deadline = t
    /\ C1[q] = "waiting"

\* A request sets its deadline before its delivery, if it is not lost.
LEMMA RequestBooks ==
    ASSUME NEW F, NEW C, NEW A, NEW H, NEW E, NEW n, Books(F, C, A, H, E, n),
           NEW q \in Calls, NEW t \in Nat, NEW due \in Nat, MayCall(q, F, C, H, E),
           NEW F1, NEW C1, Called(F1, C1, F, C, q, t),
           NEW E1, NEW n1,
           \/ E1 = E \cup {DeadlineEvent(t, n, q)} /\ n1 = n + 1
           \/ E1 = E \cup {DeadlineEvent(t, n, q)} \cup {DeliveryEvent(due, n + 1, q)} /\ n1 = n + 2
    PROVE  Books(F1, C1, A, H, E1, n1)
  <1> DEFINE x == DeadlineEvent(t, n, q)
             y == DeliveryEvent(due, n + 1, q)
  <1>0. /\ Typed(F, C, A, H, E, n) /\ DeadlinesKept(F, C, E) /\ MadeOnce(F, C, E) /\ AnswersKept(F, A, E, n)
        /\ OneToken(F, C, H, E) /\ ServedByOne(F, C, H, E) /\ WakesKept(H, E) /\ n \in Nat
    BY DEF Books, Typed
  <1>1. x \in Event /\ x.type = "deadline" /\ x.call = q /\ x.seq = n /\ x.time = t
    BY <1>0, DeadlineFields
  <1>2. y \in Event /\ y.type = "delivery" /\ y.call = q /\ y.seq = n + 1
    BY <1>0, DeliveryFields
  <1>3. /\ E \subseteq E1 /\ x \in E1 /\ \A e \in E1 : e \in E \/ e = x \/ e = y
        /\ n1 \in Nat /\ n < n1 /\ (y \in E1 => y \in E \/ y = x \/ n1 = n + 2)
    <2>1. (E1 = E \cup {x} /\ n1 = n + 1) \/ (E1 = E \cup {x} \cup {y} /\ n1 = n + 2)
      OBVIOUS
    <2> HIDE DEF x, y
    <2>2. E \subseteq E1 /\ x \in E1 /\ \A e \in E1 : e \in E \/ e = x \/ e = y
      BY <2>1
    <2>3. n1 \in Nat /\ n < n1 /\ (y \in E1 => y \in E \/ y = x \/ n1 = n + 2)
      BY <1>0, <2>1
    <2> QED
      BY <2>2, <2>3
  <1>4. \A e \in E : e \in Event
    BY <1>0 DEF Typed
  <1> HIDE DEF x, y
  <1>5. F[q].state = "NONE" /\ C[q] = "idle"
    BY <1>0 DEF MadeOnce, MayCall
  <1>6. \A p \in Calls : q \in Upstream[p] => C1[p] = "idle" /\ p # q
    BY <1>0, <1>5 DEF ServedByOne, MayCall, Called, Unanswered
  <1>7. ASSUME NEW e \in E, e.type \in {"deadline", "delivery", "endpoint", "response", "start"} PROVE e.call \in Calls \ {q}
    <2>1. e.call \in Calls
      BY <1>4, <1>7, EventFields DEF CallTypes
    <2>2. e.call # q
      BY <1>0, <1>5, <1>7 DEF DeadlinesKept, OneToken, AnswersKept, MayCall
    <2> QED
      BY <2>1, <2>2
  <1>8. \A h \in H : h.call \in Calls \ {q}
    BY <1>0, <1>5 DEF OneToken, Typed, Handler
  <1>9. Typed(F1, C1, A, H, E1, n1)
    BY <1>0, <1>1, <1>2, <1>3 DEF Typed, Called
  <1>10. DeadlinesKept(F1, C1, E1)
    <2>1. ASSUME NEW e \in E1, e.type = "deadline"
          PROVE  F1[e.call].state # "NONE" /\ ~F1[e.call].settled /\ e.time = F1[e.call].deadline
      BY <1>0, <1>1, <1>2, <1>3, <1>7, <2>1 DEF DeadlinesKept, Called
    <2>2. \A p \in Calls : F1[p].state # "NONE" /\ ~F1[p].settled => \E e \in E1 : e.type = "deadline" /\ e.call = p
      BY <1>0, <1>1, <1>3 DEF DeadlinesKept, Called
    <2>3. \A e, f \in E1 : e.type = "deadline" /\ f.type = "deadline" /\ e.call = f.call => e = f
      BY <1>0, <1>1, <1>2, <1>3, <1>7 DEF DeadlinesKept
    <2>4. \A p \in Calls : C1[p] = "waiting" => ~F1[p].settled
      BY <1>0 DEF DeadlinesKept, Called
    <2> QED
      BY <2>1, <2>2, <2>3, <2>4 DEF DeadlinesKept
  <1>11. MadeOnce(F1, C1, E1)
    <2>1. \A p \in Calls : F1[p].state = "NONE" <=> C1[p] \in {"idle", "skipped"}
      BY <1>0 DEF MadeOnce, Called
    <2>2. \A p \in Calls : \A r \in Retry[p] : C1[r] # "idle" => C1[p] = "timeout"
      BY <1>0, <1>5, CallsAssumption DEF MadeOnce, Called, MayCall
    <2>3. \A e \in E1 : e.type = "start" => e \in E
      BY <1>1, <1>2, <1>3
    <2> QED
      BY <1>0, <1>7, <2>1, <2>2, <2>3 DEF MadeOnce, Called
  <1>12. AnswersKept(F1, A, E1, n1)
    <2>1. \A p \in Calls : (F1[p].replied <=> A[p] # "none") /\ (F1[p].replied => F1[p].state # "NONE")
      BY <1>0, <1>5 DEF AnswersKept, Called
    <2>2. \A e \in E1 : e.type = "response" => e \in E /\ F1[e.call].replied /\ A[e.call] = e.answer
      BY <1>0, <1>1, <1>2, <1>3, <1>7 DEF AnswersKept, Called
    <2>3. \A d, e \in E1 : d.type = "deadline" /\ e.type = "response" /\ d.call = e.call => d.seq < e.seq
      BY <1>0, <1>1, <1>2, <1>3, <1>7, <2>2 DEF AnswersKept
    <2>4. \A e \in E : e.seq < n /\ e.seq \in Nat
      BY <1>0, <1>4, EventFields DEF AnswersKept
    <2>5. \A e \in E1 : e.seq < n1
      BY <1>0, <1>1, <1>2, <1>3, <2>4
    <2> QED
      BY <2>1, <2>2, <2>3, <2>5 DEF AnswersKept
  <1>13. OneToken(F1, C1, H, E1)
    <2>1. \A e \in E1 : Inbound(e) => e = y \/ (e \in E /\ e.call \in Calls \ {q})
      BY <1>1, <1>3, <1>7 DEF Inbound
    <2>2. \A e, f \in E1 : Inbound(e) /\ Inbound(f) /\ e.call = f.call => e = f
      BY <1>0, <1>2, <2>1 DEF OneToken
    <2>3. \A e \in E1, h \in H : Inbound(e) => e.call # h.call
      BY <1>0, <1>2, <1>8, <2>1 DEF OneToken
    <2>4. \A e \in E1 : e.type = "delivery" => F1[e.call].state # "NONE" /\ ~F1[e.call].replied
      BY <1>0, <1>2, <2>1 DEF OneToken, Called, Inbound
    <2>5. \A e \in E1 : e.type = "endpoint" => F1[e.call].state \notin {"NONE", "SENT"} /\ ~F1[e.call].replied
      BY <1>0, <1>2, <2>1 DEF OneToken, Called, Inbound
    <2>6. \A h \in H : F1[h.call].state \notin {"NONE", "SENT"} /\ ~F1[h.call].replied
      BY <1>0, <1>8 DEF OneToken, Called
    <2> QED
      BY <1>0, <2>2, <2>3, <2>4, <2>5, <2>6 DEF OneToken
  <1>14. ServedByOne(F1, C1, H, E1)
    <2>1. \A e \in E1 : Inbound(e) => e = y \/ e \in E
      BY <1>1, <1>3 DEF Inbound
    <2>2. ASSUME NEW p \in Calls, C1[p] # "idle", NEW u \in Upstream[p]
          PROVE  /\ F1[u].state \notin {"NONE", "SENT"}
                 /\ \A e \in E1 : Inbound(e) => e.call # u
                 /\ \A h \in H : h.call # u
                 /\ C1[p] = "waiting" => ~F1[u].replied
      <3>1. u # q /\ u \in Calls
        BY <1>6, <2>2, CallsAssumption
      <3>2. CASE p = q
        BY <1>2, <2>1, <2>2, <3>1, <3>2 DEF MayCall, Free, Unanswered, Called
      <3>3. CASE p # q
        BY <1>0, <1>2, <2>1, <2>2, <3>1, <3>3 DEF ServedByOne, Called
      <3> QED
        BY <3>2, <3>3
    <2>3. ASSUME NEW p \in Calls, NEW r \in Calls, C1[p] = "waiting", C1[r] = "waiting", Upstream[p] \cap Upstream[r] # {}
          PROVE  p = r
      <3>1. PICK u \in Upstream[p] \cap Upstream[r] : TRUE
        BY <2>3
      <3>2. \A s \in Calls \ {q} : C1[s] = "waiting" => C[s] = "waiting"
        BY DEF Called
      <3>3. p = q => r = q
        BY <2>3, <3>1, <3>2 DEF MayCall, Free
      <3>4. r = q => p = q
        BY <2>3, <3>1, <3>2 DEF MayCall, Free
      <3>5. p # q /\ r # q => p = r
        BY <1>0, <2>3, <3>2 DEF ServedByOne
      <3> QED
        BY <3>3, <3>4, <3>5
    <2> QED
      BY <2>2, <2>3 DEF ServedByOne
  <1>15. WakesKept(H, E1)
    BY <1>0, <1>1, <1>2, <1>3 DEF WakesKept
  <1> QED
    BY <1>9, <1>10, <1>11, <1>12, <1>13, <1>14, <1>15 DEF Books

\* F1 is F with the flight of p settled.
Settled(F1, F, p) ==
    /\ F1 \in [Calls -> Flight]
    /\ \A q \in Calls \ {p} : F1[q] = F[q]
    /\ F1[p].settled /\ F1[p].replied = F[p].replied /\ F1[p].state # "NONE"
    /\ F[p].state # "SENT" => F1[p].state # "SENT"

\* C1 is C with outcome o for p, if its task still waits.
Outcome(C1, C, p, o) == \/ C[p] = "waiting" /\ C1 = [C EXCEPT ![p] = o]
                        \/ C[p] # "waiting" /\ C1 = C

\* E1 is E without the deadline of p, and perhaps a response to it.
Cancels(E1, E, p) ==
    /\ E1 \subseteq E
    /\ \A f \in E1 : f.type = "deadline" => f.call # p
    /\ \A f \in E \ E1 : f.type \in {"deadline", "response"} /\ f.call = p

\* A flight is settled with its response or at its deadline.
LEMMA SettleBooks ==
    ASSUME NEW F, NEW C, NEW A, NEW H, NEW E, NEW n, Books(F, C, A, H, E, n),
           NEW p \in Calls, NEW o \in {"ok", "error", "timeout"}, F[p].state # "NONE",
           NEW F1, Settled(F1, F, p), NEW C1, Outcome(C1, C, p, o), NEW E1, Cancels(E1, E, p)
    PROVE  Books(F1, C1, A, H, E1, n)
  <1>0. /\ Typed(F, C, A, H, E, n) /\ DeadlinesKept(F, C, E) /\ MadeOnce(F, C, E) /\ AnswersKept(F, A, E, n)
        /\ OneToken(F, C, H, E) /\ ServedByOne(F, C, H, E) /\ WakesKept(H, E)
    BY DEF Books
  <1>1. C1 \in [Calls -> CallStatus] /\ (\A q \in Calls \ {p} : C1[q] = C[q]) /\ C1[p] # "waiting"
        /\ C1[p] \notin {"idle", "skipped"} /\ (C[p] # "waiting" => C1[p] = C[p]) /\ C[p] \notin {"idle", "skipped"}
    BY <1>0 DEF Typed, MadeOnce, Outcome, CallStatus
  <1>2. \A q \in Calls : C1[q] = "waiting" => C[q] = "waiting" /\ q # p
    BY <1>1
  <1>3. \A q \in Calls : /\ F1[q].state = "NONE" <=> F[q].state = "NONE"
                         /\ F1[q].replied = F[q].replied
                         /\ F[q].state \notin {"NONE", "SENT"} => F1[q].state \notin {"NONE", "SENT"}
    BY <1>0, <1>1 DEF Settled, MadeOnce
  <1>4. \A e \in E : e.type \in CallTypes => e.call \in Calls
    BY <1>0, EventFields DEF Typed
  <1>5. \A h \in H : h.call \in Calls
    BY <1>0 DEF Typed, Handler
  <1>6. \A e \in E1 : e \in E
    BY DEF Cancels
  <1>7. Typed(F1, C1, A, H, E1, n)
    BY <1>0, <1>1, <1>6 DEF Typed, Settled
  <1>8. DeadlinesKept(F1, C1, E1)
    <2>1. ASSUME NEW e \in E1, e.type = "deadline"
          PROVE  F1[e.call].state # "NONE" /\ ~F1[e.call].settled /\ e.time = F1[e.call].deadline
      <3>1. e \in E /\ e.call \in Calls \ {p}
        BY <1>4, <1>6, <2>1 DEF Cancels, CallTypes
      <3> QED
        BY <1>0, <2>1, <3>1 DEF DeadlinesKept, Settled
    <2>2. ASSUME NEW q \in Calls, F1[q].state # "NONE", ~F1[q].settled PROVE \E e \in E1 : e.type = "deadline" /\ e.call = q
      <3>1. q # p /\ F[q].state # "NONE" /\ ~F[q].settled
        BY <2>2 DEF Settled
      <3> QED
        BY <1>0, <3>1 DEF DeadlinesKept, Cancels
    <2>3. \A q \in Calls : C1[q] = "waiting" => ~F1[q].settled
      BY <1>0, <1>2 DEF DeadlinesKept, Settled
    <2> QED
      BY <1>0, <1>6, <2>1, <2>2, <2>3 DEF DeadlinesKept
  <1>9. MadeOnce(F1, C1, E1)
    <2>1. \A q \in Calls : C1[q] \in {"idle", "skipped"} <=> C[q] \in {"idle", "skipped"}
      BY <1>1
    <2>2. \A q \in Calls : C1[q] = "idle" <=> C[q] = "idle"
      BY <1>1
    <2>3. ASSUME NEW q \in Calls, NEW r \in Retry[q], C1[r] # "idle" PROVE C1[q] = "timeout"
      <3>1. r \in Calls /\ C[q] = "timeout"
        BY <1>0, <2>2, <2>3, CallsAssumption DEF MadeOnce
      <3> QED
        BY <1>1, <3>1
    <2> QED
      BY <1>0, <1>3, <1>4, <1>6, <2>1, <2>2, <2>3 DEF MadeOnce, CallTypes
  <1>10. AnswersKept(F1, A, E1, n)
    BY <1>0, <1>3, <1>4, <1>6 DEF AnswersKept, CallTypes
  <1>11. OneToken(F1, C1, H, E1)
    BY <1>0, <1>3, <1>4, <1>5, <1>6 DEF OneToken, CallTypes
  <1>12. ServedByOne(F1, C1, H, E1)
    <2>1. \A q \in Calls : C1[q] # "idle" => C[q] # "idle"
      BY <1>1
    <2>2. \A q \in Calls : \A u \in Upstream[q] : u \in Calls
      BY CallsAssumption
    <2> QED
      BY <1>0, <1>2, <1>3, <1>6, <2>1, <2>2 DEF ServedByOne
  <1>13. WakesKept(H, E1)
    <2>1. \A e \in E : e.type = "wake" => e \in E1
      BY DEF Cancels
    <2> QED
      BY <1>0, <1>6, <2>1 DEF WakesKept
  <1> QED
    BY <1>7, <1>8, <1>9, <1>10, <1>11, <1>12, <1>13 DEF Books

\* Then the request its task serves may be answered, or the call retried.
LEMMA SettledFrees ==
    ASSUME NEW F, NEW C, NEW A, NEW H, NEW E, NEW n, Books(F, C, A, H, E, n),
           NEW p \in Calls, NEW o \in {"ok", "error", "timeout"}, C[p] = "waiting",
           NEW F1, Settled(F1, F, p), NEW C1, Outcome(C1, C, p, o), NEW E1, Cancels(E1, E, p)
    PROVE  /\ \A u \in Upstream[p] : u \in Calls /\ Free(u, C1, H, E1) /\ Unanswered(u, F1)
           /\ o = "timeout" => \A q \in Retry[p] : q \in Calls /\ MayCall(q, F1, C1, H, E1)
  <1>0. Typed(F, C, A, H, E, n) /\ MadeOnce(F, C, E) /\ ServedByOne(F, C, H, E)
    BY DEF Books
  <1>1. (\A q \in Calls \ {p} : C1[q] = C[q]) /\ C1[p] = o
    BY <1>0 DEF Outcome, Typed
  <1>2. ASSUME NEW u \in Upstream[p] PROVE u \in Calls /\ Free(u, C1, H, E1) /\ Unanswered(u, F1)
    <2>1. u \in Calls /\ Unanswered(u, F)
      BY <1>0, CallsAssumption DEF ServedByOne, Unanswered
    <2>2. Unanswered(u, F1)
      BY <2>1 DEF Unanswered, Settled
    <2>3. \A q \in Calls : C1[q] = "waiting" => u \notin Upstream[q]
      <3> SUFFICES ASSUME NEW q \in Calls, C1[q] = "waiting", u \in Upstream[q] PROVE FALSE
        OBVIOUS
      <3>1. q # p /\ C[q] = "waiting"
        BY <1>1
      <3>2. Upstream[p] \cap Upstream[q] # {}
        OBVIOUS
      <3> QED
        BY <1>0, <3>1, <3>2 DEF ServedByOne
    <2>4. (\A e \in E1 : Inbound(e) => e.call # u) /\ \A h \in H : h.call # u
      BY <1>0 DEF ServedByOne, Cancels
    <2> QED
      BY <2>1, <2>2, <2>3, <2>4 DEF Free
  <1>3. ASSUME o = "timeout", NEW q \in Retry[p] PROVE q \in Calls /\ MayCall(q, F1, C1, H, E1)
    <2>1. q \in Calls /\ Upstream[q] = Upstream[p] /\ q \notin FirstCalls
      BY CallsAssumption DEF FirstCalls
    <2>2. C[q] = "idle" /\ q # p /\ C1[q] = "idle"
      BY <1>0, <1>1, <2>1 DEF MadeOnce
    <2>3. \A e \in E1 : e.type = "start" => e.call # q
      BY <1>0, <2>1 DEF MadeOnce, Cancels
    <2>4. \A r \in Calls : q \in Retry[r] => r = p
      BY CallsAssumption
    <2> QED
      BY <1>1, <1>2, <1>3, <2>1, <2>2, <2>3, <2>4 DEF MayCall
  <1> QED
    BY <1>2, <1>3

\* The task that a start makes is the first of its call.
LEMMA StartMayCall ==
    ASSUME NEW F, NEW C, NEW A, NEW H, NEW E, NEW n, Books(F, C, A, H, E, n), NEW e \in E, e.type = "start"
    PROVE  e.call \in Calls /\ MayCall(e.call, F, C, H, E \ {e}) /\ Upstream[e.call] = {}
  <1>1. e.call \in FirstCalls /\ Upstream[e.call] = {} /\ C[e.call] = "idle"
    BY DEF Books, MadeOnce
  <1>2. \A f \in E \ {e} : f.type = "start" => f.call # e.call
    BY DEF Books, MadeOnce
  <1> QED
    BY <1>1, <1>2 DEF MayCall, FirstCalls

\* A client that is not ready skips its call.
LEMMA SkipBooks ==
    ASSUME NEW F, NEW C, NEW A, NEW H, NEW E, NEW n, Books(F, C, A, H, E, n),
           NEW p \in Calls, MayCall(p, F, C, H, E), Upstream[p] = {}
    PROVE  Books(F, [C EXCEPT ![p] = "skipped"], A, H, E, n)
  <1> DEFINE C1 == [C EXCEPT ![p] = "skipped"]
  <1>0. /\ Typed(F, C, A, H, E, n) /\ DeadlinesKept(F, C, E) /\ MadeOnce(F, C, E) /\ AnswersKept(F, A, E, n)
        /\ OneToken(F, C, H, E) /\ ServedByOne(F, C, H, E) /\ WakesKept(H, E)
    BY DEF Books
  <1>1. C1 \in [Calls -> CallStatus] /\ (\A q \in Calls \ {p} : C1[q] = C[q]) /\ C1[p] = "skipped" /\ C[p] = "idle"
    BY <1>0 DEF Typed, CallStatus, MayCall
  <1> HIDE DEF C1
  <1>2. Typed(F, C1, A, H, E, n)
    BY <1>0, <1>1 DEF Typed
  <1>3. DeadlinesKept(F, C1, E)
    BY <1>0, <1>1 DEF DeadlinesKept
  <1>4. MadeOnce(F, C1, E)
    <2>1. ASSUME NEW q \in Calls, NEW r \in Retry[q], C1[r] # "idle" PROVE C1[q] = "timeout"
      <3>1. r \in Calls
        BY CallsAssumption
      <3>2. C[q] = "timeout"
        BY <1>0, <1>1, <2>1, <3>1 DEF MadeOnce, MayCall
      <3> QED
        BY <1>1, <3>2
    <2>2. \A q \in Calls : C1[q] \in {"idle", "skipped"} <=> C[q] \in {"idle", "skipped"}
      BY <1>1
    <2>3. \A e \in E : e.type = "start" => e.call \in Calls \ {p}
      BY <1>0, EventFields DEF MayCall, Typed, CallTypes
    <2> QED
      BY <1>0, <1>1, <2>1, <2>2, <2>3 DEF MadeOnce
  <1>5. OneToken(F, C1, H, E)
    BY <1>0 DEF OneToken
  <1>6. ServedByOne(F, C1, H, E)
    <2>1. \A q \in Calls : \A u \in Upstream[q] : C1[q] = C[q]
      BY <1>1
    <2>2. \A q \in Calls : C1[q] = "waiting" => C[q] = "waiting"
      BY <1>1
    <2> QED
      BY <1>0, <2>1, <2>2 DEF ServedByOne
  <1> QED
    BY <1>0, <1>2, <1>3, <1>4, <1>5, <1>6 DEF Books, C1

\* Once its event is taken the request is in the hands of the handler.
LEMMA InboundFrees ==
    ASSUME NEW F, NEW C, NEW A, NEW H, NEW E, NEW n, Books(F, C, A, H, E, n), NEW e \in E, Inbound(e)
    PROVE  e.call \in Calls /\ Free(e.call, C, H, E \ {e}) /\ ~F[e.call].replied /\ F[e.call].state # "NONE"
  <1>1. e.call \in Calls
    BY EventFields DEF Books, Typed, Inbound, CallTypes
  <1>2. \A f \in E \ {e} : Inbound(f) => f.call # e.call
    BY DEF Books, OneToken
  <1>3. \A h \in H : h.call # e.call
    BY DEF Books, OneToken
  <1>4. \A p \in Calls : C[p] = "waiting" => e.call \notin Upstream[p]
    BY DEF Books, ServedByOne
  <1>5. ~F[e.call].replied /\ F[e.call].state # "NONE"
    BY DEF Books, OneToken, Inbound
  <1> QED
    BY <1>1, <1>2, <1>3, <1>4, <1>5 DEF Free

\* The call its handler makes for a request was not made before.
LEMMA DownstreamMayCall ==
    ASSUME NEW F, NEW C, NEW A, NEW H, NEW E, NEW n, Books(F, C, A, H, E, n), NEW e \in E, e.type = "endpoint",
           NEW q \in Downstream(e.call)
    PROVE  q \in Calls /\ MayCall(q, F, C, H, E \ {e})
  <1>1. q \in FirstCalls /\ e.call \in Upstream[q] /\ q \in Calls
    BY DEF Downstream, FirstCalls
  <1>2. \A u \in Upstream[q] : u = e.call
    BY <1>1, CallsAssumption
  <1>3. C[q] = "idle"
    BY <1>1 DEF Books, ServedByOne, Inbound
  <1>4. Free(e.call, C, H, E \ {e})
    BY InboundFrees DEF Inbound
  <1>5. Unanswered(e.call, F)
    BY DEF Books, OneToken, Unanswered
  <1>6. \A f \in E : f.type = "start" => f.call # q
    BY <1>1 DEF Books, MadeOnce
  <1> QED
    BY <1>1, <1>2, <1>3, <1>4, <1>5, <1>6 DEF MayCall, FirstCalls

\* A request that is delivered may be answered.
LEMMA AdmitBooks ==
    ASSUME NEW F, NEW C, NEW A, NEW H, NEW E, NEW n, Books(F, C, A, H, E, n),
           NEW p \in Calls, F[p].state # "NONE"
    PROVE  Books([F EXCEPT ![p].state = "ADMITTED"], C, A, H, E, n)
  <1> DEFINE F1 == [F EXCEPT ![p].state = "ADMITTED"]
  <1>0. /\ Typed(F, C, A, H, E, n) /\ DeadlinesKept(F, C, E) /\ MadeOnce(F, C, E) /\ AnswersKept(F, A, E, n)
        /\ OneToken(F, C, H, E) /\ ServedByOne(F, C, H, E) /\ WakesKept(H, E)
    BY DEF Books
  <1>1. F1 \in [Calls -> Flight]
    BY <1>0 DEF Typed, Flight
  <1>2. \A q \in Calls : /\ F1[q].state = "NONE" <=> F[q].state = "NONE"
                         /\ F[q].state \notin {"NONE", "SENT"} => F1[q].state \notin {"NONE", "SENT"}
                         /\ F1[q].replied = F[q].replied /\ F1[q].settled = F[q].settled
                         /\ F1[q].deadline = F[q].deadline
    BY <1>0 DEF Typed, Flight
  <1>3. \A e \in E : e.type \in CallTypes => e.call \in Calls
    BY <1>0, EventFields DEF Typed
  <1>4. \A h \in H : h.call \in Calls
    BY <1>0 DEF Typed, Handler
  <1> HIDE DEF F1
  <1>5. Typed(F1, C, A, H, E, n)
    BY <1>0, <1>1 DEF Typed
  <1>6. DeadlinesKept(F1, C, E)
    BY <1>0, <1>2, <1>3 DEF DeadlinesKept, CallTypes
  <1>7. MadeOnce(F1, C, E)
    BY <1>0, <1>2 DEF MadeOnce
  <1>8. AnswersKept(F1, A, E, n)
    BY <1>0, <1>2, <1>3 DEF AnswersKept, CallTypes
  <1>9. OneToken(F1, C, H, E)
    BY <1>0, <1>2, <1>3, <1>4 DEF OneToken, CallTypes
  <1>10. ServedByOne(F1, C, H, E)
    <2>1. \A q \in Calls : \A u \in Upstream[q] : u \in Calls
      BY CallsAssumption
    <2> QED
      BY <1>0, <1>2, <2>1 DEF ServedByOne
  <1> QED
    BY <1>0, <1>5, <1>6, <1>7, <1>8, <1>9, <1>10 DEF Books, F1

\* It becomes an event of the target.
LEMMA EndpointBooks ==
    ASSUME NEW F, NEW C, NEW A, NEW H, NEW E, NEW n, Books(F, C, A, H, E, n),
           NEW p \in Calls, Free(p, C, H, E), Unanswered(p, F), NEW t \in Nat, NEW g \in Nat,
           \A q \in Calls : C[q] # "idle" => p \notin Upstream[q]
    PROVE  Books(F, C, A, H, E \cup {EndpointEvent(t, n, p, g)}, n + 1)
  <1> DEFINE x == EndpointEvent(t, n, p, g)
             E1 == E \cup {x}
  <1>0. /\ Typed(F, C, A, H, E, n) /\ DeadlinesKept(F, C, E) /\ MadeOnce(F, C, E) /\ AnswersKept(F, A, E, n)
        /\ OneToken(F, C, H, E) /\ ServedByOne(F, C, H, E) /\ WakesKept(H, E) /\ n \in Nat
    BY DEF Books, Typed
  <1>1. x \in Event /\ x.type = "endpoint" /\ x.call = p /\ x.seq = n
    BY <1>0, EndpointFields
  <1>2. E \subseteq E1 /\ x \in E1 /\ \A e \in E1 : e \in E \/ e = x
    OBVIOUS
  <1> HIDE DEF x, E1
  <1>3. Typed(F, C, A, H, E1, n + 1)
    BY <1>0, <1>1, <1>2 DEF Typed
  <1>4. DeadlinesKept(F, C, E1)
    BY <1>0, <1>1, <1>2 DEF DeadlinesKept
  <1>5. MadeOnce(F, C, E1)
    BY <1>0, <1>1, <1>2 DEF MadeOnce
  <1>6. AnswersKept(F, A, E1, n + 1)
    <2>1. \A e \in E : e.seq < n /\ e.seq \in Nat
      BY <1>0, EventFields DEF AnswersKept, Typed
    <2> QED
      BY <1>0, <1>1, <1>2, <2>1 DEF AnswersKept
  <1>7. OneToken(F, C, H, E1)
    BY <1>0, <1>1, <1>2 DEF OneToken, Free, Unanswered, Inbound
  <1>8. ServedByOne(F, C, H, E1)
    BY <1>0, <1>1, <1>2 DEF ServedByOne, Inbound
  <1>9. WakesKept(H, E1)
    BY <1>0, <1>1, <1>2 DEF WakesKept
  <1> QED
    BY <1>3, <1>4, <1>5, <1>6, <1>7, <1>8, <1>9 DEF Books, E1, x

\* The handler of a request goes to sleep.
LEMMA SleepBooks ==
    ASSUME NEW F, NEW C, NEW A, NEW H, NEW E, NEW n, Books(F, C, A, H, E, n),
           NEW p \in Calls, Free(p, C, H, E), Unanswered(p, F), NEW t \in Nat, NEW h \in Handler, h.call = p,
           \A q \in Calls : C[q] # "idle" => p \notin Upstream[q]
    PROVE  Books(F, C, A, H \cup {h}, E \cup {WakeEvent(t, n, p)}, n + 1)
  <1> DEFINE x == WakeEvent(t, n, p)
             E1 == E \cup {x}
             H1 == H \cup {h}
  <1>0. /\ Typed(F, C, A, H, E, n) /\ DeadlinesKept(F, C, E) /\ MadeOnce(F, C, E) /\ AnswersKept(F, A, E, n)
        /\ OneToken(F, C, H, E) /\ ServedByOne(F, C, H, E) /\ WakesKept(H, E) /\ n \in Nat
    BY DEF Books, Typed
  <1>1. x \in Event /\ x.type = "wake" /\ x.call = p /\ x.seq = n
    BY <1>0, WakeFields
  <1>2. E \subseteq E1 /\ x \in E1 /\ \A e \in E1 : e \in E \/ e = x
    OBVIOUS
  <1>3. H \subseteq H1 /\ h \in H1 /\ \A g \in H1 : g \in H \/ g = h
    OBVIOUS
  <1> HIDE DEF x, E1, H1
  <1>4. Typed(F, C, A, H1, E1, n + 1)
    BY <1>0, <1>1, <1>2, <1>3 DEF Typed
  <1>5. DeadlinesKept(F, C, E1)
    BY <1>0, <1>1, <1>2 DEF DeadlinesKept
  <1>6. MadeOnce(F, C, E1)
    BY <1>0, <1>1, <1>2 DEF MadeOnce
  <1>7. AnswersKept(F, A, E1, n + 1)
    <2>1. \A e \in E : e.seq < n /\ e.seq \in Nat
      BY <1>0, EventFields DEF AnswersKept, Typed
    <2> QED
      BY <1>0, <1>1, <1>2, <2>1 DEF AnswersKept
  <1>8. OneToken(F, C, H1, E1)
    BY <1>0, <1>1, <1>2, <1>3 DEF OneToken, Free, Unanswered, Inbound
  <1>9. ServedByOne(F, C, H1, E1)
    BY <1>0, <1>1, <1>2, <1>3 DEF ServedByOne, Inbound
  <1>10. WakesKept(H1, E1)
    BY <1>0, <1>1, <1>2, <1>3 DEF WakesKept, Free
  <1> QED
    BY <1>4, <1>5, <1>6, <1>7, <1>8, <1>9, <1>10 DEF Books, E1, H1, x

\* It wakes, and may answer.
LEMMA WakeBooks ==
    ASSUME NEW F, NEW C, NEW A, NEW H, NEW E, NEW n, Books(F, C, A, H, E, n), NEW e \in E, e.type = "wake"
    PROVE  LET H1 == H \ {h \in H : h.call = e.call}
           IN  /\ Books(F, C, A, H1, E \ {e}, n)
               /\ e.call \in Calls /\ Free(e.call, C, H1, E \ {e}) /\ Unanswered(e.call, F)
               /\ {h \in H : h.call = e.call} # {}
  <1> DEFINE H1 == H \ {h \in H : h.call = e.call}
             E1 == E \ {e}
  <1>0. /\ Typed(F, C, A, H, E, n) /\ DeadlinesKept(F, C, E) /\ MadeOnce(F, C, E) /\ AnswersKept(F, A, E, n)
        /\ OneToken(F, C, H, E) /\ ServedByOne(F, C, H, E) /\ WakesKept(H, E)
    BY DEF Books
  <1>1. E1 \subseteq E /\ \A f \in E : f.type # "wake" => f \in E1
    OBVIOUS
  <1>2. H1 \subseteq H /\ (\A h \in H1 : h.call # e.call) /\ \A h \in H : h.call # e.call => h \in H1
    OBVIOUS
  <1>3. PICK h \in H : h.call = e.call
    BY <1>0 DEF WakesKept
  <1>4. e.call \in Calls
    BY <1>0, <1>3 DEF Typed, Handler
  <1>5. \A f \in E1 : f.type = "wake" => f.call # e.call
    BY <1>0 DEF WakesKept
  <1> HIDE DEF H1, E1
  <1>6. Free(e.call, C, H1, E1) /\ Unanswered(e.call, F)
    BY <1>0, <1>1, <1>2, <1>3 DEF Free, Unanswered, OneToken, ServedByOne
  <1>7. Typed(F, C, A, H1, E1, n)
    BY <1>0, <1>1, <1>2 DEF Typed
  <1>8. DeadlinesKept(F, C, E1)
    BY <1>0, <1>1 DEF DeadlinesKept
  <1>9. MadeOnce(F, C, E1)
    BY <1>0, <1>1 DEF MadeOnce
  <1>10. AnswersKept(F, A, E1, n)
    BY <1>0, <1>1 DEF AnswersKept
  <1>11. OneToken(F, C, H1, E1)
    BY <1>0, <1>1, <1>2 DEF OneToken
  <1>12. ServedByOne(F, C, H1, E1)
    BY <1>0, <1>1, <1>2 DEF ServedByOne
  <1>13. WakesKept(H1, E1)
    <2>1. \A g \in H1 : \E f \in E1 : f.type = "wake" /\ f.call = g.call
      BY <1>0, <1>1, <1>2 DEF WakesKept, E1
    <2>2. \A f \in E1 : f.type = "wake" => \E g \in H1 : g.call = f.call
      BY <1>0, <1>1, <1>2, <1>5 DEF WakesKept
    <2> QED
      BY <1>0, <1>1, <2>1, <2>2 DEF WakesKept
  <1>14. Books(F, C, A, H1, E1, n)
    BY <1>7, <1>8, <1>9, <1>10, <1>11, <1>12, <1>13 DEF Books
  <1> QED
    BY <1>3, <1>4, <1>6, <1>14 DEF H1, E1

\* The end of a process abandons its calls, and its handlers with their wakes.
LEMMA EndBooks ==
    ASSUME NEW F, NEW C, NEW A, NEW H, NEW E, NEW n, Books(F, C, A, H, E, n),
           NEW C1 \in [Calls -> CallStatus],
           \A p \in Calls : C1[p] = C[p] \/ (C[p] = "waiting" /\ C1[p] = "abandoned"),
           NEW H1, H1 \subseteq H, NEW E1, E1 \subseteq E,
           \A f \in E \ E1 : f.type = "wake",
           \A f \in E : f.type = "wake" => (f \in E1 <=> \A h \in H \ H1 : h.call # f.call),
           \A g, h \in H : g.call = h.call => (g \in H1 <=> h \in H1)
    PROVE  Books(F, C1, A, H1, E1, n)
  <1>0. /\ Typed(F, C, A, H, E, n) /\ DeadlinesKept(F, C, E) /\ MadeOnce(F, C, E) /\ AnswersKept(F, A, E, n)
        /\ OneToken(F, C, H, E) /\ ServedByOne(F, C, H, E) /\ WakesKept(H, E)
    BY DEF Books
  <1>1. \A f \in E : f.type # "wake" => f \in E1
    OBVIOUS
  <1>2. \A p \in Calls : /\ C1[p] = "idle" <=> C[p] = "idle"
                         /\ C1[p] = "waiting" => C[p] = "waiting"
                         /\ C[p] = "timeout" => C1[p] = "timeout"
                         /\ C1[p] \in {"idle", "skipped"} <=> C[p] \in {"idle", "skipped"}
    BY <1>0 DEF Typed, CallStatus
  <1>3. Typed(F, C1, A, H1, E1, n)
    BY <1>0 DEF Typed
  <1>4. DeadlinesKept(F, C1, E1)
    BY <1>0, <1>1, <1>2 DEF DeadlinesKept
  <1>5. MadeOnce(F, C1, E1)
    <2>1. \A e \in E1 : e.type = "start" => e.call \in Calls
      BY <1>0, EventFields DEF Typed, CallTypes
    <2>2. \A p \in Calls : \A q \in Retry[p] : q \in Calls
      BY CallsAssumption
    <2> QED
      BY <1>0, <1>2, <2>1, <2>2 DEF MadeOnce
  <1>6. AnswersKept(F, A, E1, n)
    BY <1>0 DEF AnswersKept
  <1>7. OneToken(F, C1, H1, E1)
    BY <1>0 DEF OneToken
  <1>8. ServedByOne(F, C1, H1, E1)
    BY <1>0, <1>2 DEF ServedByOne
  <1>9. WakesKept(H1, E1)
    <2>1. ASSUME NEW h \in H1 PROVE \E e \in E1 : e.type = "wake" /\ e.call = h.call
      <3>1. PICK e \in E : e.type = "wake" /\ e.call = h.call
        BY <1>0 DEF WakesKept
      <3> QED
        BY <3>1
    <2>2. ASSUME NEW e \in E1, e.type = "wake" PROVE \E h \in H1 : h.call = e.call
      <3>1. PICK h \in H : h.call = e.call
        BY <1>0, <2>2 DEF WakesKept
      <3> QED
        BY <2>2, <3>1
    <2> QED
      BY <1>0, <2>1, <2>2 DEF WakesKept
  <1> QED
    BY <1>3, <1>4, <1>5, <1>6, <1>7, <1>8, <1>9 DEF Books

\* A transition to come is nothing to the requests.
LEMMA ControlBooks ==
    ASSUME NEW F, NEW C, NEW A, NEW H, NEW E, NEW n, Books(F, C, A, H, E, n),
           NEW t \in Nat, NEW c \in Components, NEW s \in ServiceState
    PROVE  Books(F, C, A, H, E \cup {LifecycleEvent(t, n, c, s)}, n + 1)
  <1> DEFINE x == LifecycleEvent(t, n, c, s)
             E1 == E \cup {x}
  <1>0. /\ Typed(F, C, A, H, E, n) /\ DeadlinesKept(F, C, E) /\ MadeOnce(F, C, E) /\ AnswersKept(F, A, E, n)
        /\ OneToken(F, C, H, E) /\ ServedByOne(F, C, H, E) /\ WakesKept(H, E) /\ n \in Nat
    BY DEF Books, Typed
  <1>1. x \in Event /\ x.type = "lifecycle" /\ x.seq = n
    BY <1>0, LifecycleFields
  <1>2. E \subseteq E1 /\ \A e \in E1 : e \in E \/ e = x
    OBVIOUS
  <1> HIDE DEF x, E1
  <1>3. Typed(F, C, A, H, E1, n + 1)
    BY <1>0, <1>1, <1>2 DEF Typed
  <1>4. DeadlinesKept(F, C, E1)
    BY <1>0, <1>1, <1>2 DEF DeadlinesKept
  <1>5. MadeOnce(F, C, E1)
    BY <1>0, <1>1, <1>2 DEF MadeOnce
  <1>6. AnswersKept(F, A, E1, n + 1)
    <2>1. \A e \in E : e.seq < n /\ e.seq \in Nat
      BY <1>0, EventFields DEF AnswersKept, Typed
    <2> QED
      BY <1>0, <1>1, <1>2, <2>1 DEF AnswersKept
  <1>7. OneToken(F, C, H, E1)
    BY <1>0, <1>1, <1>2 DEF OneToken, Inbound
  <1>8. ServedByOne(F, C, H, E1)
    BY <1>0, <1>1, <1>2 DEF ServedByOne, Inbound
  <1>9. WakesKept(H, E1)
    BY <1>0, <1>1, <1>2 DEF WakesKept
  <1> QED
    BY <1>3, <1>4, <1>5, <1>6, <1>7, <1>8, <1>9 DEF Books, E1, x

-----------------------------------------------------------------------------
(* The actions                                                              *)

\* How a step moves the calls and the answers to them.
CallMoves(p) ==
    \/ calls'[p] = calls[p]
    \/ calls[p] = "idle" /\ calls'[p] \in {"waiting", "skipped"}
    \/ calls[p] = "waiting" /\ calls'[p] \in {"ok", "error"} /\ calls'[p] = answers[p] /\ now' < flights[p].deadline
    \/ calls[p] = "waiting" /\ calls'[p] = "timeout" /\ now' = flights[p].deadline
    \/ calls[p] = "waiting" /\ calls'[p] = "abandoned"

AnswerMoves(p) ==
    \/ answers'[p] = answers[p]
    \/ calls[p] \notin {"idle", "skipped"} /\ answers[p] = "none" /\ answers'[p] \in {"ok", "error"}

Processes == lifecycle \in [Components -> ServiceState] /\ generation \in [Components -> Nat]

\* What every action does.
Kept ==
    /\ Books(flights', calls', answers', handlers', agenda', nextSeq')
    /\ Passed(flights', calls', {})
    /\ Fresh' /\ Processes'
    /\ \E failed \in BOOLEAN : Boundary(failed)
    /\ \A p \in Calls : CallMoves(p) /\ AnswerMoves(p)

\* A run never ends with a task or an event left.
LEMMA BoundaryKeeps ==
    ASSUME Books(flights', calls', answers', handlers', agenda', nextSeq'), NEW failed \in BOOLEAN, Boundary(failed),
           status = "RUNNING"
    PROVE  StatusKept' /\ status' \in {"RUNNING", "COMPLETED", "DEADLOCK", "FAILED"}
  <1>1. ASSUME agenda' = {} PROVE Waiting' = {} /\ handlers' = {}
    <2>1. \A p \in Calls : calls'[p] # "waiting"
      BY <1>1 DEF Books, DeadlinesKept, MadeOnce
    <2>2. handlers' = {}
      BY <1>1 DEF Books, WakesKept
    <2> QED
      BY <2>1, <2>2 DEF Waiting
  <1> QED
    BY <1>1 DEF Boundary, StatusKept

LEMMA RequestPart ==
    ASSUME NEW F, NEW C, NEW H, NEW E, Books(F, C, answers, H, E, nextSeq), Passed(F, C, {}),
           NEW q \in Calls, MayCall(q, F, C, H, E), now' \in Nat, Request(q, F, C, E)
    PROVE  /\ Books(flights', calls', answers', H, agenda', nextSeq')
           /\ Passed(flights', calls', {})
           /\ Boundary(FALSE)
           /\ answers' = answers /\ calls' = [C EXCEPT ![q] = "waiting"]
  <1>1. PICK d \in Decisions(q) :
           /\ flights' = [F EXCEPT ![q] = [state |-> "SENT", replied |-> FALSE, settled |-> FALSE,
                                           deadline |-> now' + Timeout[q]]]
           /\ calls' = [C EXCEPT ![q] = "waiting"]
           /\ agenda' = E \cup {DeadlineEvent(now' + Timeout[q], nextSeq, q)}
                \cup (IF d.dropped THEN {} ELSE {DeliveryEvent(now' + RequestLatency[q] + d.delay, nextSeq + 1, q)})
           /\ nextSeq' = IF d.dropped THEN nextSeq + 1 ELSE nextSeq + 2
           /\ UNCHANGED answers
           /\ Boundary(FALSE)
    BY DEF Request
  <1>2. F \in [Calls -> Flight] /\ C \in [Calls -> CallStatus] /\ F[q].state = "NONE" /\ ~F[q].replied
    BY DEF Books, Typed, MadeOnce, AnswersKept, MayCall
  <1> DEFINE t == now' + Timeout[q]
             due == now' + RequestLatency[q] + d.delay
  <1>3. t \in Nat /\ due \in Nat
    BY PolicyAssumption, FateOfLeg
  <1>4. Called(flights', calls', F, C, q, t)
    BY <1>1, <1>2, <1>3 DEF Called, Flight, CallStatus
  <1>5. \/ agenda' = E \cup {DeadlineEvent(t, nextSeq, q)} /\ nextSeq' = nextSeq + 1
        \/ agenda' = E \cup {DeadlineEvent(t, nextSeq, q)} \cup {DeliveryEvent(due, nextSeq + 1, q)} /\ nextSeq' = nextSeq + 2
    BY <1>1, FateOfLeg
  <1> HIDE DEF t, due
  <1>6. Books(flights', calls', answers, H, agenda', nextSeq')
    BY <1>3, <1>4, <1>5, RequestBooks
  <1>7. Passed(flights', calls', {})
    BY <1>2, <1>4, CallsAssumption DEF Passed, Called
  <1> QED
    BY <1>1, <1>6, <1>7

\* The target's answer to u is a.
Gives(u, a) == answers' = [answers EXCEPT ![u] = a] /\ answers[u] = "none"

LEMMA ReplyPart ==
    ASSUME NEW F, NEW C, NEW H, NEW E, Books(F, C, answers, H, E, nextSeq),
           NEW u \in Calls, NEW a \in {"ok", "error"}, Free(u, C, H, E), Unanswered(u, F), now' \in Nat, Reply(u, a, F, E)
    PROVE  /\ Books(flights', C, answers', H, agenda', nextSeq')
           /\ Answered(flights', F, u)
           /\ Boundary(FALSE)
           /\ Gives(u, a)
  <1>1. PICK d \in Decisions(u) :
           /\ flights' = [F EXCEPT ![u].replied = TRUE, ![u].state = IF F[u].settled THEN @ ELSE "REPLIED"]
           /\ answers' = [answers EXCEPT ![u] = a]
           /\ agenda' = E \cup (IF d.dropped THEN {} ELSE {ResponseEvent(now' + ResponseLatency[u] + d.delay, nextSeq, u, a)})
           /\ nextSeq' = IF d.dropped THEN nextSeq ELSE nextSeq + 1
           /\ Boundary(FALSE)
    BY DEF Reply, Unanswered
  <1>2. F \in [Calls -> Flight] /\ answers[u] = "none"
    BY DEF Books, Typed, AnswersKept, Unanswered
  <1> DEFINE t == now' + ResponseLatency[u] + d.delay
  <1>3. t \in Nat
    BY PolicyAssumption, FateOfLeg
  <1>4. Answered(flights', F, u)
    BY <1>1, <1>2 DEF Answered, Flight, Unanswered
  <1>5. (agenda' = E /\ nextSeq' = nextSeq) \/ (agenda' = E \cup {ResponseEvent(t, nextSeq, u, a)} /\ nextSeq' = nextSeq + 1)
    BY <1>1, FateOfLeg
  <1> HIDE DEF t
  <1>6. Books(flights', C, [answers EXCEPT ![u] = a], H, agenda', nextSeq')
    BY <1>3, <1>4, <1>5, ReplyBooks
  <1> QED
    BY <1>1, <1>2, <1>4, <1>6 DEF Gives

\* An answer takes nothing back.
LEMMA AnsweredPasses ==
    ASSUME NEW F, NEW C, NEW X, NEW F1, NEW u \in Calls, Answered(F1, F, u), Passed(F, C, X)
    PROVE  Passed(F1, C, X)
  <1>1. \A p \in Calls : F[p].replied => F1[p].replied
    BY DEF Answered
  <1> QED
    BY <1>1, CallsAssumption DEF Passed

LEMMA EventInHand ==
    ASSUME IInv, NEW e \in agenda, now' = e.time
    PROVE  e \in Event /\ now' \in Nat /\ Take(e) = agenda \ {e} /\ Processes
           /\ Books(flights, calls, answers, handlers, agenda, nextSeq) /\ Passed(flights, calls, {}) /\ Fresh
           /\ flights \in [Calls -> Flight] /\ calls \in [Calls -> CallStatus] /\ handlers \subseteq Handler
           /\ answers \in [Calls -> {"none", "ok", "error"}]
  BY EventFields DEF IInv, TypeOK, Take, Processes

LEMMA StartKeeps == ASSUME IInv, NEW e \in agenda, now' = e.time, Start(e) PROVE Kept
  <1> DEFINE p == e.call
             E == agenda \ {e}
  <1>0. /\ now' \in Nat /\ Take(e) = E /\ Processes /\ Passed(flights, calls, {}) /\ Fresh
        /\ Books(flights, calls, answers, handlers, agenda, nextSeq) /\ e.type = "start" /\ UNCHANGED <<handlers, procVars>>
        /\ calls \in [Calls -> CallStatus]
    BY EventInHand DEF Start
  <1>1. Books(flights, calls, answers, handlers, E, nextSeq)
    BY <1>0, TakeBooks
  <1>2. p \in Calls /\ MayCall(p, flights, calls, handlers, E) /\ Upstream[p] = {}
    BY <1>0, StartMayCall
  <1> HIDE DEF E, p
  <1>3. Fresh' /\ Processes'
    BY <1>0 DEF procVars, Fresh, Processes
  <1>4. CASE Request(p, flights, calls, E)
    <2>1. /\ Books(flights', calls', answers', handlers, agenda', nextSeq') /\ Passed(flights', calls', {})
          /\ Boundary(FALSE) /\ answers' = answers /\ calls' = [calls EXCEPT ![p] = "waiting"]
      BY <1>0, <1>1, <1>2, <1>4, RequestPart
    <2>2. \A q \in Calls : CallMoves(q) /\ AnswerMoves(q)
      BY <1>0, <1>2, <2>1 DEF CallMoves, AnswerMoves, MayCall
    <2> QED
      BY <1>0, <1>3, <2>1, <2>2 DEF Kept
  <1>5. CASE /\ calls' = [calls EXCEPT ![p] = "skipped"] /\ agenda' = E
             /\ UNCHANGED <<nextSeq, flights, answers>> /\ Boundary(FALSE)
    <2>1. Books(flights, [calls EXCEPT ![p] = "skipped"], answers, handlers, E, nextSeq)
      BY <1>1, <1>2, SkipBooks
    <2>2. Passed(flights', calls', {})
      BY <1>0, <1>5 DEF Passed
    <2>3. \A q \in Calls : CallMoves(q) /\ AnswerMoves(q)
      BY <1>0, <1>2, <1>5 DEF CallMoves, AnswerMoves, MayCall
    <2> QED
      BY <1>0, <1>3, <1>5, <2>1, <2>2, <2>3 DEF Kept
  <1> QED
    BY <1>0, <1>4, <1>5 DEF Start, p

\* A handler that ends with an answer moves no call.
LEMMA ReplyMoves ==
    ASSUME IInv, NEW u \in Calls, NEW a \in {"ok", "error"}, flights[u].state # "NONE", calls' = calls, Gives(u, a)
    PROVE  \A p \in Calls : CallMoves(p) /\ AnswerMoves(p)
  <1>1. calls[u] \notin {"idle", "skipped"}
    BY DEF IInv, Books, MadeOnce
  <1>2. \A p \in Calls : answers'[p] = IF p = u THEN a ELSE answers[p]
    BY DEF IInv, TypeOK, Gives
  <1> QED
    BY <1>1, <1>2 DEF CallMoves, AnswerMoves, Gives

LEMMA DeliverKeeps == ASSUME IInv, NEW e \in agenda, now' = e.time, Deliver(e) PROVE Kept
  <1> DEFINE p == e.call
             E == agenda \ {e}
             F == [flights EXCEPT ![p].state = "ADMITTED"]
  <1>0. /\ now' \in Nat /\ Take(e) = E /\ Processes /\ Passed(flights, calls, {}) /\ Fresh
        /\ Books(flights, calls, answers, handlers, agenda, nextSeq) /\ e.type = "delivery"
        /\ UNCHANGED <<calls, handlers, procVars>> /\ flights \in [Calls -> Flight]
    BY EventInHand DEF Deliver
  <1>1. p \in Calls /\ Free(p, calls, handlers, E) /\ ~flights[p].replied /\ flights[p].state # "NONE"
    BY <1>0, InboundFrees DEF Inbound
  <1>2. Books(flights, calls, answers, handlers, E, nextSeq)
    BY <1>0, TakeBooks
  <1>3. Books(F, calls, answers, handlers, E, nextSeq)
    BY <1>1, <1>2, AdmitBooks
  <1>4. Unanswered(p, F) /\ \A q \in Calls : F[q].replied = flights[q].replied
    BY <1>0, <1>1 DEF Unanswered, Flight
  <1>5. Passed(F, calls, {})
    BY <1>0, <1>4, CallsAssumption DEF Passed
  <1>6. \A q \in Calls : calls[q] # "idle" => p \notin Upstream[q]
    BY <1>0 DEF Books, ServedByOne, Inbound
  <1>7. Fresh' /\ Processes'
    BY <1>0 DEF procVars, Fresh, Processes
  <1>8. CASE /\ flights' = F /\ agenda' = E \cup {EndpointEvent(now', nextSeq, p, generation[Target[p]])}
             /\ nextSeq' = nextSeq + 1 /\ UNCHANGED answers /\ Boundary(FALSE)
    <2>1. generation[Target[p]] \in Nat
      BY <1>0, <1>1, CallsAssumption DEF Processes
    <2> HIDE DEF E, F, p
    <2>2. Books(F, calls, answers, handlers, E \cup {EndpointEvent(now', nextSeq, p, generation[Target[p]])}, nextSeq + 1)
      BY <1>0, <1>1, <1>3, <1>4, <1>6, <2>1, EndpointBooks
    <2>3. \A q \in Calls : CallMoves(q) /\ AnswerMoves(q)
      BY <1>0, <1>8 DEF CallMoves, AnswerMoves
    <2> QED
      BY <1>0, <1>5, <1>7, <1>8, <2>2, <2>3 DEF Kept
  <1>9. CASE Reply(p, "error", F, E)
    <2> HIDE DEF E, F, p
    <2>1. /\ Books(flights', calls, answers', handlers, agenda', nextSeq') /\ Answered(flights', F, p) /\ Boundary(FALSE)
          /\ Gives(p, "error")
      BY <1>0, <1>1, <1>3, <1>4, <1>9, ReplyPart
    <2>2. Passed(flights', calls, {})
      BY <1>1, <1>5, <2>1, AnsweredPasses
    <2>3. \A q \in Calls : CallMoves(q) /\ AnswerMoves(q)
      BY <1>0, <1>1, <2>1, ReplyMoves
    <2> QED
      BY <1>0, <1>7, <2>1, <2>2, <2>3 DEF Kept
  <1> QED
    BY <1>0, <1>8, <1>9 DEF Deliver

LEMMA EndpointKeeps == ASSUME IInv, NEW e \in agenda, now' = e.time, Endpoint(e) PROVE Kept
  <1> DEFINE p == e.call
             E == agenda \ {e}
  <1>0. /\ now' \in Nat /\ Take(e) = E /\ Processes /\ Passed(flights, calls, {}) /\ Fresh
        /\ Books(flights, calls, answers, handlers, agenda, nextSeq) /\ e.type = "endpoint" /\ e \in Event
        /\ UNCHANGED procVars /\ calls \in [Calls -> CallStatus]
    BY EventInHand DEF Endpoint
  <1>1. p \in Calls /\ Free(p, calls, handlers, E) /\ flights[p].state # "NONE"
    BY <1>0, InboundFrees DEF Inbound
  <1>2. Books(flights, calls, answers, handlers, E, nextSeq)
    BY <1>0, TakeBooks
  <1>3. Unanswered(p, flights)
    BY <1>0 DEF Books, OneToken, Unanswered
  <1>4. \A q \in Calls : calls[q] # "idle" => p \notin Upstream[q]
    BY <1>0 DEF Books, ServedByOne, Inbound
  <1>5. Processes' /\ (handlers' = handlers => Fresh')
    BY <1>0 DEF procVars, Fresh, Processes
  <1>6. \A q \in Downstream(p) : q \in Calls /\ MayCall(q, flights, calls, handlers, E)
    BY <1>0, DownstreamMayCall
  <1>7. e.generation \in Nat
    BY <1>0, EventFields
  <1> HIDE DEF E
  <1>8. CASE ~Current(e) /\ agenda' = E /\ UNCHANGED <<nextSeq, flights, calls, answers, handlers>> /\ Boundary(FALSE)
    <2>1. \A q \in Calls : CallMoves(q) /\ AnswerMoves(q)
      BY <1>8 DEF CallMoves, AnswerMoves
    <2> QED
      BY <1>0, <1>2, <1>5, <1>8, <2>1 DEF Kept
  <1>9. ASSUME NEW a \in {"ok", "error"}, UNCHANGED <<calls, handlers>>, Reply(p, a, flights, E) PROVE Kept
    <2> HIDE DEF p
    <2>1. /\ Books(flights', calls, answers', handlers, agenda', nextSeq') /\ Answered(flights', flights, p) /\ Boundary(FALSE)
          /\ Gives(p, a)
      BY <1>0, <1>1, <1>2, <1>3, <1>9, ReplyPart
    <2>2. Passed(flights', calls, {})
      BY <1>0, <1>1, <2>1, AnsweredPasses
    <2>3. \A q \in Calls : CallMoves(q) /\ AnswerMoves(q)
      BY <1>1, <1>9, <2>1, ReplyMoves
    <2> QED
      BY <1>5, <1>9, <2>1, <2>2, <2>3 DEF Kept
  <1>10. ASSUME NEW q \in Downstream(p), UNCHANGED handlers, Request(q, flights, calls, E) PROVE Kept
    <2>1. q \in Calls /\ MayCall(q, flights, calls, handlers, E)
      BY <1>6
    <2> HIDE DEF p
    <2>2. /\ Books(flights', calls', answers', handlers, agenda', nextSeq') /\ Passed(flights', calls', {})
          /\ Boundary(FALSE) /\ answers' = answers /\ calls' = [calls EXCEPT ![q] = "waiting"]
      BY <1>0, <1>2, <1>10, <2>1, RequestPart
    <2>3. \A r \in Calls : CallMoves(r) /\ AnswerMoves(r)
      BY <1>0, <2>1, <2>2 DEF CallMoves, AnswerMoves, MayCall
    <2> QED
      BY <1>5, <1>10, <2>2, <2>3 DEF Kept
  <1>11. ASSUME Current(e), NEW delay \in Sleeps, agenda' = E \cup {WakeEvent(now' + delay, nextSeq, p)}, nextSeq' = nextSeq + 1,
                handlers' = handlers \cup {[call |-> p, generation |-> e.generation]},
                UNCHANGED <<flights, calls, answers>>, Boundary(FALSE)
         PROVE  Kept
    <2> DEFINE h == [call |-> p, generation |-> e.generation]
    <2>1. h \in Handler /\ h.call = p /\ h.generation = generation[Target[p]]
      BY <1>1, <1>7, <1>11 DEF Handler, Current
    <2>2. now' + delay \in Nat
      BY <1>0, PolicyAssumption
    <2>3. handlers' = handlers \cup {h}
      BY <1>11
    <2> HIDE DEF h, p
    <2>4. Books(flights, calls, answers, handlers \cup {h}, E \cup {WakeEvent(now' + delay, nextSeq, p)}, nextSeq + 1)
      BY <1>1, <1>2, <1>3, <1>4, <2>1, <2>2, SleepBooks
    <2>5. Fresh'
      BY <1>0, <2>1, <2>3 DEF Fresh, procVars
    <2>6. \A q \in Calls : CallMoves(q) /\ AnswerMoves(q)
      BY <1>11 DEF CallMoves, AnswerMoves
    <2> QED
      BY <1>0, <1>5, <1>11, <2>3, <2>4, <2>5, <2>6 DEF Kept
  <1> QED
    BY <1>0, <1>8, <1>9, <1>10, <1>11 DEF Endpoint

LEMMA WakeKeeps == ASSUME IInv, NEW e \in agenda, now' = e.time, Wake(e) PROVE Kept
  <1> DEFINE p == e.call
             E == agenda \ {e}
             mine == {h \in handlers : h.call = e.call}
             H == handlers \ mine
  <1>0. /\ now' \in Nat /\ Take(e) = E /\ Processes /\ Passed(flights, calls, {}) /\ Fresh
        /\ Books(flights, calls, answers, handlers, agenda, nextSeq) /\ e.type = "wake"
        /\ UNCHANGED <<calls, procVars>> /\ handlers' = H
    BY EventInHand DEF Wake
  <1>1. /\ Books(flights, calls, answers, H, E, nextSeq) /\ mine # {}
        /\ p \in Calls /\ Free(p, calls, H, E) /\ Unanswered(p, flights)
    BY <1>0, WakeBooks
  <1>2. Reply(p, "ok", flights, E)
    BY <1>0, <1>1 DEF Wake
  <1>3. Fresh' /\ Processes'
    BY <1>0 DEF procVars, Fresh, Processes
  <1> HIDE DEF E, H, mine, p
  <1>4. /\ Books(flights', calls, answers', H, agenda', nextSeq') /\ Answered(flights', flights, p) /\ Boundary(FALSE)
        /\ Gives(p, "ok")
    BY <1>0, <1>1, <1>2, ReplyPart
  <1>5. Passed(flights', calls, {})
    BY <1>0, <1>1, <1>4, AnsweredPasses
  <1>6. \A q \in Calls : CallMoves(q) /\ AnswerMoves(q)
    BY <1>0, <1>1, <1>4, ReplyMoves DEF Unanswered
  <1> QED
    BY <1>0, <1>3, <1>4, <1>5, <1>6 DEF Kept

\* When an outcome may come: the answer before the deadline, the timeout at it.
InTime(p, o) ==
    /\ o \in {"ok", "error"} => o = answers[p] /\ now' < flights[p].deadline
    /\ o = "timeout" => now' = flights[p].deadline

LEMMA CompleteKeeps ==
    ASSUME IInv, now' \in Nat, NEW p \in Calls, flights[p].state # "NONE",
           NEW o \in {"ok", "error", "timeout"}, InTime(p, o),
           NEW F, Settled(F, flights, p), NEW E, Cancels(E, agenda, p),
           Complete(p, o, F, E), UNCHANGED <<handlers, procVars>>
    PROVE  Kept
  <1>0. /\ Books(flights, calls, answers, handlers, agenda, nextSeq) /\ Passed(flights, calls, {}) /\ Fresh /\ Processes
        /\ calls \in [Calls -> CallStatus] /\ UNCHANGED handlers
    BY DEF IInv, TypeOK, Processes
  <1>1. Fresh' /\ Processes'
    BY <1>0 DEF procVars, Fresh, Processes
  <1>2. \A q \in Calls : F[q].replied = flights[q].replied
    BY DEF Settled
  <1>3. CASE calls[p] # "waiting" /\ flights' = F /\ agenda' = E /\ UNCHANGED <<calls, answers, nextSeq>> /\ Boundary(FALSE)
    <2>1. Books(F, calls, answers, handlers, E, nextSeq)
      <3>1. Outcome(calls, calls, p, o)
        BY <1>3 DEF Outcome
      <3> QED
        BY <1>0, <3>1, SettleBooks
    <2>2. Passed(F, calls, {})
      BY <1>0, <1>2, CallsAssumption DEF Passed
    <2>3. \A q \in Calls : CallMoves(q) /\ AnswerMoves(q)
      BY <1>3 DEF CallMoves, AnswerMoves
    <2> QED
      BY <1>0, <1>1, <1>3, <2>1, <2>2, <2>3 DEF Kept
  <1>4. CASE calls[p] = "waiting"
    <2> DEFINE C == [calls EXCEPT ![p] = o]
    <2>1. Outcome(C, calls, p, o)
      BY <1>4 DEF Outcome
    <2>2. /\ C[p] = o /\ (\A q \in Calls \ {p} : C[q] = calls[q]) /\ C \in [Calls -> CallStatus]
          /\ Complete(p, o, F, E) => \/ o = "timeout" /\ \E q \in Retry[p] : Request(q, F, C, E)
                                     \/ /\ calls' = C /\ (o = "timeout" => Retry[p] = {})
                                        /\ \E u \in Upstream[p] : Reply(u, IF o = "ok" THEN "ok" ELSE "error", F, E)
                                     \/ /\ Upstream[p] = {} /\ flights' = F /\ calls' = C /\ agenda' = E
                                        /\ UNCHANGED <<answers, nextSeq>> /\ Boundary(FALSE)
      BY <1>0, <1>4 DEF Complete, CallStatus
    <2> HIDE DEF C
    <2>3. Books(F, C, answers, handlers, E, nextSeq)
      BY <1>0, <2>1, SettleBooks
    <2>4. /\ \A u \in Upstream[p] : u \in Calls /\ Free(u, C, handlers, E) /\ Unanswered(u, F)
          /\ o = "timeout" => \A q \in Retry[p] : q \in Calls /\ MayCall(q, F, C, handlers, E)
      BY <1>0, <1>4, <2>1, SettledFrees
    <2>5. Passed(F, C, {p})
      BY <1>0, <1>2, <2>2, CallsAssumption DEF Passed
    <2>6. \A D : (\A q \in Calls : D[q] = C[q] \/ (calls[q] = "idle" /\ q # p /\ D[q] = "waiting")) /\ calls' = D
            => \A q \in Calls : CallMoves(q)
      BY <1>4, <2>2 DEF CallMoves, InTime
    <2>7. ASSUME o = "timeout", NEW q \in Retry[p], Request(q, F, C, E) PROVE Kept
      <3>1. q \in Calls /\ MayCall(q, F, C, handlers, E)
        BY <2>4, <2>7
      <3>2. Passed(F, C, {})
        BY <2>2, <2>5, <2>7 DEF Passed
      <3>3. /\ Books(flights', calls', answers', handlers, agenda', nextSeq') /\ Passed(flights', calls', {})
            /\ Boundary(FALSE) /\ answers' = answers /\ calls' = [C EXCEPT ![q] = "waiting"]
        BY <2>3, <2>7, <3>1, <3>2, RequestPart
      <3>4. q # p /\ calls[q] = "idle"
        BY <1>4, <2>2, <2>7, <3>1 DEF MayCall
      <3>5. \A r \in Calls : calls'[r] = C[r] \/ (calls[r] = "idle" /\ r # p /\ calls'[r] = "waiting")
        BY <2>2, <3>1, <3>3, <3>4
      <3>6. \A r \in Calls : CallMoves(r) /\ AnswerMoves(r)
        BY <2>6, <3>3, <3>5 DEF AnswerMoves
      <3> QED
        BY <1>0, <1>1, <3>3, <3>6 DEF Kept
    <2>8. ASSUME calls' = C, NEW u \in Upstream[p], NEW a \in {"ok", "error"}, Reply(u, a, F, E) PROVE Kept
      <3>1. u \in Calls /\ Free(u, C, handlers, E) /\ Unanswered(u, F)
        BY <2>4
      <3>2. Books(flights', C, answers', handlers, agenda', nextSeq') /\ Answered(flights', F, u) /\ Boundary(FALSE) /\ Gives(u, a)
        BY <2>3, <2>8, <3>1, ReplyPart
      <3>3. Passed(flights', C, {p})
        BY <2>5, <3>1, <3>2, AnsweredPasses
      <3>4. \A v \in Upstream[p] : flights'[v].replied
        BY <3>2, CallsAssumption DEF Answered
      <3>5. Passed(flights', C, {})
        BY <3>3, <3>4 DEF Passed
      <3>6. flights[u].state # "NONE" /\ calls[u] \notin {"idle", "skipped"}
        BY <1>0, <1>4, <3>1, CallsAssumption DEF Books, ServedByOne, MadeOnce
      <3>7. \A q \in Calls : AnswerMoves(q)
        <4>1. \A q \in Calls : answers'[q] = IF q = u THEN a ELSE answers[q]
          BY <3>1, <3>2 DEF IInv, TypeOK, Gives
        <4> QED
          BY <3>2, <3>6, <4>1 DEF AnswerMoves, Gives
      <3>8. \A q \in Calls : CallMoves(q)
        BY <2>6, <2>8
      <3> QED
        BY <1>0, <1>1, <2>8, <3>2, <3>5, <3>7, <3>8 DEF Kept
    <2>9. CASE /\ Upstream[p] = {} /\ flights' = F /\ calls' = C /\ agenda' = E
               /\ UNCHANGED <<answers, nextSeq>> /\ Boundary(FALSE)
      <3>1. Passed(F, C, {})
        BY <2>5, <2>9 DEF Passed
      <3>2. \A q \in Calls : CallMoves(q) /\ AnswerMoves(q)
        BY <2>6, <2>9 DEF AnswerMoves
      <3> QED
        BY <1>0, <1>1, <2>3, <2>9, <3>1, <3>2 DEF Kept
    <2>10. (IF o = "ok" THEN "ok" ELSE "error") \in {"ok", "error"}
      OBVIOUS
    <2> QED
      BY <2>2, <2>7, <2>8, <2>9, <2>10
  <1> QED
    BY <1>3, <1>4 DEF Complete

\* The deadline in hand is the only one of its call.
LEMMA ReceiveKeeps == ASSUME IInv, NEW e \in agenda, IsFirst(e, agenda), now' = e.time, Receive(e) PROVE Kept
  <1> DEFINE p == e.call
             E == agenda \ {e}
             F == [flights EXCEPT ![p].settled = TRUE]
             E1 == E \ DeadlinesOf(p)
  <1>0. /\ now' \in Nat /\ Take(e) = E /\ Processes /\ Passed(flights, calls, {}) /\ Fresh /\ e \in Event
        /\ Books(flights, calls, answers, handlers, agenda, nextSeq) /\ e.type = "response"
        /\ UNCHANGED <<handlers, procVars>> /\ flights \in [Calls -> Flight]
    BY EventInHand DEF Receive
  <1>1. /\ p \in Calls /\ e.answer \in {"ok", "error"} /\ e.answer = answers[p] /\ flights[p].state # "NONE"
        /\ e.time \in Nat /\ e.seq \in Nat
    BY <1>0, EventFields DEF Books, AnswersKept, CallTypes
  <1>2. CASE /\ agenda' = E /\ UNCHANGED <<nextSeq, flights, calls, answers>> /\ Boundary(FALSE)
    <2>1. Books(flights, calls, answers, handlers, E, nextSeq)
      BY <1>0, TakeBooks
    <2>2. Fresh' /\ Processes'
      BY <1>0 DEF procVars, Fresh, Processes
    <2>3. \A q \in Calls : CallMoves(q) /\ AnswerMoves(q)
      BY <1>2 DEF CallMoves, AnswerMoves
    <2> QED
      BY <1>0, <1>2, <2>1, <2>2, <2>3 DEF Kept
  <1>3. CASE ~flights[p].settled /\ Complete(p, e.answer, F, E1)
    <2>1. PICK d \in agenda : d.type = "deadline" /\ d.call = p
      BY <1>0, <1>1, <1>3 DEF Books, DeadlinesKept
    <2>2. d.time = flights[p].deadline /\ d.seq < e.seq /\ d # e
      BY <1>0, <1>1, <2>1 DEF Books, DeadlinesKept, AnswersKept
    <2>3. d.time \in Nat /\ d.seq \in Nat
      BY <1>0, <2>1, EventFields DEF Books, Typed
    <2>4. now' < flights[p].deadline
      BY <1>1, <2>2, <2>3 DEF IsFirst, Earlier
    <2>5. InTime(p, e.answer)
      BY <1>1, <2>4 DEF InTime
    <2>6. Settled(F, flights, p)
      BY <1>0, <1>1 DEF Settled, Flight
    <2>7. Cancels(E1, agenda, p)
      BY <1>0 DEF Cancels, DeadlinesOf
    <2> HIDE DEF F, E, E1, p
    <2> QED
      BY <1>0, <1>1, <1>3, <2>5, <2>6, <2>7, CompleteKeeps
  <1> QED
    BY <1>0, <1>2, <1>3 DEF Receive

LEMMA DeadlineKeeps == ASSUME IInv, NEW e \in agenda, now' = e.time, Deadline(e) PROVE Kept
  <1> DEFINE p == e.call
             E == agenda \ {e}
             F == [flights EXCEPT ![p].settled = TRUE, ![p].state = "TIMED_OUT"]
  <1>0. /\ now' \in Nat /\ Take(e) = E /\ e \in Event
        /\ Books(flights, calls, answers, handlers, agenda, nextSeq) /\ e.type = "deadline"
        /\ UNCHANGED <<handlers, procVars>> /\ flights \in [Calls -> Flight]
    BY EventInHand DEF Deadline
  <1>1. p \in Calls /\ flights[p].state # "NONE" /\ ~flights[p].settled /\ e.time = flights[p].deadline
    BY <1>0, EventFields DEF Books, DeadlinesKept, CallTypes
  <1>2. Complete(p, "timeout", F, E)
    BY <1>0, <1>1 DEF Deadline
  <1>3. InTime(p, "timeout")
    BY <1>1 DEF InTime
  <1>4. Settled(F, flights, p)
    BY <1>0, <1>1 DEF Settled, Flight
  <1>5. Cancels(E, agenda, p)
    BY <1>0 DEF Cancels, Books, DeadlinesKept
  <1> HIDE DEF F, E, p
  <1> QED
    BY <1>0, <1>1, <1>2, <1>3, <1>4, <1>5, CompleteKeeps

LEMMA LifecycleKeeps == ASSUME IInv, NEW e \in agenda, now' = e.time, Lifecycle(e) PROVE Kept
  <1> DEFINE c == e.component
             before == lifecycle[c]
             ends == EndsProcess(before, e.next)
             mine == {h \in handlers : Target[h.call] = c}
             wakes == {w \in agenda : w.type = "wake" /\ \E h \in mine : h.call = w.call}
             E == agenda \ {e}
  <1>0. /\ now' \in Nat /\ Take(e) = E /\ Processes /\ Passed(flights, calls, {}) /\ Fresh /\ e \in Event
        /\ Books(flights, calls, answers, handlers, agenda, nextSeq) /\ e.type = "lifecycle"
        /\ UNCHANGED <<nextSeq, flights, answers>> /\ calls \in [Calls -> CallStatus] /\ handlers \subseteq Handler
    BY EventInHand DEF Lifecycle
  <1>1. c \in Components /\ e.next \in ServiceState
    BY <1>0, EventFields
  <1>2. Books(flights, calls, answers, handlers, E, nextSeq)
    BY <1>0, TakeBooks
  <1>3. ASSUME agenda' = E, UNCHANGED <<calls, handlers, procVars>>, NEW b \in BOOLEAN, Boundary(b) PROVE Kept
    <2>1. Fresh' /\ Processes'
      BY <1>0, <1>3 DEF procVars, Fresh, Processes
    <2>2. \A q \in Calls : CallMoves(q) /\ AnswerMoves(q)
      BY <1>0, <1>3 DEF CallMoves, AnswerMoves
    <2> QED
      BY <1>0, <1>2, <1>3, <2>1, <2>2 DEF Kept
  <1>4. CASE /\ lifecycle' = [lifecycle EXCEPT ![c] = e.next]
             /\ generation' = IF ends THEN [generation EXCEPT ![c] = @ + 1] ELSE generation
             /\ handlers' = IF ends THEN handlers \ mine ELSE handlers
             /\ calls' = [p \in Calls |-> IF ends /\ p \in Abandoned(c) THEN "abandoned" ELSE calls[p]]
             /\ agenda' = IF ends THEN E \ wakes ELSE E
             /\ Boundary(FALSE)
    <2> HIDE DEF E, ends
    <2>1. Processes'
      BY <1>0, <1>1, <1>4 DEF Processes
    <2>2. /\ calls' \in [Calls -> CallStatus]
          /\ \A p \in Calls : calls'[p] = calls[p] \/ (calls[p] = "waiting" /\ calls'[p] = "abandoned")
      BY <1>0, <1>4 DEF Abandoned, CallStatus
    <2>3. handlers' \subseteq handlers /\ agenda' \subseteq E
      BY <1>4
    <2>4. \A f \in E \ agenda' : f.type = "wake"
      BY <1>4
    <2>5. \A g, h \in handlers : g.call = h.call => (g \in handlers' <=> h \in handlers')
      BY <1>4
    <2>6. ASSUME NEW f \in E, f.type = "wake" PROVE f \in agenda' <=> \A h \in handlers \ handlers' : h.call # f.call
      <3>1. f \in agenda
        BY <2>6 DEF E
      <3>2. CASE ends
        <4>1. handlers \ handlers' = mine /\ (f \in agenda' <=> f \notin wakes)
          BY <1>4, <2>6, <3>2
        <4> QED
          BY <2>6, <3>1, <4>1
      <3>3. CASE ~ends
        BY <1>4, <2>6, <3>3
      <3> QED
        BY <3>2, <3>3
    <2>7. Books(flights, calls', answers, handlers', agenda', nextSeq)
      BY <1>2, <2>2, <2>3, <2>4, <2>5, <2>6, EndBooks
    <2>8. Passed(flights, calls', {})
      BY <1>0, <2>2, CallsAssumption DEF Passed
    <2>9. Fresh'
      <3> SUFFICES ASSUME NEW h \in handlers' PROVE h.generation = generation'[Target[h.call]]
        BY DEF Fresh
      <3>1. h \in handlers /\ h.call \in Calls /\ Target[h.call] \in Components /\ h.generation = generation[Target[h.call]]
        BY <1>0, <2>3, CallsAssumption DEF Fresh, Handler
      <3>2. ends => Target[h.call] # c
        BY <1>4, <3>1
      <3> QED
        BY <1>0, <1>4, <3>1, <3>2 DEF Processes
    <2>10. \A q \in Calls : CallMoves(q) /\ AnswerMoves(q)
      BY <1>0, <2>2 DEF CallMoves, AnswerMoves
    <2> QED
      BY <1>0, <1>4, <2>1, <2>7, <2>8, <2>9, <2>10 DEF Kept
  <1>5. (e.next # before) \in BOOLEAN
    OBVIOUS
  <1> QED
    BY <1>0, <1>3, <1>4, <1>5 DEF Lifecycle

LEMMA ControlKeeps == ASSUME IInv, NEW e \in agenda, now' = e.time, Control(e) PROVE Kept
  <1> DEFINE E == agenda \ {e}
  <1>0. /\ now' \in Nat /\ Take(e) = E /\ Processes /\ Passed(flights, calls, {}) /\ Fresh /\ e \in Event
        /\ Books(flights, calls, answers, handlers, agenda, nextSeq) /\ e.type = "control"
        /\ UNCHANGED <<flights, calls, answers, handlers, procVars>> /\ Boundary(FALSE)
        /\ agenda' = E \cup {LifecycleEvent(now', nextSeq, e.component, e.next)} /\ nextSeq' = nextSeq + 1
    BY EventInHand DEF Control
  <1>1. e.component \in Components /\ e.next \in ServiceState
    BY <1>0, EventFields
  <1>2. Books(flights, calls, answers, handlers, E, nextSeq)
    BY <1>0, TakeBooks
  <1> HIDE DEF E
  <1>3. Books(flights, calls, answers, handlers, E \cup {LifecycleEvent(now', nextSeq, e.component, e.next)}, nextSeq + 1)
    BY <1>0, <1>1, <1>2, ControlBooks
  <1>4. Fresh' /\ Processes'
    BY <1>0 DEF procVars, Fresh, Processes
  <1>5. \A q \in Calls : CallMoves(q) /\ AnswerMoves(q)
    BY <1>0 DEF CallMoves, AnswerMoves
  <1> QED
    BY <1>0, <1>3, <1>4, <1>5 DEF Kept

\* Every dispatch keeps the invariant and moves the calls as promised.
LEMMA NextKeeps == ASSUME IInv, Next PROVE IInv' /\ \A p \in Calls : CallMoves(p) /\ AnswerMoves(p)
  <1>1. PICK e \in agenda : Dispatch(e)
    BY DEF Next
  <1>2. Kept
    BY <1>1, StartKeeps, DeliverKeeps, EndpointKeeps, WakeKeeps, ReceiveKeeps, DeadlineKeeps, LifecycleKeeps, ControlKeeps
       DEF Dispatch
  <1>3. StatusKept' /\ status' \in {"RUNNING", "COMPLETED", "DEADLOCK", "FAILED"}
    BY <1>2, BoundaryKeeps DEF Kept, Next
  <1>4. now' \in Nat
    BY <1>1, EventInHand DEF Dispatch
  <1>5. TypeOK'
    BY <1>2, <1>3, <1>4 DEF Kept, Books, Typed, TypeOK, Processes
  <1>6. Books(flights, calls, answers, handlers, agenda, nextSeq)' /\ Passed(flights, calls, {})'
    BY <1>2 DEF Kept
  <1> QED
    BY <1>2, <1>3, <1>5, <1>6 DEF IInv, Kept

\* A script schedules its steps and nothing else.
LEMMA ScriptEventFields ==
    ASSUME NEW s \in Scripts, NEW i \in DOMAIN s
    PROVE  LET x == ScriptEvent(s[i], i - 1)
           IN  /\ x \in Event /\ x.type \in {"start", "lifecycle", "control"} /\ x.seq = i - 1
               /\ x.type = "start" => s[i].type = "start" /\ x.call = s[i].call /\ x.call \in FirstCalls /\ Upstream[x.call] = {}
  <1>1. s \in Seq(Step) /\ i \in 1 .. Len(s) /\ s[i] \in Step
    BY ScriptsAssumption
  <1>2. i - 1 \in Nat
    BY <1>1
  <1>3. CASE s[i].type = "start"
    <2>1. s[i].time \in Nat /\ s[i].call \in FirstCalls /\ Upstream[s[i].call] = {} /\ s[i].call \in Calls
      BY <1>1, <1>3, ScriptsAssumption DEF Step, FirstCalls
    <2>2. ScriptEvent(s[i], i - 1) = StartEvent(s[i].time, i - 1, s[i].call)
      BY <1>3 DEF ScriptEvent
    <2> QED
      BY <1>2, <1>3, <2>1, <2>2, StartFields
  <1>4. CASE s[i].type # "start"
    <2>1. s[i].type \in {"lifecycle", "control"} /\ s[i].time \in Nat /\ s[i].component \in Components /\ s[i].next \in ServiceState
      BY <1>1, <1>4 DEF Step
    <2>2. CASE s[i].type = "lifecycle"
      <3>1. ScriptEvent(s[i], i - 1) = LifecycleEvent(s[i].time, i - 1, s[i].component, s[i].next)
        BY <2>2 DEF ScriptEvent
      <3> QED
        BY <1>2, <2>1, <3>1, LifecycleFields
    <2>3. CASE s[i].type = "control"
      <3>1. ScriptEvent(s[i], i - 1) = ControlEvent(s[i].time, i - 1, s[i].component, s[i].next)
        BY <2>3 DEF ScriptEvent
      <3> QED
        BY <1>2, <2>1, <3>1, ControlFields
    <2> QED
      BY <2>1, <2>2, <2>3
  <1> QED
    BY <1>3, <1>4

LEMMA InitIInv == ASSUME Init PROVE IInv
  <1>1. PICK s \in Scripts : agenda = {ScriptEvent(s[i], i - 1) : i \in DOMAIN s} /\ nextSeq = Len(s)
    BY DEF Init
  <1>2. s \in Seq(Step) /\ DOMAIN s = 1 .. Len(s) /\ Len(s) \in Nat
    BY ScriptsAssumption
  <1>3. ASSUME NEW e \in agenda
        PROVE  /\ e \in Event /\ e.type \in {"start", "lifecycle", "control"} /\ e.seq < nextSeq
               /\ e.type = "start" => e.call \in FirstCalls /\ Upstream[e.call] = {}
               /\ \E i \in DOMAIN s : e = ScriptEvent(s[i], i - 1) /\ (e.type = "start" => s[i].type = "start" /\ e.call = s[i].call)
    <2>1. PICK i \in DOMAIN s : e = ScriptEvent(s[i], i - 1)
      BY <1>1
    <2>2. i - 1 < nextSeq
      BY <1>1, <1>2
    <2> QED
      BY <2>1, <2>2, ScriptEventFields
  <1>4. ASSUME NEW e \in agenda, NEW f \in agenda, e.type = "start", f.type = "start", e.call = f.call PROVE e = f
    <2>1. PICK i \in DOMAIN s : e = ScriptEvent(s[i], i - 1) /\ s[i].type = "start" /\ e.call = s[i].call
      BY <1>3, <1>4
    <2>2. PICK j \in DOMAIN s : f = ScriptEvent(s[j], j - 1) /\ s[j].type = "start" /\ f.call = s[j].call
      BY <1>3, <1>4
    <2>3. i = j
      BY <1>4, <2>1, <2>2, ScriptsAssumption
    <2> QED
      BY <2>1, <2>2, <2>3
  <1>5. /\ now = 0 /\ flights = [p \in Calls |-> NoFlight] /\ calls = [p \in Calls |-> "idle"] /\ answers = [p \in Calls |-> "none"]
        /\ handlers = {} /\ generation = [c \in Components |-> 0] /\ status = "RUNNING"
        /\ lifecycle = [c \in Components |-> IF c \in Clients THEN "RUNNING" ELSE "STARTING"]
    BY DEF Init
  <1>6. NoFlight \in Flight /\ NoFlight.state = "NONE" /\ ~NoFlight.replied /\ ~NoFlight.settled
    BY DEF NoFlight, Flight
  <1>7. agenda \subseteq Event /\ nextSeq \in Nat
    BY <1>1, <1>2, <1>3
  <1>8. FirstCalls \subseteq Calls
    BY DEF FirstCalls
  <1>9. Typed(flights, calls, answers, handlers, agenda, nextSeq)
    BY <1>5, <1>6, <1>7 DEF Typed, CallStatus
  <1>10. DeadlinesKept(flights, calls, agenda)
    BY <1>3, <1>5, <1>6 DEF DeadlinesKept
  <1>11. MadeOnce(flights, calls, agenda)
    BY <1>3, <1>4, <1>5, <1>6, <1>8, CallsAssumption DEF MadeOnce
  <1>12. AnswersKept(flights, answers, agenda, nextSeq)
    BY <1>3, <1>5, <1>6 DEF AnswersKept
  <1>13. OneToken(flights, calls, handlers, agenda)
    BY <1>3, <1>5 DEF OneToken, Inbound
  <1>14. ServedByOne(flights, calls, handlers, agenda)
    BY <1>5 DEF ServedByOne
  <1>15. WakesKept(handlers, agenda)
    BY <1>3, <1>5 DEF WakesKept
  <1>16. Passed(flights, calls, {}) /\ Fresh /\ StatusKept
    BY <1>5 DEF Passed, Fresh, StatusKept
  <1>17. TypeOK
    BY <1>5, <1>9 DEF Typed, TypeOK, ServiceState
  <1> QED
    BY <1>9, <1>10, <1>11, <1>12, <1>13, <1>14, <1>15, <1>16, <1>17 DEF IInv, Books

LEMMA NetworkInvariant == Spec => []IInv
  <1>1. Init => IInv
    BY InitIInv
  <1>2. IInv /\ [Next]_vars => IInv'
    <2>1. ASSUME IInv, UNCHANGED vars PROVE IInv'
      BY <2>1 DEF vars, procVars, IInv, TypeOK, Fresh, StatusKept
    <2> QED
      BY <2>1, NextKeeps
  <1> QED
    BY <1>1, <1>2, PTL DEF Spec

-----------------------------------------------------------------------------
(* What the invariant says                                                  *)

LEMMA BooksMatchWork == ASSUME IInv PROVE WorkMatches
  <1>0. /\ Typed(flights, calls, answers, handlers, agenda, nextSeq) /\ DeadlinesKept(flights, calls, agenda)
        /\ MadeOnce(flights, calls, agenda) /\ OneToken(flights, calls, handlers, agenda)
        /\ ServedByOne(flights, calls, handlers, agenda) /\ WakesKept(handlers, agenda)
        /\ Passed(flights, calls, {}) /\ Fresh /\ StatusKept /\ TypeOK
    BY DEF IInv, Books
  <1>1. DeadlinesMatch
    <2>1. \A p \in Calls : flights[p].state # "NONE" /\ ~flights[p].settled
             <=> \E e \in agenda : e.type = "deadline" /\ e.call = p /\ e.time = flights[p].deadline
      BY <1>0 DEF DeadlinesKept
    <2>2. \A p \in Calls : calls[p] = "waiting" => flights[p].state # "NONE" /\ ~flights[p].settled
      BY <1>0 DEF DeadlinesKept, MadeOnce
    <2> QED
      BY <1>0, <2>1, <2>2 DEF DeadlinesKept, DeadlinesMatch
  <1>2. ASSUME NEW u \in Calls
        PROVE  /\ \A x, y \in WorkFor(u) : x = y
               /\ WorkFor(u) # {} => flights[u].state \notin {"NONE", "SENT"} /\ ~flights[u].replied
    <2> DEFINE inbound == {e \in agenda : e.type = "endpoint" /\ e.call = u}
               asleep == {h \in handlers : h.call = u}
               waits == {p \in Calls : calls[p] = "waiting" /\ u \in Upstream[p]}
    <2>1. WorkFor(u) = inbound \cup asleep \cup waits
      BY DEF WorkFor
    <2>2. \A x, y \in inbound : x = y
      BY <1>0 DEF OneToken, Inbound
    <2>3. \A x, y \in asleep : x = y
      BY <1>0 DEF OneToken
    <2>4. \A x, y \in waits : x = y
      <3> SUFFICES ASSUME NEW x \in waits, NEW y \in waits PROVE x = y
        OBVIOUS
      <3>1. Upstream[x] \cap Upstream[y] # {}
        OBVIOUS
      <3> QED
        BY <1>0, <3>1 DEF ServedByOne
    <2>5. inbound # {} => asleep = {} /\ waits = {}
      BY <1>0 DEF OneToken, ServedByOne, Inbound
    <2>6. asleep # {} => waits = {}
      BY <1>0 DEF ServedByOne
    <2>7. inbound # {} \/ asleep # {} \/ waits # {} => flights[u].state \notin {"NONE", "SENT"} /\ ~flights[u].replied
      BY <1>0 DEF OneToken, ServedByOne
    <2> HIDE DEF inbound, asleep, waits
    <2> QED
      BY <2>1, <2>2, <2>3, <2>4, <2>5, <2>6, <2>7
  <1>3. NoZombieWork
    BY <1>0 DEF Fresh, WakesKept, NoZombieWork
  <1>4. Quiescent
    <2>1. ASSUME status = "COMPLETED", NEW p \in Calls, flights[p].state # "NONE" PROVE flights[p].settled
      BY <1>0, <2>1 DEF StatusKept, DeadlinesKept
    <2>2. ASSUME NEW p \in Calls, calls[p] \in {"ok", "error"} \/ (calls[p] = "timeout" /\ Retry[p] = {}), NEW u \in Upstream[p]
          PROVE  flights[u].replied
      BY <1>0, <2>2 DEF Passed
    <2> QED
      BY <1>0, <2>1, <2>2 DEF StatusKept, Quiescent
  <1>5. OneTaskPerRequest
    BY <1>2 DEF OneTaskPerRequest
  <1> QED
    BY <1>0, <1>1, <1>3, <1>4, <1>5 DEF WorkMatches

\* Deadlines, tasks, wakes and answers agree with the flights for any calls,
\* policies, faults and scripts, whatever is lost, retried, handled or
\* crashes, and no run ends with a task left waiting.
THEOREM WorkAgrees == Spec => []WorkMatches
  BY BooksMatchWork, NetworkInvariant, PTL

LEMMA InitRemote == ASSUME Init PROVE Remote!Init
  BY DEF Init, Remote!Init

LEMMA MovesRemote ==
    ASSUME IInv, IInv', \A p \in Calls : CallMoves(p) /\ AnswerMoves(p)
    PROVE  Remote!Next
  <1>1. calls \in [Calls -> CallStatus] /\ calls' \in [Calls -> CallStatus]
        /\ answers' \in [Calls -> {"none", "ok", "error"}]
    BY DEF IInv, TypeOK
  <1>2. calls' \in [Calls -> Remote!Final \cup {"idle", "waiting"}]
    BY <1>1 DEF CallStatus, Remote!Final
  <1>3. ASSUME NEW p \in Calls PROVE Remote!Step(p)
    <2>1. calls'[p] = calls[p] \/ Remote!Begin(p) \/ Remote!Return(p) \/ Remote!Expire(p)
      BY DEF CallMoves, Remote!Begin, Remote!Return, Remote!Expire
    <2>2. answers'[p] = answers[p] \/ Remote!Answer(p)
      BY <1>1 DEF AnswerMoves, Remote!Answer, Remote!Final, CallStatus
    <2> QED
      BY <2>1, <2>2 DEF Remote!Step
  <1> QED
    BY <1>1, <1>2, <1>3 DEF Remote!Next

\* Every call has one outcome for any calls, policies, faults and scripts:
\* the answer the target gave, once and strictly before the deadline, or a
\* timeout exactly at it, or the end of the caller.
THEOREM CallsReturnOnce == Spec => ImplementsRemoteCall
  <1> DEFINE InTimeStep == \A p \in Calls : calls[p] = "waiting" =>
                /\ calls'[p] \in {"ok", "error"} => now' < flights[p].deadline
                /\ calls'[p] = "timeout" => now' = flights[p].deadline
  <1>1. Init => Remote!Init
    BY InitRemote
  <1>2. IInv /\ IInv' /\ [Next]_vars => [Remote!Next]_<<calls, answers>>
    <2>1. IInv /\ IInv' /\ Next => Remote!Next
      BY NextKeeps, MovesRemote
    <2>2. UNCHANGED vars => UNCHANGED <<calls, answers>>
      BY DEF vars
    <2> QED
      BY <2>1, <2>2
  <1>3. IInv /\ [Next]_vars => [InTimeStep]_vars
    <2>1. IInv /\ Next => InTimeStep
      BY NextKeeps DEF CallMoves
    <2> QED
      BY <2>1
  <1>4. Spec => Remote!Spec
    BY <1>1, <1>2, NetworkInvariant, PTL DEF Spec, Remote!Spec
  <1>5. Spec => AnswerBeforeDeadline
    BY <1>3, NetworkInvariant, PTL DEF Spec, AnswerBeforeDeadline
  <1> QED
    BY <1>4, <1>5 DEF ImplementsRemoteCall

=============================================================================
