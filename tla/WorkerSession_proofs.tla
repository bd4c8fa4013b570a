------------------------- MODULE WorkerSession_proofs -------------------------
(***************************************************************************)
(* Host, queues, adapter and simulation agree for any simulations, budgets *)
(* and number of calls.  The argument has three parts.  A request is in    *)
(* one place until its last event is sent, and nothing is sent for it      *)
(* afterwards (Ledger).  What the host shows once it has read all that is  *)
(* on its way is where the simulation is (Screen): the events are read in  *)
(* order, so that is a sequence of what is shown.  And while a load is     *)
(* pending nothing else is (Stages).  Worked says this of a host that      *)
(* waits for P and shows d, with C and E in its two queues, the            *)
(* simulations S, the runs R and the pauses W, and a lemma per task says   *)
(* that the task keeps it.                                                 *)
(***************************************************************************)
EXTENDS WorkerSession, FiniteSetTheorems, SequenceTheorems, TLAPS

Types      == {"load", "run", "pause", "step", "reset"}
Codes      == {"none", "WORKER_UNAVAILABLE", "INVALID_SCENARIO", "INVALID_WORKER_COMMAND", "SIMULATION_FAILED"}
EventTypes == {"loaded", "projection.updated", "run.finished", "error"}
Request    == [id : Nat, type : Types]
Projection == [status : Statuses, processed : 0..MaxEvents]
Event      == [id : Nat, type : EventTypes, projection : Projection, code : Codes]

\* A simulation that has not run beyond its end.
Live(s) == s \in Simulation /\ s.processed <= s.program.length

Single(S) == \A x, y \in S : x = y

\* The requests that the worker has still to answer.
Open(C, R, W) == {C[i].id : i \in 1..Len(C)} \cup {r.id : r \in R} \cup {W[i] : i \in 1..Len(W)}

Ids(W) == {W[i] : i \in 1..Len(W)}

\* An equality of sets that is used as it stands.
Same(S, T) == S = T

\* Each of them is pending, and in one place.
Placed(P, C, R, W) ==
    /\ \A i \in 1..Len(C) : [id |-> C[i].id, type |-> C[i].type] \in P
    /\ \A r \in R : [id |-> r.id, type |-> "run"] \in P
    /\ \A i \in 1..Len(W) : [id |-> W[i], type |-> "pause"] \in P
    /\ \A i, j \in 1..Len(C) : C[i].id = C[j].id => i = j
    /\ \A i, j \in 1..Len(W) : W[i] = W[j] => i = j
    /\ \A r \in R : r.id \notin Open(C, {}, W)
    /\ \A i \in 1..Len(C) : C[i].id \notin Open(<<>>, {}, W)

\* e is the last event of p.
Last(p, e) == e.id = p.id /\ (e.type = "error" \/ Settles(p, e))

\* O holds the requests of P that are open, E the events on their way.
Ledger(P, O, E) ==
    /\ \A p, q \in P : p.id = q.id => p = q
    /\ \A i \in 1..Len(E) : \E p \in P : p.id = E[i].id
    /\ \A p \in P, i \in 1..Len(E) : Last(p, E[i]) => p.id \notin O /\ \A j \in (i + 1)..Len(E) : E[j].id # p.id
    /\ \A p \in P : p.id \in O \/ \E i \in 1..Len(E) : Last(p, E[i])

\* The event e is not ignored by a host that shows d.
Heard(P, d, e) ==
    \A p \in P : p.id = e.id =>
        /\ p.type = "load" => e.type \in {"loaded", "error"}
        /\ e.type = "loaded" => p.type = "load"
        /\ e.type = "run.finished" => p.type = "run"
        /\ e.type = "projection.updated" => d # {} \/ p.type = "reset"

\* What it shows then.
Seen(d, e) ==
    CASE e.type \in {"loaded", "projection.updated"} -> {e.projection}
      [] e.type = "run.finished" -> d
      [] OTHER -> IF e.code = "SIMULATION_FAILED" /\ ~\E x \in d : x.status = "FAILED" THEN {} ELSE d

\* A host that shows d hears the events E and shows f after them.
Chain(P, d, E, f) ==
    \E D \in [1..(Len(E) + 1) -> SUBSET Projection] :
        /\ D[1] = d /\ D[Len(E) + 1] = f
        /\ \A i \in 1..Len(E) : Heard(P, D[i], E[i]) /\ D[i + 1] = Seen(D[i], E[i])

\* f is what should be shown of s.
Shows(f, s) ==
    IF s.status = "RUNNING" THEN f # {} /\ \A x \in f : x.status # "FAILED"
    ELSE f = {Projected(s)} \/ (f = {} /\ s.status = "FAILED" /\ s.program.withheld)

Screen(P, d, E, S) == \E f \in SUBSET Projection : Chain(P, d, E, f) /\ \A s \in S : Shows(f, s)

Stages ==
    /\ ~worker => /\ pending = {} /\ commands = <<>> /\ events = <<>>
                  /\ session = {} /\ running = {} /\ pausing = <<>>
    /\ worker /\ session = {} => \E p \in pending : p.type = "load"
    /\ \A p \in pending : p.type = "load" =>
          /\ pending = {p} /\ projection = {} /\ error # "SIMULATION_FAILED"
          /\ \A i \in 1..Len(events) : events[i].type = "loaded" => session # {}

\* A run is alone with its simulation.
Alone(S, R, W) ==
    /\ \A r \in R : \E s \in S : s.status = "RUNNING" /\ s.processed >= r.count
    /\ \A s \in S : s.status = "RUNNING" => R # {}
    /\ R = {} => W = <<>>

\* The worker and the queues, for a host that waits for P and shows d.
Worked(P, d, C, E, S, R, W) ==
    /\ C \in Seq(Command) /\ E \in Seq(Event) /\ W \in Seq(Nat)
    /\ (\A s \in S : Live(s)) /\ Single(S)
    /\ R \subseteq Run /\ Single(R)
    /\ Placed(P, C, R, W)
    /\ Ledger(P, Open(C, R, W), E)
    /\ Screen(P, d, E, S)
    /\ Alone(S, R, W)

HostTyped ==
    /\ worker \in BOOLEAN /\ loading \in BOOLEAN /\ calls \in 0..MaxCalls
    /\ pending \subseteq Request /\ \A p \in pending : p.id \in 1..calls
    /\ projection \subseteq Projection /\ Single(projection)
    /\ error \in Codes

IInv ==
    /\ HostTyped
    /\ Worked(pending, projection, commands, events, session, running, pausing)
    /\ Stages

-----------------------------------------------------------------------------
(* Sequences of events                                                      *)

LEMMA AppendAll ==
    ASSUME NEW S, NEW E \in Seq(S), NEW A \in Seq(S)
    PROVE  /\ E \o A \in Seq(S) /\ Len(E \o A) = Len(E) + Len(A)
           /\ \A i \in 1..Len(E) : (E \o A)[i] = E[i]
           /\ \A i \in 1..Len(A) : (E \o A)[Len(E) + i] = A[i]
           /\ \A i \in 1..Len(E \o A) : i \in 1..Len(E) \/ i - Len(E) \in 1..Len(A)
  OBVIOUS

LEMMA TakeFirst ==
    ASSUME NEW S, NEW E \in Seq(S), E # <<>>
    PROVE  /\ Head(E) = E[1] /\ Head(E) \in S /\ 1 \in 1..Len(E)
           /\ Tail(E) \in Seq(S) /\ Len(Tail(E)) = Len(E) - 1
           /\ \A i \in 1..Len(Tail(E)) : Tail(E)[i] = E[i + 1] /\ i + 1 \in 1..Len(E)
           /\ \A i \in 2..Len(E) : i - 1 \in 1..Len(Tail(E)) /\ Tail(E)[i - 1] = E[i]
  OBVIOUS

LEMMA OfLength == ASSUME NEW S, NEW n \in Nat, NEW A \in [1..n -> S] PROVE A \in Seq(S) /\ Len(A) = n
  OBVIOUS

-----------------------------------------------------------------------------
(* The ledger                                                               *)

\* The events A are sent for requests of O, and those of O that are left are
\* Rest: the others have their last event among A.
Answers(P, O, A, Rest) ==
    /\ \A i \in 1..Len(A) : A[i].id \in O
    /\ \A p \in P, i \in 1..Len(A) : Last(p, A[i]) => p.id \notin Rest /\ \A j \in (i + 1)..Len(A) : A[j].id # p.id
    /\ \A p \in P : p.id \in O \ Rest => \E i \in 1..Len(A) : Last(p, A[i])

LEMMA LedgerAnswers ==
    ASSUME NEW P, NEW O, NEW Rest, NEW E \in Seq(Event), NEW A \in Seq(Event),
           Ledger(P, O, E), Answers(P, O, A, Rest), Rest \subseteq O, O \subseteq {p.id : p \in P}
    PROVE  Ledger(P, Rest, E \o A)
  <1> DEFINE N == E \o A
  <1>1. /\ Len(N) = Len(E) + Len(A) /\ Len(E) \in Nat /\ Len(A) \in Nat
        /\ \A i \in 1..Len(E) : N[i] = E[i]
        /\ \A i \in 1..Len(A) : N[Len(E) + i] = A[i]
        /\ \A i \in 1..Len(N) : i \in 1..Len(E) \/ i - Len(E) \in 1..Len(A)
    BY AppendAll
  <1>2. \A i \in 1..Len(N) : i \notin 1..Len(E) => N[i] = A[i - Len(E)]
    <2>1. TAKE i \in 1..Len(N)
    <2>2. HAVE i \notin 1..Len(E)
    <2>3. i - Len(E) \in 1..Len(A) /\ Len(E) + (i - Len(E)) = i
      BY <1>1, <2>2
    <2> QED
      BY <1>1, <2>3
  <1> HIDE DEF N
  <1>3. \A i \in 1..Len(N) : \E p \in P : p.id = N[i].id
    <2>1. SUFFICES ASSUME NEW i \in 1..Len(N) PROVE \E p \in P : p.id = N[i].id
      OBVIOUS
    <2>2. CASE i \in 1..Len(E)
      BY <1>1, <2>2 DEF Ledger
    <2>3. CASE i \notin 1..Len(E)
      <3>1. i - Len(E) \in 1..Len(A) /\ N[i] = A[i - Len(E)]
        BY <1>1, <1>2, <2>3
      <3>2. N[i].id \in O
        BY <3>1 DEF Answers
      <3> QED
        BY <3>2
    <2> QED
      BY <2>2, <2>3
  <1>4. ASSUME NEW p \in P, NEW i \in 1..Len(N), Last(p, N[i])
        PROVE  p.id \notin Rest /\ \A j \in (i + 1)..Len(N) : N[j].id # p.id
    <2>1. CASE i \in 1..Len(E)
      <3>1. p.id \notin O /\ \A j \in (i + 1)..Len(E) : E[j].id # p.id
        BY <1>1, <1>4, <2>1 DEF Ledger
      <3>2. ASSUME NEW j \in (i + 1)..Len(N) PROVE N[j].id # p.id
        <4>1. CASE j \in 1..Len(E)
          BY <1>1, <3>1, <4>1
        <4>2. CASE j \notin 1..Len(E)
          <5>1. j \in 1..Len(N)
            OBVIOUS
          <5>2. j - Len(E) \in 1..Len(A) /\ N[j] = A[j - Len(E)]
            BY <1>1, <1>2, <4>2, <5>1
          <5> QED
            BY <3>1, <5>2 DEF Answers
        <4> QED
          BY <4>1, <4>2
      <3> QED
        BY <3>1, <3>2
    <2>2. CASE i \notin 1..Len(E)
      <3>1. i - Len(E) \in 1..Len(A) /\ N[i] = A[i - Len(E)]
        BY <1>1, <1>2, <2>2
      <3>2. p.id \notin Rest /\ \A j \in (i - Len(E) + 1)..Len(A) : A[j].id # p.id
        BY <1>4, <3>1 DEF Answers
      <3>3. ASSUME NEW j \in (i + 1)..Len(N) PROVE N[j].id # p.id
        <4>1. j \in 1..Len(N) /\ j \notin 1..Len(E) /\ j - Len(E) \in (i - Len(E) + 1)..Len(A)
          BY <1>1, <2>2
        <4>2. N[j] = A[j - Len(E)]
          BY <1>2, <4>1
        <4> QED
          BY <3>2, <4>1, <4>2
      <3> QED
        BY <3>2, <3>3
    <2> QED
      BY <2>1, <2>2
  <1>5. ASSUME NEW p \in P PROVE p.id \in Rest \/ \E i \in 1..Len(N) : Last(p, N[i])
    <2>1. CASE \E i \in 1..Len(E) : Last(p, E[i])
      BY <1>1, <2>1
    <2>2. CASE p.id \in O \ Rest
      <3>1. PICK i \in 1..Len(A) : Last(p, A[i])
        BY <2>2 DEF Answers
      <3>2. Len(E) + i \in 1..Len(N) /\ N[Len(E) + i] = A[i]
        BY <1>1
      <3> QED
        BY <3>1, <3>2
    <2> QED
      BY <2>1, <2>2 DEF Ledger
  <1>6. \A p, q \in P : p.id = q.id => p = q
    BY DEF Ledger
  <1> QED
    BY <1>3, <1>4, <1>5, <1>6 DEF Ledger, N

\* An event that the host has read.
LEMMA LedgerRead ==
    ASSUME NEW P, NEW O, NEW E \in Seq(Event), Ledger(P, O, E), E # <<>>, NEW p \in P, p.id = Head(E).id
    PROVE  /\ Last(p, Head(E)) => Ledger(P \ {p}, O, Tail(E)) /\ p.id \notin O
           /\ ~Last(p, Head(E)) => Ledger(P, O, Tail(E))
  <1> DEFINE N == Tail(E)
  <1>1. /\ Head(E) = E[1] /\ 1 \in 1..Len(E) /\ Len(E) \in Nat
        /\ Len(N) = Len(E) - 1
        /\ \A i \in 1..Len(N) : N[i] = E[i + 1] /\ i + 1 \in 1..Len(E)
        /\ \A i \in 2..Len(E) : i - 1 \in 1..Len(N) /\ N[i - 1] = E[i]
    BY TakeFirst
  <1> HIDE DEF N
  <1>2. ASSUME NEW q \in P, NEW i \in 1..Len(N), Last(q, N[i])
        PROVE  q.id \notin O /\ \A j \in (i + 1)..Len(N) : N[j].id # q.id
    <2>1. q.id \notin O /\ \A j \in (i + 1 + 1)..Len(E) : E[j].id # q.id
      BY <1>1, <1>2 DEF Ledger
    <2>2. ASSUME NEW j \in (i + 1)..Len(N) PROVE N[j].id # q.id
      <3>1. j \in 1..Len(N) /\ j + 1 \in (i + 1 + 1)..Len(E)
        BY <1>1
      <3> QED
        BY <1>1, <2>1, <3>1
    <2> QED
      BY <2>1, <2>2
  <1>3. ASSUME NEW q \in P, q # p \/ ~Last(p, Head(E)) PROVE q.id \in O \/ \E i \in 1..Len(N) : Last(q, N[i])
    <2>1. CASE q.id \notin O
      <3>1. PICK i \in 1..Len(E) : Last(q, E[i])
        BY <2>1 DEF Ledger
      <3>2. i # 1
        <4>1. CASE i = 1
          <5>1. q.id = p.id
            BY <1>1, <3>1, <4>1 DEF Last
          <5>2. q = p
            BY <5>1 DEF Ledger
          <5> QED
            BY <1>1, <1>3, <3>1, <4>1, <5>2
        <4> QED
          BY <4>1
      <3>3. i \in 2..Len(E)
        BY <1>1, <3>2
      <3>4. i - 1 \in 1..Len(N) /\ N[i - 1] = E[i]
        BY <1>1, <3>3
      <3> QED
        BY <3>1, <3>4
    <2> QED
      BY <2>1
  <1>4. \A q, r \in P : q.id = r.id => q = r
    BY DEF Ledger
  <1>5. \A i \in 1..Len(N) : \E q \in P : q.id = N[i].id
    BY <1>1 DEF Ledger
  <1>6. ASSUME Last(p, Head(E)) PROVE Ledger(P \ {p}, O, N) /\ p.id \notin O
    <2>1. p.id \notin O /\ \A j \in (1 + 1)..Len(E) : E[j].id # p.id
      BY <1>1, <1>6 DEF Ledger
    <2>2. \A i \in 1..Len(N) : N[i].id # p.id
      <3>1. \A i \in 1..Len(N) : i + 1 \in 2..Len(E)
        BY <1>1
      <3> QED
        BY <1>1, <2>1, <3>1
    <2>3. \A i \in 1..Len(N) : \E q \in P \ {p} : q.id = N[i].id
      BY <1>5, <2>2
    <2> QED
      BY <1>2, <1>3, <1>4, <2>1, <2>3 DEF Ledger
  <1>7. ASSUME ~Last(p, Head(E)) PROVE Ledger(P, O, N)
    BY <1>2, <1>3, <1>4, <1>5, <1>7 DEF Ledger
  <1> QED
    BY <1>6, <1>7 DEF N

\* A new request.
LEMMA LedgerAsks ==
    ASSUME NEW P, NEW O, NEW E \in Seq(Event), Ledger(P, O, E), NEW p, \A q \in P : q.id # p.id
    PROVE  Ledger(P \cup {p}, O \cup {p.id}, E)
  <1>1. \A i \in 1..Len(E) : E[i].id # p.id
    BY DEF Ledger
  <1>2. \A q \in P : q.id \notin O => q.id \notin O \cup {p.id}
    OBVIOUS
  <1>3. \A i \in 1..Len(E) : ~Last(p, E[i])
    BY <1>1 DEF Last
  <1> QED
    BY <1>1, <1>2, <1>3 DEF Ledger

-----------------------------------------------------------------------------
(* What the host shows                                                      *)

LEMMA SeenTyped == ASSUME NEW d \in SUBSET Projection, NEW e \in Event PROVE Seen(d, e) \in SUBSET Projection
  BY DEF Seen, Event

LEMMA ChainNone == ASSUME NEW P, NEW d \in SUBSET Projection PROVE Chain(P, d, <<>>, d)
  <1> DEFINE D == [i \in 1..1 |-> d]
  <1>1. D \in [1..(Len(<<>>) + 1) -> SUBSET Projection] /\ D[1] = d /\ D[Len(<<>>) + 1] = d
    OBVIOUS
  <1>2. \A i \in 1..Len(<<>>) : Heard(P, D[i], <<>>[i]) /\ D[i + 1] = Seen(D[i], <<>>[i])
    OBVIOUS
  <1> HIDE DEF D
  <1> QED
    BY <1>1, <1>2 DEF Chain

LEMMA ChainMore ==
    ASSUME NEW P, NEW d, NEW f, NEW E \in Seq(Event), NEW e \in Event, Chain(P, d, E, f), Heard(P, f, e)
    PROVE  Chain(P, d, Append(E, e), Seen(f, e))
  <1>1. PICK D \in [1..(Len(E) + 1) -> SUBSET Projection] :
            /\ D[1] = d /\ D[Len(E) + 1] = f
            /\ \A i \in 1..Len(E) : Heard(P, D[i], E[i]) /\ D[i + 1] = Seen(D[i], E[i])
    BY DEF Chain
  <1> DEFINE N == Append(E, e)
             K == [i \in 1..(Len(N) + 1) |-> IF i = Len(N) + 1 THEN Seen(f, e) ELSE D[i]]
  <1>2. Len(E) \in Nat /\ Len(N) = Len(E) + 1 /\ N[Len(E) + 1] = e /\ \A i \in 1..Len(E) : N[i] = E[i]
    OBVIOUS
  <1>3. f \in SUBSET Projection
    BY <1>1, <1>2
  <1>4. Seen(f, e) \in SUBSET Projection
    BY <1>3, SeenTyped
  <1> HIDE DEF N
  <1>5. K \in [1..(Len(N) + 1) -> SUBSET Projection]
    BY <1>1, <1>2, <1>4
  <1>6. K[1] = d /\ K[Len(N) + 1] = Seen(f, e) /\ K[Len(E) + 1] = f /\ \A i \in 1..(Len(E) + 1) : K[i] = D[i]
    BY <1>1, <1>2
  <1> HIDE DEF K
  <1>7. ASSUME NEW i \in 1..Len(N) PROVE Heard(P, K[i], N[i]) /\ K[i + 1] = Seen(K[i], N[i])
    <2>1. CASE i = Len(E) + 1
      BY <1>2, <1>6, <2>1
    <2>2. CASE i # Len(E) + 1
      <3>1. i \in 1..Len(E) /\ i \in 1..(Len(E) + 1) /\ i + 1 \in 1..(Len(E) + 1)
        BY <1>2, <2>2
      <3>2. K[i] = D[i] /\ K[i + 1] = D[i + 1] /\ N[i] = E[i]
        BY <1>2, <1>6, <3>1
      <3> QED
        BY <1>1, <3>1, <3>2
    <2> QED
      BY <2>1, <2>2
  <1> QED
    BY <1>5, <1>6, <1>7 DEF Chain, N

\* Events that leave a host as it is.
LEMMA ChainSame ==
    ASSUME NEW P, NEW d, NEW f \in SUBSET Projection, NEW E \in Seq(Event), NEW A \in Seq(Event), Chain(P, d, E, f),
           \A i \in 1..Len(A) : Heard(P, f, A[i]) /\ Seen(f, A[i]) = f
    PROVE  Chain(P, d, E \o A, f)
  <1>1. PICK D \in [1..(Len(E) + 1) -> SUBSET Projection] :
            /\ D[1] = d /\ D[Len(E) + 1] = f
            /\ \A i \in 1..Len(E) : Heard(P, D[i], E[i]) /\ D[i + 1] = Seen(D[i], E[i])
    BY DEF Chain
  <1> DEFINE N == E \o A
             K == [i \in 1..(Len(N) + 1) |-> IF i > Len(E) THEN f ELSE D[i]]
  <1>2. /\ Len(N) = Len(E) + Len(A) /\ Len(E) \in Nat /\ Len(A) \in Nat
        /\ \A i \in 1..Len(E) : N[i] = E[i]
        /\ \A i \in 1..Len(A) : N[Len(E) + i] = A[i]
    BY AppendAll
  <1> HIDE DEF N
  <1>3. K \in [1..(Len(N) + 1) -> SUBSET Projection]
    BY <1>1, <1>2
  <1>4. /\ K[1] = d /\ K[Len(N) + 1] = f
        /\ \A i \in 1..(Len(E) + 1) : K[i] = D[i]
        /\ \A i \in (Len(E) + 1)..(Len(N) + 1) : K[i] = f
    BY <1>1, <1>2
  <1> HIDE DEF K
  <1>5. ASSUME NEW i \in 1..Len(N) PROVE Heard(P, K[i], N[i]) /\ K[i + 1] = Seen(K[i], N[i])
    <2>1. CASE i > Len(E)
      <3>1. i - Len(E) \in 1..Len(A) /\ Len(E) + (i - Len(E)) = i
        BY <1>2, <2>1
      <3>2. N[i] = A[i - Len(E)]
        BY <1>2, <3>1
      <3>3. i \in (Len(E) + 1)..(Len(N) + 1) /\ i + 1 \in (Len(E) + 1)..(Len(N) + 1)
        BY <1>2, <2>1
      <3>4. K[i] = f /\ K[i + 1] = f
        BY <1>4, <3>3
      <3> QED
        BY <3>1, <3>2, <3>4
    <2>2. CASE ~(i > Len(E))
      <3>1. i \in 1..Len(E) /\ i \in 1..(Len(E) + 1) /\ i + 1 \in 1..(Len(E) + 1)
        BY <1>2, <2>2
      <3>2. K[i] = D[i] /\ K[i + 1] = D[i + 1] /\ N[i] = E[i]
        BY <1>2, <1>4, <3>1
      <3> QED
        BY <1>1, <3>1, <3>2
    <2> QED
      BY <2>1, <2>2
  <1> QED
    BY <1>3, <1>4, <1>5 DEF Chain, N

\* The host reads the first event.
LEMMA ChainRead ==
    ASSUME NEW P, NEW d, NEW f, NEW E \in Seq(Event), E # <<>>, Chain(P, d, E, f)
    PROVE  Heard(P, d, Head(E)) /\ Chain(P, Seen(d, Head(E)), Tail(E), f)
  <1>1. PICK D \in [1..(Len(E) + 1) -> SUBSET Projection] :
            /\ D[1] = d /\ D[Len(E) + 1] = f
            /\ \A i \in 1..Len(E) : Heard(P, D[i], E[i]) /\ D[i + 1] = Seen(D[i], E[i])
    BY DEF Chain
  <1> DEFINE N == Tail(E)
             K == [i \in 1..(Len(N) + 1) |-> D[i + 1]]
  <1>2. /\ Head(E) = E[1] /\ 1 \in 1..Len(E) /\ Len(E) \in Nat
        /\ Len(N) = Len(E) - 1
        /\ \A i \in 1..Len(N) : N[i] = E[i + 1] /\ i + 1 \in 1..Len(E)
    BY TakeFirst
  <1> HIDE DEF N
  <1>3. K \in [1..(Len(N) + 1) -> SUBSET Projection]
    BY <1>1, <1>2
  <1>4. K[1] = Seen(d, Head(E)) /\ K[Len(N) + 1] = f /\ \A i \in 1..(Len(N) + 1) : K[i] = D[i + 1]
    BY <1>1, <1>2
  <1> HIDE DEF K
  <1>5. ASSUME NEW i \in 1..Len(N) PROVE Heard(P, K[i], N[i]) /\ K[i + 1] = Seen(K[i], N[i])
    <2>1. i \in 1..(Len(N) + 1) /\ i + 1 \in 1..(Len(N) + 1)
      BY <1>2
    <2>2. K[i] = D[i + 1] /\ K[i + 1] = D[(i + 1) + 1] /\ N[i] = E[i + 1] /\ i + 1 \in 1..Len(E)
      BY <1>2, <1>4, <2>1
    <2> QED
      BY <1>1, <2>2
  <1>6. Chain(P, Seen(d, Head(E)), N, f)
    BY <1>3, <1>4, <1>5 DEF Chain
  <1>7. Heard(P, d, Head(E))
    BY <1>1, <1>2
  <1> QED
    BY <1>6, <1>7 DEF N

\* Requests that no event is for, and requests that are settled.
LEMMA ChainPending ==
    ASSUME NEW P, NEW Q, NEW d, NEW f, NEW E \in Seq(Event), Chain(P, d, E, f),
           \A q \in Q : q \in P \/ \A i \in 1..Len(E) : E[i].id # q.id
    PROVE  Chain(Q, d, E, f)
  <1>1. PICK D \in [1..(Len(E) + 1) -> SUBSET Projection] :
            /\ D[1] = d /\ D[Len(E) + 1] = f
            /\ \A i \in 1..Len(E) : Heard(P, D[i], E[i]) /\ D[i + 1] = Seen(D[i], E[i])
    BY DEF Chain
  <1>2. \A i \in 1..Len(E) : Heard(Q, D[i], E[i])
    BY <1>1 DEF Heard
  <1> QED
    BY <1>1, <1>2 DEF Chain

-----------------------------------------------------------------------------
(* Events and simulations                                                   *)

LEMMA EventFields ==
    ASSUME NEW x \in Nat, NEW s, Live(s), NEW code \in Codes
    PROVE  /\ Projected(s) \in Projection /\ Projected(s).status = s.status
           /\ Updated(x, s) \in Event /\ Updated(x, s).id = x /\ Updated(x, s).type = "projection.updated"
           /\ Updated(x, s).projection = Projected(s)
           /\ Loaded(x, s) \in Event /\ Loaded(x, s).id = x /\ Loaded(x, s).type = "loaded"
           /\ Loaded(x, s).projection = Projected(s)
           /\ Finished(x, s) \in Event /\ Finished(x, s).id = x /\ Finished(x, s).type = "run.finished"
           /\ Failure(x, code) \in Event /\ Failure(x, code).id = x /\ Failure(x, code).type = "error"
           /\ Failure(x, code).code = code
  <1>1. Projected(s) \in Projection /\ Projected(s).status = s.status
    BY DEF Live, Simulation, Projected, Projection
  <1>2. [status |-> "READY", processed |-> 0] \in Projection /\ "none" \in Codes
    BY SessionAssumption DEF Projection, Statuses, Codes
  <1> QED
    BY <1>1, <1>2 DEF Updated, Loaded, Finished, Failure, Event, EventTypes

LEMMA FinishedFields ==
    ASSUME NEW x \in Nat, NEW s, Live(s)
    PROVE  /\ Updated(x, s) \in Event
           /\ Finished(x, s) \in Event /\ Finished(x, s).id = x /\ Finished(x, s).type = "run.finished"
  <1>1. "none" \in Codes
    BY DEF Codes
  <1> QED
    BY <1>1, EventFields

LEMMA FailureFields ==
    ASSUME NEW x \in Nat, NEW code \in Codes
    PROVE  Failure(x, code) \in Event /\ Failure(x, code).id = x /\ Failure(x, code).type = "error" /\ Failure(x, code).code = code
  <1>1. [status |-> "READY", processed |-> 0] \in Projection
    BY SessionAssumption DEF Projection, Statuses
  <1> QED
    BY <1>1 DEF Failure, Event, EventTypes

LEMMA SimulationFields ==
    ASSUME NEW s, Live(s)
    PROVE  /\ s \in Simulation /\ s.program \in Program /\ s.status \in Statuses /\ s.pause \in BOOLEAN
           /\ s.processed \in 0..MaxEvents /\ s.program.length \in 0..MaxEvents /\ s.program.fails \in 0..MaxEvents
           /\ s.processed <= s.program.length /\ s.program.withheld \in BOOLEAN
  BY DEF Live, Simulation, Program

LEMMA FreshLive == ASSUME NEW p \in Program PROVE Live(Fresh(p)) /\ Fresh(p).status = "READY"
  <1>1. p.length \in 0..MaxEvents
    BY DEF Program
  <1> QED
    BY <1>1, SessionAssumption DEF Live, Fresh, Simulation, Statuses

LEMMA AfterLive ==
    ASSUME NEW s, Live(s), NEW n \in Nat, n <= s.program.length
    PROVE  /\ Live(After(s, n)) /\ After(s, n).processed = n /\ After(s, n).program = s.program
           /\ After(s, n).status \in {"FAILED", "COMPLETED", s.status}
  <1> DEFINE status == IF n = s.program.fails THEN "FAILED" ELSE IF n = s.program.length THEN "COMPLETED" ELSE s.status
  <1>1. status \in {"FAILED", "COMPLETED", s.status} /\ status \in Statuses
    BY SimulationFields DEF Statuses
  <1>2. After(s, n) = [s EXCEPT !.processed = n, !.status = status]
    BY SimulationFields DEF After, Simulation
  <1> HIDE DEF status
  <1>3. n \in 0..MaxEvents
    BY SimulationFields, SessionAssumption
  <1> QED
    BY <1>1, <1>2, <1>3, SimulationFields DEF Live, Simulation

LEMMA StatusLive ==
    ASSUME NEW s, Live(s), NEW status \in Statuses, NEW t, t = [s EXCEPT !.status = status]
    PROVE  Live(t) /\ t.status = status /\ t.processed = s.processed /\ t.program = s.program
  BY DEF Live, Simulation

LEMMA PauseLive ==
    ASSUME NEW s, Live(s), NEW b \in BOOLEAN, NEW t, t = [s EXCEPT !.pause = b]
    PROVE  Live(t) /\ t.status = s.status /\ t.processed = s.processed /\ t.program = s.program
  BY DEF Live, Simulation

LEMMA BurstInside ==
    ASSUME NEW s, Live(s), NEW r \in Run, GoesOn(s, r)
    PROVE  Burst(s, r) \in Nat /\ s.processed + Burst(s, r) <= s.program.length
  <1> DEFINE a == YieldEvery - (r.count % YieldEvery)
             b == r.max - r.count
             c == s.program.length - s.processed
             T == {n \in 1..MaxEvents : s.processed + n = s.program.fails}
             S == {a, b, c} \cup T
  <1>1. a \in Nat
    <2>1. r.count \in Nat /\ YieldEvery \in Nat \ {0}
      BY SessionAssumption DEF Run
    <2>2. (r.count % YieldEvery) \in 0..(YieldEvery - 1)
      BY <2>1
    <2> QED
      BY <2>1, <2>2
  <1>2. b \in Nat
    BY DEF GoesOn, Run
  <1>3. c \in Nat
    BY SimulationFields
  <1>4. T \subseteq Nat /\ \A x, y \in T : x = y
    BY SimulationFields
  <1> HIDE DEF a, b, c, T
  <1>5. PICK m \in {a, b, c} : m <= a /\ m <= b /\ m <= c
    BY <1>1, <1>2, <1>3
  <1>6. \E x \in S : \A y \in S : x <= y
    <2>1. CASE T = {}
      BY <1>1, <1>2, <1>3, <1>5, <2>1
    <2>2. CASE T # {}
      <3>1. PICK t \in T : TRUE
        BY <2>2
      <3>2. S = {a, b, c, t} /\ t \in Nat
        BY <1>4, <3>1
      <3>3. CASE t <= m
        <4>1. \A y \in S : t <= y
          BY <1>1, <1>2, <1>3, <1>5, <3>2, <3>3
        <4> QED
          BY <3>2, <4>1
      <3>4. CASE m <= t
        <4>1. m \in S /\ \A y \in S : m <= y
          BY <1>1, <1>2, <1>3, <1>5, <3>2, <3>4
        <4> QED
          BY <4>1
      <3> QED
        BY <1>1, <1>2, <1>3, <3>2, <3>3, <3>4
    <2> QED
      BY <2>1, <2>2
  <1>7. Burst(s, r) = CHOOSE x \in S : \A y \in S : x <= y
    BY DEF Burst, Min, a, b, c, T
  <1>8. Burst(s, r) \in S /\ \A y \in S : Burst(s, r) <= y
    BY <1>6, <1>7
  <1>9. c \in S /\ S \subseteq Nat
    BY <1>1, <1>2, <1>3, <1>4
  <1>10. Burst(s, r) \in Nat /\ Burst(s, r) <= c
    BY <1>8, <1>9
  <1> QED
    BY <1>10, SimulationFields DEF c

\* A part of a run leaves a simulation of the same program.
LEMMA AdvancedLive ==
    ASSUME NEW s, Live(s), NEW r \in Run, s.status \in {"RUNNING", "COMPLETED"}
    PROVE  /\ Live(Advanced(s, r)) /\ Advanced(s, r).program = s.program
           /\ Advanced(s, r).status \in {"RUNNING", "COMPLETED", "FAILED"}
           /\ GoesOn(s, r) => Burst(s, r) \in Nat /\ Advanced(s, r).processed = s.processed + Burst(s, r)
  <1>1. CASE GoesOn(s, r)
    <2>1. Burst(s, r) \in Nat /\ s.processed + Burst(s, r) <= s.program.length
      BY <1>1, BurstInside
    <2>2. s.processed + Burst(s, r) \in Nat
      BY <2>1, SimulationFields
    <2> DEFINE n == s.processed + Burst(s, r)
    <2>3. /\ Live(After(s, n)) /\ After(s, n).processed = n /\ After(s, n).program = s.program
          /\ After(s, n).status \in {"FAILED", "COMPLETED", s.status}
      BY <2>1, <2>2, AfterLive
    <2>4. Advanced(s, r) = After(s, n)
      BY <1>1 DEF Advanced
    <2> QED
      BY <2>1, <2>3, <2>4
  <1>2. CASE ~GoesOn(s, r)
    BY <1>2 DEF Advanced
  <1> QED
    BY <1>1, <1>2

LEMMA EndedLive ==
    ASSUME NEW t, Live(t), t.status \in {"RUNNING", "COMPLETED", "FAILED"}
    PROVE  /\ Live(Ended(t)) /\ Ended(t).program = t.program
           /\ Ended(t).status \in {"PAUSED", "COMPLETED", "FAILED"}
  <1>1. CASE t.status = "RUNNING"
    <2>1. "PAUSED" \in Statuses /\ Ended(t) = [t EXCEPT !.status = "PAUSED"]
      BY <1>1 DEF Ended, Statuses
    <2> QED
      BY <2>1, StatusLive
  <1>2. CASE t.status # "RUNNING"
    BY <1>2 DEF Ended
  <1> QED
    BY <1>1, <1>2

LEMMA SteppedLive ==
    ASSUME NEW s, Live(s)
    PROVE  /\ Live(Stepped(s)) /\ Stepped(s).program = s.program
           /\ Stepped(s).status \in {"PAUSED", "COMPLETED", "FAILED"}
           /\ s.status = "FAILED" => Stepped(s) = s
  <1>1. CASE s.status \in {"COMPLETED", "FAILED"}
    BY <1>1 DEF Stepped
  <1>2. CASE s.status \notin {"COMPLETED", "FAILED"} /\ s.processed = s.program.length
    <2>1. Stepped(s) = [s EXCEPT !.status = "COMPLETED"]
      BY <1>2 DEF Stepped
    <2>2. "COMPLETED" \in Statuses
      BY DEF Statuses
    <2>3. Live(Stepped(s)) /\ Stepped(s).status = "COMPLETED" /\ Stepped(s).program = s.program
      BY <2>1, <2>2, StatusLive
    <2> QED
      BY <1>2, <2>3
  <1>3. CASE s.status \notin {"COMPLETED", "FAILED"} /\ s.processed # s.program.length
    <2> DEFINE u == [s EXCEPT !.status = "PAUSED"]
               n == s.processed + 1
    <2>1. Stepped(s) = After(u, n)
      BY <1>3 DEF Stepped
    <2>2. Live(u) /\ u.status = "PAUSED" /\ u.program = s.program
      <3>1. "PAUSED" \in Statuses /\ u = [s EXCEPT !.status = "PAUSED"]
        BY DEF Statuses
      <3> QED
        BY <3>1, StatusLive
    <2>3. n \in Nat /\ n <= u.program.length
      BY <1>3, <2>2, SimulationFields
    <2> HIDE DEF u, n
    <2>4. Live(After(u, n)) /\ After(u, n).program = u.program /\ After(u, n).status \in {"FAILED", "COMPLETED", u.status}
      BY <2>2, <2>3, AfterLive
    <2> QED
      BY <1>3, <2>1, <2>2, <2>4
  <1> QED
    BY <1>1, <1>2, <1>3

-----------------------------------------------------------------------------
(* Requests and their places                                                *)

LEMMA OpenPending ==
    ASSUME NEW P, NEW C, NEW R, NEW W, Placed(P, C, R, W)
    PROVE  Open(C, R, W) \subseteq {p.id : p \in P}
  <1>1. ASSUME NEW i \in 1..Len(C) PROVE C[i].id \in {p.id : p \in P}
    <2>1. PICK p \in P : p = [id |-> C[i].id, type |-> C[i].type]
      BY DEF Placed
    <2> QED
      BY <2>1
  <1>2. ASSUME NEW r \in R PROVE r.id \in {p.id : p \in P}
    <2>1. PICK p \in P : p = [id |-> r.id, type |-> "run"]
      BY DEF Placed
    <2> QED
      BY <2>1
  <1>3. ASSUME NEW i \in 1..Len(W) PROVE W[i] \in {p.id : p \in P}
    <2>1. PICK p \in P : p = [id |-> W[i], type |-> "pause"]
      BY DEF Placed
    <2> QED
      BY <2>1
  <1> QED
    BY <1>1, <1>2, <1>3 DEF Open

\* The worker takes a command; it waits with the pauses, or becomes the run.
LEMMA PlacedTaken ==
    ASSUME NEW P, NEW C \in Seq(Command), NEW R, NEW W \in Seq(Nat), Placed(P, C, R, W), C # <<>>, NEW c, c = Head(C)
    PROVE  /\ c \in Command /\ [id |-> c.id, type |-> c.type] \in P /\ Tail(C) \in Seq(Command)
           /\ Placed(P, Tail(C), R, W)
           /\ c.id \in Open(C, R, W) /\ Same(Open(Tail(C), R, W), Open(C, R, W) \ {c.id})
           /\ c.type = "pause" =>
                 /\ Append(W, c.id) \in Seq(Nat)
                 /\ Placed(P, Tail(C), R, Append(W, c.id)) /\ Same(Open(Tail(C), R, Append(W, c.id)), Open(C, R, W))
           /\ c.type = "run" /\ R = {} =>
                 Placed(P, Tail(C), {c}, W) /\ Same(Open(Tail(C), {c}, W), Open(C, R, W))
  <1> DEFINE T == Tail(C)
             V == Append(W, c.id)
  <1>1. /\ c = C[1] /\ c \in Command /\ T \in Seq(Command) /\ 1 \in 1..Len(C) /\ Len(C) \in Nat /\ Len(T) = Len(C) - 1
        /\ \A i \in 1..Len(T) : T[i] = C[i + 1] /\ i + 1 \in 1..Len(C)
        /\ \A i \in 2..Len(C) : i - 1 \in 1..Len(T) /\ T[i - 1] = C[i]
    BY TakeFirst
  <1>2. c.id \in Nat
    BY <1>1 DEF Command
  <1>3. V \in Seq(Nat) /\ Len(V) = Len(W) + 1 /\ Len(W) \in Nat /\ V[Len(W) + 1] = c.id /\ \A i \in 1..Len(W) : V[i] = W[i]
    BY <1>2
  <1> HIDE DEF T, V
  <1>4. \A i \in 1..Len(T) : T[i].id # c.id
    <2>1. TAKE i \in 1..Len(T)
    <2>2. T[i] = C[i + 1] /\ i + 1 \in 1..Len(C) /\ i + 1 # 1
      BY <1>1
    <2> QED
      BY <1>1, <2>2 DEF Placed
  <1>5. [id |-> c.id, type |-> c.type] \in P
    BY <1>1 DEF Placed
  <1>6. (\A r \in R : c.id # r.id) /\ \A i \in 1..Len(W) : W[i] # c.id
    BY <1>1 DEF Placed, Open
  <1>7. {C[i].id : i \in 1..Len(C)} = {T[i].id : i \in 1..Len(T)} \cup {c.id}
    <2>1. ASSUME NEW i \in 1..Len(C) PROVE C[i].id \in {T[j].id : j \in 1..Len(T)} \cup {c.id}
      <3>1. CASE i = 1
        BY <1>1, <3>1
      <3>2. CASE i # 1
        <4>1. i \in 2..Len(C)
          BY <1>1, <3>2
        <4>2. i - 1 \in 1..Len(T) /\ T[i - 1] = C[i]
          BY <1>1, <4>1
        <4> QED
          BY <4>2
      <3> QED
        BY <3>1, <3>2
    <2>2. ASSUME NEW i \in 1..Len(T) PROVE T[i].id \in {C[j].id : j \in 1..Len(C)}
      BY <1>1
    <2> QED
      BY <1>1, <2>1, <2>2
  <1>8. {V[i] : i \in 1..Len(V)} = {W[i] : i \in 1..Len(W)} \cup {c.id}
    <2>1. \A i \in 1..Len(V) : i \in 1..Len(W) \/ i = Len(W) + 1
      BY <1>3
    <2>2. \A i \in 1..Len(W) : i \in 1..Len(V)
      BY <1>3
    <2>3. Len(W) + 1 \in 1..Len(V)
      BY <1>3
    <2> QED
      BY <1>3, <2>1, <2>2, <2>3
  <1>9. c.id \in Open(C, R, W) /\ Open(T, R, W) = Open(C, R, W) \ {c.id}
    BY <1>4, <1>6, <1>7 DEF Open
  <1>10. Placed(P, T, R, W)
    <2>1. \A i \in 1..Len(T) : [id |-> T[i].id, type |-> T[i].type] \in P
      BY <1>1 DEF Placed
    <2>2. ASSUME NEW i \in 1..Len(T), NEW j \in 1..Len(T), T[i].id = T[j].id PROVE i = j
      <3>1. i + 1 \in 1..Len(C) /\ j + 1 \in 1..Len(C) /\ C[i + 1].id = C[j + 1].id
        BY <1>1, <2>2
      <3>2. i + 1 = j + 1
        BY <3>1 DEF Placed
      <3> QED
        BY <3>2
    <2>3. \A r \in R : r.id \notin Open(T, {}, W)
      BY <1>7 DEF Placed, Open
    <2>4. \A i \in 1..Len(T) : T[i].id \notin Open(<<>>, {}, W)
      BY <1>1 DEF Placed
    <2> QED
      BY <2>1, <2>2, <2>3, <2>4 DEF Placed
  <1>11. ASSUME c.type = "pause" PROVE Placed(P, T, R, V) /\ Open(T, R, V) = Open(C, R, W)
    <2>1. Open(T, R, V) = Open(C, R, W)
      BY <1>7, <1>8 DEF Open
    <2>2. \A i \in 1..Len(V) : i \in 1..Len(W) \/ i = Len(W) + 1
      BY <1>3
    <2>3. \A i \in 1..Len(V) : [id |-> V[i], type |-> "pause"] \in P
      BY <1>3, <1>5, <1>11, <2>2 DEF Placed
    <2>4. \A i, j \in 1..Len(V) : V[i] = V[j] => i = j
      BY <1>3, <1>6, <2>2 DEF Placed
    <2>5. \A r \in R : r.id \notin Open(T, {}, V)
      BY <1>6, <1>7, <1>8 DEF Placed, Open
    <2>6. \A i \in 1..Len(T) : T[i].id \notin Open(<<>>, {}, V)
      BY <1>4, <1>8, <1>10 DEF Placed, Open
    <2> QED
      BY <1>10, <2>1, <2>3, <2>4, <2>5, <2>6 DEF Placed
  <1>12. ASSUME c.type = "run", R = {} PROVE Placed(P, T, {c}, W) /\ Open(T, {c}, W) = Open(C, R, W)
    <2>1. Open(T, {c}, W) = Open(C, R, W)
      BY <1>7, <1>12 DEF Open
    <2>2. c.id \notin Open(T, {}, W)
      BY <1>4, <1>6, <1>12 DEF Open
    <2> QED
      BY <1>5, <1>10, <1>12, <2>1, <2>2 DEF Placed
  <1> QED
    BY <1>1, <1>3, <1>5, <1>9, <1>10, <1>11, <1>12 DEF Same, T, V

\* A run that goes on, and one that ends with the pauses that wait for it.
LEMMA PlacedRun ==
    ASSUME NEW P, NEW C \in Seq(Command), NEW r, NEW W \in Seq(Nat), Placed(P, C, {r}, W)
    PROVE  /\ r.id \in Open(C, {r}, W) /\ [id |-> r.id, type |-> "run"] \in P
           /\ Placed(P, C, {}, W) /\ Same(Open(C, {}, W), Open(C, {r}, W) \ {r.id})
           /\ Placed(P, C, {}, <<>>) /\ Same(Open(C, {}, <<>>), Open(C, {}, W) \ Ids(W))
           /\ \A i \in 1..Len(W) : W[i] \in Open(C, {}, W)
  <1>1. r.id \in Open(C, {r}, W) /\ [id |-> r.id, type |-> "run"] \in P
    BY DEF Open, Placed
  <1>2. r.id \notin Open(C, {}, W)
    BY DEF Placed
  <1>3. Open(C, {}, W) = Open(C, {r}, W) \ {r.id}
    BY <1>2 DEF Open
  <1>5. Placed(P, C, {}, W)
    BY DEF Placed
  <1>6. Len(<<>>) = 0 /\ 1..Len(<<>>) = {}
    OBVIOUS
  <1>7. Placed(P, C, {}, <<>>)
    BY <1>6 DEF Placed, Open
  <1>8. \A i \in 1..Len(C) : C[i].id \notin {W[j] : j \in 1..Len(W)}
    BY DEF Placed, Open
  <1>9. Open(C, {}, <<>>) = Open(C, {}, W) \ Ids(W)
    BY <1>6, <1>8 DEF Open, Ids
  <1>10. \A i \in 1..Len(W) : W[i] \in Open(C, {}, W)
    BY DEF Open
  <1> QED
    BY <1>1, <1>3, <1>5, <1>7, <1>9, <1>10 DEF Same

LEMMA PlacedSame ==
    ASSUME NEW P, NEW C, NEW r, NEW q, NEW W, Placed(P, C, {r}, W), q.id = r.id
    PROVE  Placed(P, C, {q}, W) /\ Same(Open(C, {q}, W), Open(C, {r}, W))
  <1>1. Open(C, {q}, W) = Open(C, {r}, W)
    BY DEF Open
  <1> QED
    BY <1>1 DEF Placed, Same

-----------------------------------------------------------------------------
(* Answers                                                                  *)

\* A is all that is sent for the request x of this type.
Reply(A, x, type) ==
    /\ A \in Seq(Event) /\ A # <<>>
    /\ \A i \in 1..Len(A) : A[i].id = x /\ (Last([id |-> x, type |-> type], A[i]) <=> i = Len(A))

LEMMA LedgerReplies ==
    ASSUME NEW P, NEW O, NEW E \in Seq(Event), NEW A, NEW x, NEW type,
           Ledger(P, O, E), O \subseteq {p.id : p \in P}, [id |-> x, type |-> type] \in P, x \in O, Reply(A, x, type)
    PROVE  E \o A \in Seq(Event) /\ Ledger(P, O \ {x}, E \o A)
  <1> DEFINE p == [id |-> x, type |-> type]
  <1>1. A \in Seq(Event) /\ Len(A) \in Nat \ {0} /\ Len(A) \in 1..Len(A)
    BY DEF Reply
  <1>2. p \in P /\ p.id = x
    OBVIOUS
  <1>3. \A i \in 1..Len(A) : A[i].id = x /\ (Last(p, A[i]) <=> i = Len(A))
    BY DEF Reply
  <1> HIDE DEF p
  <1>4. ASSUME NEW q \in P, NEW i \in 1..Len(A), Last(q, A[i])
        PROVE  q.id \notin O \ {x} /\ \A j \in (i + 1)..Len(A) : A[j].id # q.id
    <2>1. q.id = x
      BY <1>3, <1>4 DEF Last
    <2>2. q = p
      BY <1>2, <2>1 DEF Ledger
    <2>3. i = Len(A)
      BY <1>3, <1>4, <2>2
    <2> QED
      BY <1>1, <2>1, <2>3
  <1>5. ASSUME NEW q \in P, q.id \in O \ (O \ {x}) PROVE \E i \in 1..Len(A) : Last(q, A[i])
    <2>1. q = p
      BY <1>2, <1>5 DEF Ledger
    <2> QED
      BY <1>1, <1>3, <2>1
  <1>6. Answers(P, O, A, O \ {x})
    BY <1>3, <1>4, <1>5 DEF Answers
  <1> QED
    BY <1>1, <1>6, LedgerAnswers, AppendAll

LEMMA AppendOne == ASSUME NEW S, NEW E \in Seq(S), NEW e \in S PROVE E \o <<e>> = Append(E, e)
  OBVIOUS

LEMMA JoinTwo == ASSUME NEW S, NEW a \in S, NEW b \in S PROVE <<a>> \o <<b>> = <<a, b>>
  <1>1. <<a>> \in Seq(S) /\ Len(<<a>>) = 1 /\ <<a>>[1] = a
    OBVIOUS
  <1>2. <<a>> \o <<b>> = Append(<<a>>, b)
    BY <1>1, AppendOne
  <1> DEFINE u == Append(<<a>>, b)
             v == <<a, b>>
  <1>3. u \in Seq(S) /\ Len(u) = 2 /\ u[1] = a /\ u[2] = b
    BY <1>1
  <1>4. v \in Seq(S) /\ Len(v) = 2 /\ v[1] = a /\ v[2] = b
    OBVIOUS
  <1> HIDE DEF u, v
  <1>5. Len(u) = Len(v) /\ \A i \in 1..Len(u) : u[i] = v[i]
    BY <1>3, <1>4
  <1>6. u = v
    BY <1>3, <1>4, <1>5, SeqEqual
  <1> QED
    BY <1>2, <1>6 DEF u, v

LEMMA ReplyFailure ==
    ASSUME NEW x \in Nat, NEW code \in Codes, NEW type PROVE Reply(<<Failure(x, code)>>, x, type)
  BY FailureFields DEF Reply, Last

LEMMA ReplyFailed ==
    ASSUME NEW x \in Nat, NEW t, Live(t), t.status = "FAILED", NEW type \in {"run", "step"}
    PROVE  Reply(Failed(x, t), x, type)
  <1>1. "SIMULATION_FAILED" \in Codes
    BY DEF Codes
  <1>2. /\ Failure(x, "SIMULATION_FAILED") \in Event /\ Failure(x, "SIMULATION_FAILED").id = x
        /\ Failure(x, "SIMULATION_FAILED").type = "error"
    BY <1>1, FailureFields
  <1>3. /\ Updated(x, t) \in Event /\ Updated(x, t).id = x /\ Updated(x, t).type = "projection.updated"
        /\ Updated(x, t).projection.status = "FAILED"
    BY <1>1, EventFields
  <1>4. CASE t.program.withheld
    <2>1. Failed(x, t) = <<Failure(x, "SIMULATION_FAILED")>>
      BY <1>2, <1>4 DEF Failed
    <2> QED
      BY <1>2, <2>1 DEF Reply, Last
  <1>5. CASE ~t.program.withheld
    <2>1. Failed(x, t) = <<Updated(x, t), Failure(x, "SIMULATION_FAILED")>>
      <3>1. Failed(x, t) = <<Updated(x, t)>> \o <<Failure(x, "SIMULATION_FAILED")>>
        BY <1>5 DEF Failed
      <3> QED
        BY <1>2, <1>3, <3>1, JoinTwo
    <2>2. ~Last([id |-> x, type |-> type], Updated(x, t))
      BY <1>3 DEF Last, Settles
    <2>3. Last([id |-> x, type |-> type], Failure(x, "SIMULATION_FAILED"))
      BY <1>2 DEF Last
    <2> QED
      BY <1>2, <1>3, <2>1, <2>2, <2>3 DEF Reply
  <1> QED
    BY <1>4, <1>5

LEMMA ReplyUpdated ==
    ASSUME NEW x \in Nat, NEW t, Live(t), t.status # "FAILED", NEW type \in {"pause", "step", "reset"}
    PROVE  Reply(<<Updated(x, t)>>, x, type)
  <1>1. "none" \in Codes
    BY DEF Codes
  <1>2. /\ Updated(x, t) \in Event /\ Updated(x, t).id = x /\ Updated(x, t).type = "projection.updated"
        /\ Updated(x, t).projection.status # "FAILED"
    BY <1>1, EventFields
  <1>3. Last([id |-> x, type |-> type], Updated(x, t))
    BY <1>2 DEF Last, Settles
  <1> QED
    BY <1>2, <1>3 DEF Reply

LEMMA ReplyFinished ==
    ASSUME NEW x \in Nat, NEW t, Live(t)
    PROVE  Reply(<<Updated(x, t), Finished(x, t)>>, x, "run")
  <1>1. "none" \in Codes
    BY DEF Codes
  <1>2. /\ Updated(x, t) \in Event /\ Updated(x, t).id = x /\ Updated(x, t).type = "projection.updated"
        /\ Finished(x, t) \in Event /\ Finished(x, t).id = x /\ Finished(x, t).type = "run.finished"
    BY <1>1, EventFields
  <1>3. ~Last([id |-> x, type |-> "run"], Updated(x, t)) /\ Last([id |-> x, type |-> "run"], Finished(x, t))
    BY <1>2 DEF Last, Settles
  <1> QED
    BY <1>2, <1>3 DEF Reply

LEMMA ReplyLoaded ==
    ASSUME NEW x \in Nat, NEW t, Live(t) PROVE Reply(<<Loaded(x, t)>>, x, "load")
  <1>1. "none" \in Codes
    BY DEF Codes
  <1>2. Loaded(x, t) \in Event /\ Loaded(x, t).id = x /\ Loaded(x, t).type = "loaded"
    BY <1>1, EventFields
  <1> QED
    BY <1>2 DEF Reply, Last, Settles

-----------------------------------------------------------------------------
(* What answers leave on the screen                                         *)

LEMMA AppendTwo ==
    ASSUME NEW S, NEW E \in Seq(S), NEW a \in S, NEW b \in S PROVE E \o <<a, b>> = Append(Append(E, a), b) /\ Append(E, a) \in Seq(S)
  OBVIOUS

LEMMA ShowsRefused ==
    ASSUME NEW P, NEW d, NEW f, NEW E \in Seq(Event), Chain(P, d, E, f),
           NEW x \in Nat, NEW code \in Codes \ {"SIMULATION_FAILED"}
    PROVE  Chain(P, d, E \o <<Failure(x, code)>>, f)
  <1>1. Failure(x, code) \in Event /\ Failure(x, code).type = "error" /\ Failure(x, code).code = code
    BY FailureFields
  <1>2. Heard(P, f, Failure(x, code)) /\ Seen(f, Failure(x, code)) = f
    BY <1>1 DEF Heard, Seen
  <1> QED
    BY <1>1, <1>2, ChainMore, AppendOne

\* A projection sent for x is not ignored by a host that shows f.
Fits(P, f, x) == \A p \in P : p.id = x => p.type # "load" /\ (f # {} \/ p.type = "reset")

LEMMA ShowsUpdated ==
    ASSUME NEW P, NEW d, NEW f, NEW E \in Seq(Event), Chain(P, d, E, f), NEW x \in Nat, NEW t, Live(t), Fits(P, f, x)
    PROVE  /\ Chain(P, d, E \o <<Updated(x, t)>>, {Projected(t)})
           /\ Shows({Projected(t)}, t)
  <1>1. "none" \in Codes
    BY DEF Codes
  <1>2. /\ Updated(x, t) \in Event /\ Updated(x, t).id = x /\ Updated(x, t).type = "projection.updated"
        /\ Updated(x, t).projection = Projected(t) /\ Projected(t).status = t.status
    BY <1>1, EventFields
  <1>3. Heard(P, f, Updated(x, t)) /\ Seen(f, Updated(x, t)) = {Projected(t)}
    BY <1>2 DEF Heard, Seen, Fits
  <1>4. Chain(P, d, Append(E, Updated(x, t)), {Projected(t)})
    BY <1>2, <1>3, ChainMore
  <1> QED
    BY <1>2, <1>4, AppendOne DEF Shows

LEMMA ShowsLoaded ==
    ASSUME NEW P, NEW d, NEW f, NEW E \in Seq(Event), Chain(P, d, E, f), NEW x \in Nat, NEW t, Live(t),
           \A p \in P : p.id = x => p.type = "load"
    PROVE  /\ Chain(P, d, E \o <<Loaded(x, t)>>, {Projected(t)})
           /\ Shows({Projected(t)}, t)
  <1>1. "none" \in Codes
    BY DEF Codes
  <1>2. /\ Loaded(x, t) \in Event /\ Loaded(x, t).id = x /\ Loaded(x, t).type = "loaded"
        /\ Loaded(x, t).projection = Projected(t) /\ Projected(t).status = t.status
    BY <1>1, EventFields
  <1>3. Heard(P, f, Loaded(x, t)) /\ Seen(f, Loaded(x, t)) = {Projected(t)}
    BY <1>2 DEF Heard, Seen
  <1>4. Chain(P, d, Append(E, Loaded(x, t)), {Projected(t)})
    BY <1>2, <1>3, ChainMore
  <1> QED
    BY <1>2, <1>4, AppendOne DEF Shows

LEMMA ShowsFinished ==
    ASSUME NEW P, NEW d, NEW f, NEW E \in Seq(Event), Chain(P, d, E, f), NEW x \in Nat, NEW t, Live(t), f # {},
           \A p \in P : p.id = x => p.type = "run"
    PROVE  Chain(P, d, E \o <<Updated(x, t), Finished(x, t)>>, {Projected(t)})
  <1> DEFINE e == Finished(x, t)
  <1>1. Updated(x, t) \in Event /\ e \in Event /\ e.id = x /\ e.type = "run.finished"
    BY FinishedFields
  <1> HIDE DEF e
  <1>2. Chain(P, d, E \o <<Updated(x, t)>>, {Projected(t)})
    <2>1. Fits(P, f, x)
      BY DEF Fits
    <2> QED
      BY <2>1, ShowsUpdated
  <1>3. Chain(P, d, Append(E, Updated(x, t)), {Projected(t)})
    BY <1>1, <1>2, AppendOne
  <1>4. Heard(P, {Projected(t)}, e) /\ Seen({Projected(t)}, e) = {Projected(t)}
    BY <1>1 DEF Heard, Seen
  <1>5. E \o <<Updated(x, t), e>> = Append(Append(E, Updated(x, t)), e) /\ Append(E, Updated(x, t)) \in Seq(Event)
    BY <1>1, AppendTwo
  <1>6. Chain(P, d, Append(Append(E, Updated(x, t)), e), Seen({Projected(t)}, e))
    BY <1>1, <1>3, <1>4, <1>5, ChainMore
  <1> QED
    BY <1>4, <1>5, <1>6 DEF e

LEMMA ShowsFailed ==
    ASSUME NEW P, NEW d, NEW f \in SUBSET Projection, NEW E \in Seq(Event), Chain(P, d, E, f),
           NEW x \in Nat, NEW t, Live(t), t.status = "FAILED",
           (\A y \in f : y.status # "FAILED") \/ f = {Projected(t)},
           ~t.program.withheld => f # {},
           \A p \in P : p.id = x => p.type # "load"
    PROVE  \E g \in SUBSET Projection : Chain(P, d, E \o Failed(x, t), g) /\ Shows(g, t)
  <1> DEFINE e == Failure(x, "SIMULATION_FAILED")
  <1>1. "SIMULATION_FAILED" \in Codes
    BY DEF Codes
  <1>2. e \in Event /\ e.id = x /\ e.type = "error" /\ e.code = "SIMULATION_FAILED"
    BY <1>1, FailureFields
  <1>3. Updated(x, t) \in Event /\ Projected(t) \in Projection /\ Projected(t).status = "FAILED"
    BY <1>1, EventFields
  <1>4. \A g : Heard(P, g, e)
    BY <1>2 DEF Heard
  <1>5. Seen({Projected(t)}, e) = {Projected(t)} /\ Shows({Projected(t)}, t)
    BY <1>2, <1>3 DEF Seen, Shows
  <1> HIDE DEF e
  <1>6. CASE t.program.withheld
    <2>1. Failed(x, t) = <<e>>
      BY <1>2, <1>6 DEF Failed, e
    <2>2. Chain(P, d, E \o <<e>>, Seen(f, e))
      BY <1>2, <1>4, ChainMore, AppendOne
    <2>3. CASE f = {Projected(t)}
      BY <1>5, <2>1, <2>2, <2>3
    <2>4. CASE \A y \in f : y.status # "FAILED"
      <3>1. Seen(f, e) = {}
        BY <1>2, <2>4 DEF Seen
      <3>2. Shows({}, t)
        BY <1>6 DEF Shows
      <3>3. {} \in SUBSET Projection
        OBVIOUS
      <3> QED
        BY <2>1, <2>2, <3>1, <3>2, <3>3
    <2> QED
      BY <2>3, <2>4
  <1>7. CASE ~t.program.withheld
    <2>1. Failed(x, t) = <<Updated(x, t), e>>
      <3>1. Failed(x, t) = <<Updated(x, t)>> \o <<e>>
        BY <1>7 DEF Failed, e
      <3> QED
        BY <1>2, <1>3, <3>1, JoinTwo
    <2>2. Chain(P, d, E \o <<Updated(x, t)>>, {Projected(t)})
      <3>1. Fits(P, f, x)
        BY <1>7 DEF Fits
      <3> QED
        BY <3>1, ShowsUpdated
    <2>3. Chain(P, d, Append(E, Updated(x, t)), {Projected(t)})
      BY <1>3, <2>2, AppendOne
    <2>4. Chain(P, d, E \o <<Updated(x, t), e>>, {Projected(t)})
      <3>1. E \o <<Updated(x, t), e>> = Append(Append(E, Updated(x, t)), e) /\ Append(E, Updated(x, t)) \in Seq(Event)
        BY <1>2, <1>3, AppendTwo
      <3>2. Chain(P, d, Append(Append(E, Updated(x, t)), e), Seen({Projected(t)}, e))
        BY <1>2, <1>4, <2>3, <3>1, ChainMore
      <3> QED
        BY <1>5, <3>1, <3>2
    <2> QED
      BY <1>3, <1>5, <2>1, <2>4
  <1> QED
    BY <1>6, <1>7

\* W are pauses of P, and among the open requests O.
Awaited(P, O, W) ==
    /\ O \subseteq {p.id : p \in P}
    /\ \A i \in 1..Len(W) : W[i] \in O /\ [id |-> W[i], type |-> "pause"] \in P
    /\ \A i, j \in 1..Len(W) : W[i] = W[j] => i = j

Answered(W, t) == [i \in DOMAIN W |-> PauseAnswer(W[i], t)]

\* The pauses of a run that ended.
LEMMA ShowsPauses ==
    ASSUME NEW P, NEW O, NEW d, NEW g \in SUBSET Projection, NEW E \in Seq(Event), Chain(P, d, E, g), Ledger(P, O, E),
           NEW t, Live(t), t.status # "RUNNING", Shows(g, t),
           NEW W \in Seq(Nat), Awaited(P, O, W),
           NEW A, A = Answered(W, t)
    PROVE  /\ E \o A \in Seq(Event)
           /\ Chain(P, d, E \o A, g)
           /\ Ledger(P, O \ Ids(W), E \o A)
  <1> DEFINE Rest == O \ Ids(W)
  <1>0. /\ O \subseteq {p.id : p \in P}
        /\ \A i \in 1..Len(W) : W[i] \in O /\ [id |-> W[i], type |-> "pause"] \in P
        /\ \A i, j \in 1..Len(W) : W[i] = W[j] => i = j
    BY DEF Awaited
  <1>1. "SIMULATION_FAILED" \in Codes
    BY DEF Codes
  <1>2. ASSUME NEW i \in 1..Len(W)
        PROVE  /\ PauseAnswer(W[i], t) \in Event /\ PauseAnswer(W[i], t).id = W[i]
               /\ Last([id |-> W[i], type |-> "pause"], PauseAnswer(W[i], t))
               /\ Heard(P, g, PauseAnswer(W[i], t)) /\ Seen(g, PauseAnswer(W[i], t)) = g
    <2> DEFINE e == PauseAnswer(W[i], t)
               p == [id |-> W[i], type |-> "pause"]
    <2>1. W[i] \in Nat
      OBVIOUS
    <2>2. p \in P /\ p.id = W[i] /\ p.type = "pause" /\ \A q \in P : q.id = W[i] => q = p
      BY <1>0 DEF Ledger
    <2> HIDE DEF p
    <2>3. CASE t.status = "FAILED"
      <3>1. e = Failure(W[i], "SIMULATION_FAILED")
        BY <2>3 DEF PauseAnswer
      <3>2. e \in Event /\ e.id = W[i] /\ e.type = "error" /\ e.code = "SIMULATION_FAILED"
        BY <1>1, <2>1, <3>1, FailureFields
      <3>3. g = {} \/ g = {Projected(t)}
        BY <2>3 DEF Shows
      <3>4. Projected(t).status = "FAILED"
        BY <2>3 DEF Projected
      <3>5. Seen(g, e) = g
        BY <3>2, <3>3, <3>4 DEF Seen
      <3>6. Heard(P, g, e) /\ Last(p, e)
        BY <2>2, <3>2 DEF Heard, Last
      <3> QED
        BY <3>2, <3>5, <3>6 DEF p
    <2>4. CASE t.status # "FAILED"
      <3>1. e = Updated(W[i], t)
        BY <2>4 DEF PauseAnswer
      <3>2. /\ e \in Event /\ e.id = W[i] /\ e.type = "projection.updated" /\ e.projection = Projected(t)
            /\ e.projection.status # "FAILED"
        BY <1>1, <2>1, <2>4, <3>1, EventFields
      <3>3. g = {Projected(t)}
        BY <2>4 DEF Shows
      <3>4. Seen(g, e) = g
        BY <3>2, <3>3 DEF Seen
      <3>5. Heard(P, g, e)
        BY <2>2, <3>2, <3>3 DEF Heard
      <3>6. Last(p, e)
        BY <2>2, <3>2 DEF Last, Settles
      <3> QED
        BY <3>2, <3>4, <3>5, <3>6 DEF p
    <2> QED
      BY <2>3, <2>4
  <1>3. A \in Seq(Event) /\ Len(A) = Len(W) /\ Len(W) \in Nat /\ \A i \in 1..Len(W) : A[i] = PauseAnswer(W[i], t)
    <2>1. DOMAIN W = 1..Len(W) /\ Len(W) \in Nat
      OBVIOUS
    <2>2. A \in [1..Len(W) -> Event] /\ \A i \in 1..Len(W) : A[i] = PauseAnswer(W[i], t)
      BY <1>2, <2>1 DEF Answered
    <2>3. A \in Seq(Event) /\ Len(A) = Len(W)
      BY <2>1, <2>2, OfLength
    <2> QED
      BY <2>1, <2>2, <2>3
  <1> HIDE DEF Rest
  <1>4. \A i \in 1..Len(A) : Heard(P, g, A[i]) /\ Seen(g, A[i]) = g
    BY <1>2, <1>3
  <1>5. Chain(P, d, E \o A, g)
    BY <1>3, <1>4, ChainSame
  <1>6. \A i \in 1..Len(A) : A[i].id \in O
    BY <1>0, <1>2, <1>3
  <1>7. ASSUME NEW p \in P, NEW i \in 1..Len(A), Last(p, A[i])
        PROVE  p.id \notin Rest /\ \A j \in (i + 1)..Len(A) : A[j].id # p.id
    <2>1. p.id = W[i] /\ i \in 1..Len(W) /\ Len(W) \in Nat
      <3>1. i \in 1..Len(W) /\ A[i] = PauseAnswer(W[i], t)
        BY <1>3
      <3>2. A[i].id = W[i]
        BY <1>2, <3>1
      <3> QED
        BY <1>3, <1>7, <3>1, <3>2 DEF Last
    <2>2. ASSUME NEW j \in (i + 1)..Len(A) PROVE A[j].id # p.id
      <3>1. j \in 1..Len(W) /\ j # i
        BY <1>3, <2>1
      <3>2. A[j] = PauseAnswer(W[j], t)
        BY <1>3, <3>1
      <3>3. A[j].id = W[j]
        BY <1>2, <3>1, <3>2
      <3> QED
        BY <1>0, <2>1, <3>1, <3>3
    <2> QED
      BY <2>1, <2>2 DEF Rest, Ids
  <1>8. ASSUME NEW p \in P, p.id \in O \ Rest PROVE \E i \in 1..Len(A) : Last(p, A[i])
    <2>1. PICK i \in 1..Len(W) : p.id = W[i]
      BY <1>8 DEF Rest, Ids
    <2>2. p = [id |-> W[i], type |-> "pause"]
      BY <1>0, <2>1 DEF Ledger
    <2> QED
      BY <1>2, <1>3, <2>1, <2>2
  <1>9. Answers(P, O, A, Rest)
    BY <1>6, <1>7, <1>8 DEF Answers
  <1>10. Rest \subseteq O
    BY DEF Rest, Ids
  <1>11. Ledger(P, Rest, E \o A)
    BY <1>0, <1>3, <1>9, <1>10, LedgerAnswers
  <1>12. E \o A \in Seq(Event)
    BY <1>3, AppendAll
  <1> QED
    BY <1>5, <1>11, <1>12 DEF Rest

-----------------------------------------------------------------------------
(* The worker                                                               *)

\* An event that answers nothing.
LEMMA LedgerSample ==
    ASSUME NEW P, NEW O, NEW E \in Seq(Event), NEW e \in Event,
           Ledger(P, O, E), O \subseteq {p.id : p \in P}, e.id \in O, \A p \in P : ~Last(p, e)
    PROVE  Append(E, e) \in Seq(Event) /\ Ledger(P, O, Append(E, e))
  <1>1. <<e>> \in Seq(Event) /\ Len(<<e>>) = 1 /\ <<e>>[1] = e
    OBVIOUS
  <1>2. Answers(P, O, <<e>>, O)
    BY <1>1 DEF Answers
  <1>3. Ledger(P, O, E \o <<e>>)
    BY <1>1, <1>2, LedgerAnswers
  <1>4. E \o <<e>> = Append(E, e) /\ Append(E, e) \in Seq(Event)
    BY AppendOne
  <1> QED
    BY <1>3, <1>4, Zenon

\* What a run sends while it goes on is not its last event.
LEMMA SampleWorks ==
    ASSUME NEW P, NEW C \in Seq(Command), NEW d, NEW f \in SUBSET Projection, NEW E \in Seq(Event), NEW W \in Seq(Nat),
           NEW r \in Run, NEW t, Live(t), t.status = "RUNNING",
           Placed(P, C, {r}, W), Ledger(P, Open(C, {r}, W), E), Chain(P, d, E, f), f # {}
    PROVE  /\ Append(E, Updated(r.id, t)) \in Seq(Event)
           /\ Ledger(P, Open(C, {r}, W), Append(E, Updated(r.id, t)))
           /\ Screen(P, d, Append(E, Updated(r.id, t)), {t})
  <1> DEFINE x == r.id
             e == Updated(x, t)
  <1>1. "none" \in Codes /\ r.id \in Nat
    BY DEF Codes, Run
  <1>2. e \in Event /\ e.id = r.id /\ e.type = "projection.updated" /\ Projected(t) \in Projection
    BY <1>1, EventFields
  <1>3. r.id \in Open(C, {r}, W) /\ [id |-> r.id, type |-> "run"] \in P
    BY PlacedRun
  <1>4. \A p \in P : p.id = r.id => p.type = "run"
    <2>1. TAKE p \in P
    <2>2. HAVE p.id = r.id
    <2>3. p = [id |-> r.id, type |-> "run"]
      BY <1>3, <2>2 DEF Ledger
    <2> QED
      BY <2>3
  <1>5. \A p \in P : ~Last(p, e)
    BY <1>2, <1>4 DEF Last, Settles
  <1>6. Append(E, e) \in Seq(Event) /\ Ledger(P, Open(C, {r}, W), Append(E, e))
    BY <1>2, <1>3, <1>5, LedgerSample, OpenPending
  <1>7. Chain(P, d, E \o <<e>>, {Projected(t)}) /\ Shows({Projected(t)}, t)
    <2>1. x \in Nat /\ Fits(P, f, x)
      BY <1>1, <1>4 DEF Fits
    <2> HIDE DEF x
    <2>2. Chain(P, d, E \o <<Updated(x, t)>>, {Projected(t)})
      BY <2>1, ShowsUpdated
    <2>3. Shows({Projected(t)}, t)
      BY DEF Shows, Projected
    <2> QED
      BY <2>2, <2>3
  <1>8. Chain(P, d, Append(E, e), {Projected(t)})
    BY <1>2, <1>7, AppendOne
  <1>9. Screen(P, d, Append(E, e), {t})
    BY <1>2, <1>7, <1>8 DEF Screen
  <1> QED
    BY <1>6, <1>9

LEMMA RunRequest ==
    ASSUME NEW P, NEW C, NEW r, NEW W, NEW O, NEW E, Placed(P, C, {r}, W), Ledger(P, O, E)
    PROVE  \A p \in P : p.id = r.id => p.type = "run"
  <1>1. TAKE p \in P
  <1>2. HAVE p.id = r.id
  <1>3. p = [id |-> r.id, type |-> "run"]
    BY <1>2 DEF Ledger, Placed
  <1> QED
    BY <1>3

\* A run that yields.
LEMMA YieldWorks ==
    ASSUME NEW P, NEW C \in Seq(Command), NEW d, NEW f \in SUBSET Projection, NEW E \in Seq(Event), NEW W \in Seq(Nat),
           NEW r, Placed(P, C, {r}, W), Ledger(P, Open(C, {r}, W), E), Chain(P, d, E, f),
           f # {}, \A x \in f : x.status # "FAILED",
           NEW q \in Run, q.id = r.id, r \in Run, NEW t, Live(t), t.status = "RUNNING", q.count <= t.processed,
           NEW N, N \in {E, Append(E, Updated(r.id, t))}
    PROVE  Worked(P, d, C, N, {t}, {q}, W)
  <1>1. Placed(P, C, {q}, W) /\ Open(C, {q}, W) = Open(C, {r}, W)
    <2>1. Placed(P, C, {q}, W) /\ Same(Open(C, {q}, W), Open(C, {r}, W))
      BY PlacedSame
    <2> QED
      BY <2>1 DEF Same
  <1>2. N \in Seq(Event) /\ Ledger(P, Open(C, {r}, W), N) /\ Screen(P, d, N, {t})
    <2>1. CASE N = E
      <3>1. Shows(f, t)
        BY DEF Shows
      <3>2. Screen(P, d, E, {t})
        BY <3>1 DEF Screen
      <3> QED
        BY <2>1, <3>2
    <2>2. CASE N = Append(E, Updated(r.id, t))
      BY <2>2, SampleWorks
    <2> QED
      BY <2>1, <2>2
  <1>3. Alone({t}, {q}, W)
    <2>1. t.processed >= q.count
      BY SimulationFields DEF Run
    <2> QED
      BY <2>1 DEF Alone
  <1>4. Single({t}) /\ Single({q})
    BY DEF Single
  <1> QED
    BY <1>1, <1>2, <1>3, <1>4 DEF Worked

\* A run that ends with the pauses that wait for it.
LEMMA EndWorks ==
    ASSUME NEW P, NEW C \in Seq(Command), NEW d, NEW f \in SUBSET Projection, NEW E \in Seq(Event), NEW W \in Seq(Nat),
           NEW r \in Run, Placed(P, C, {r}, W), Ledger(P, Open(C, {r}, W), E), Chain(P, d, E, f),
           f # {}, \A x \in f : x.status # "FAILED",
           NEW e, Live(e), e.status \in {"PAUSED", "COMPLETED", "FAILED"},
           NEW X, X = IF e.status = "FAILED" THEN Failed(r.id, e) ELSE <<Updated(r.id, e), Finished(r.id, e)>>,
           NEW Y, Y = Answered(W, e)
    PROVE  Worked(P, d, C, (E \o X) \o Y, {e}, {}, <<>>)
  <1> DEFINE x == r.id
             V == Open(C, {}, W)
  <1>1. x \in Nat /\ "none" \in Codes
    BY DEF Run, Codes
  <1>2. \A p \in P : p.id = x => p.type = "run"
    BY RunRequest
  <1>3. x \in Open(C, {r}, W) /\ [id |-> x, type |-> "run"] \in P /\ Open(C, {r}, W) \subseteq {p.id : p \in P}
    BY PlacedRun, OpenPending
  <1>4. /\ V = Open(C, {r}, W) \ {x}
        /\ Placed(P, C, {}, <<>>) /\ Open(C, {}, <<>>) = V \ Ids(W)
        /\ \A i \in 1..Len(W) : W[i] \in V
    <2>1. /\ Same(Open(C, {}, W), Open(C, {r}, W) \ {r.id})
          /\ Placed(P, C, {}, <<>>) /\ Same(Open(C, {}, <<>>), Open(C, {}, W) \ Ids(W))
          /\ \A i \in 1..Len(W) : W[i] \in Open(C, {}, W)
      BY PlacedRun
    <2> QED
      BY <2>1 DEF Same
  <1>5. X = IF e.status = "FAILED" THEN Failed(x, e) ELSE <<Updated(x, e), Finished(x, e)>>
    OBVIOUS
  <1> HIDE DEF x, V
  <1>6. Projected(e) \in Projection
    BY <1>1, EventFields
  <1>7. Reply(X, x, "run") /\ \E g \in SUBSET Projection : Chain(P, d, E \o X, g) /\ Shows(g, e)
    <2>1. CASE e.status = "FAILED"
      <3>1. X = Failed(x, e)
        BY <1>5, <2>1
      <3>2. Reply(X, x, "run")
        BY <1>1, <2>1, <3>1, ReplyFailed
      <3>3. \A p \in P : p.id = x => p.type # "load"
        BY <1>2
      <3>4. \E g \in SUBSET Projection : Chain(P, d, E \o Failed(x, e), g) /\ Shows(g, e)
        BY <1>1, <2>1, <3>3, ShowsFailed
      <3> QED
        BY <3>1, <3>2, <3>4
    <2>2. CASE e.status # "FAILED"
      <3>1. X = <<Updated(x, e), Finished(x, e)>>
        BY <1>5, <2>2
      <3>2. Reply(X, x, "run")
        BY <1>1, <3>1, ReplyFinished
      <3>3. Chain(P, d, E \o <<Updated(x, e), Finished(x, e)>>, {Projected(e)})
        BY <1>1, <1>2, ShowsFinished
      <3>4. Shows({Projected(e)}, e)
        BY DEF Shows, Projected
      <3> QED
        BY <1>6, <3>1, <3>2, <3>3, <3>4
    <2> QED
      BY <2>1, <2>2
  <1>8. E \o X \in Seq(Event) /\ Ledger(P, V, E \o X)
    BY <1>3, <1>4, <1>7, LedgerReplies
  <1>9. PICK g \in SUBSET Projection : Chain(P, d, E \o X, g) /\ Shows(g, e)
    BY <1>7
  <1> DEFINE N == E \o X
  <1>10. N \in Seq(Event) /\ Ledger(P, V, N) /\ Chain(P, d, N, g)
    BY <1>8, <1>9
  <1> HIDE DEF N
  <1>11. Awaited(P, V, W)
    BY <1>3, <1>4 DEF Placed, Awaited
  <1>12. N \o Y \in Seq(Event) /\ Chain(P, d, N \o Y, g) /\ Ledger(P, V \ Ids(W), N \o Y)
    <2>1. e.status # "RUNNING" /\ Shows(g, e) /\ Live(e)
      BY <1>9
    <2>2. g \in SUBSET Projection
      BY <1>9
    <2> QED
      BY <1>10, <1>11, <2>1, <2>2, ShowsPauses
  <1>13. Screen(P, d, N \o Y, {e})
    BY <1>9, <1>12 DEF Screen
  <1>14. Alone({e}, {}, <<>>) /\ Single({e}) /\ Single({}) /\ {} \subseteq Run /\ <<>> \in Seq(Nat)
    BY DEF Alone, Single
  <1>15. Worked(P, d, C, N \o Y, {e}, {}, <<>>)
    BY <1>4, <1>12, <1>13, <1>14 DEF Worked
  <1> QED
    BY <1>15 DEF N

LEMMA ProceedWorks ==
    ASSUME NEW P, NEW C \in Seq(Command), NEW d, NEW f \in SUBSET Projection,
           NEW s, Live(s), s.status \in {"RUNNING", "COMPLETED"}, NEW r \in Run, r.count <= s.processed,
           NEW E \in Seq(Event), NEW W \in Seq(Nat), events = E, pausing = W,
           Placed(P, C, {r}, W), Ledger(P, Open(C, {r}, W), E),
           Chain(P, d, E, f), f # {}, \A x \in f : x.status # "FAILED", Proceed(s, r)
    PROVE  Worked(P, d, C, events', session', running', pausing') /\ session' # {}
  <1> DEFINE t == Advanced(s, r)
             e == Ended(t)
  <1>1. /\ Live(t) /\ t.status \in {"RUNNING", "COMPLETED", "FAILED"}
        /\ GoesOn(s, r) => Burst(s, r) \in Nat /\ t.processed = s.processed + Burst(s, r)
    BY AdvancedLive
  <1>2. Live(e) /\ e.status \in {"PAUSED", "COMPLETED", "FAILED"}
    BY <1>1, EndedLive
  <1>3. r.count \in Nat /\ r.sampled \in Nat /\ r.max \in Nat /\ r.id \in Nat
    BY DEF Run
  <1>4. CASE Yields(s, r)
    <2> DEFINE first == r.count = 0
               n == r.count + Burst(s, r)
               m == IF first THEN t.processed ELSE r.sampled
               q == [r EXCEPT !.count = n, !.sampled = m]
               N == IF first THEN Append(E, Updated(r.id, t)) ELSE E
    <2>1. session' = {t} /\ running' = {q} /\ pausing' = W /\ events' = N
      <3>1. /\ running' = {[r EXCEPT !.count = @ + Burst(s, r), !.sampled = IF first THEN t.processed ELSE @]}
            /\ session' = {t} /\ pausing' = W /\ events' = N
        BY <1>4 DEF Proceed
      <3>2. [r EXCEPT !.count = @ + Burst(s, r), !.sampled = IF first THEN t.processed ELSE @] = q
        BY DEF Run
      <3> QED
        BY <3>1, <3>2
    <2>2. GoesOn(s, r) /\ t.status = "RUNNING"
      BY <1>4 DEF Yields
    <2>3. Burst(s, r) \in Nat /\ t.processed = s.processed + Burst(s, r) /\ t.processed \in Nat /\ s.processed \in Nat
      BY <1>1, <2>2, SimulationFields
    <2>4. n \in Nat /\ m \in Nat /\ n <= t.processed
      <3> HIDE DEF t
      <3> QED
        BY <1>3, <2>3
    <2> HIDE DEF n, m, t
    <2>5. q \in Run /\ q.id = r.id /\ q.count = n
      BY <2>4 DEF Run
    <2>6. N \in {E, Append(E, Updated(r.id, t))}
      OBVIOUS
    <2> HIDE DEF q, N
    <2>7. Worked(P, d, C, N, {t}, {q}, W)
      BY <1>1, <2>2, <2>4, <2>5, <2>6, YieldWorks
    <2> QED
      BY <2>1, <2>7
  <1>5. CASE ~Yields(s, r)
    <2> DEFINE X == IF e.status = "FAILED" THEN Failed(r.id, e) ELSE <<Updated(r.id, e), Finished(r.id, e)>>
               Y == [i \in DOMAIN W |-> PauseAnswer(W[i], e)]
    <2>1. session' = {e} /\ running' = {} /\ pausing' = <<>> /\ events' = (E \o X) \o Y
      BY <1>5 DEF Proceed
    <2>2. /\ X = IF e.status = "FAILED" THEN Failed(r.id, e) ELSE <<Updated(r.id, e), Finished(r.id, e)>>
          /\ Y = Answered(W, e)
      BY DEF Answered
    <2> HIDE DEF X, Y, e
    <2>3. Worked(P, d, C, (E \o X) \o Y, {e}, {}, <<>>)
      BY <1>2, <2>2, EndWorks
    <2> QED
      BY <2>1, <2>3
  <1> QED
    BY <1>4, <1>5

-----------------------------------------------------------------------------
(* Commands                                                                 *)

\* What the worker answers at once.
LEMMA TakenReplies ==
    ASSUME NEW P, NEW C \in Seq(Command), NEW R, NEW W \in Seq(Nat), NEW E \in Seq(Event),
           Placed(P, C, R, W), Ledger(P, Open(C, R, W), E), C # <<>>, NEW c, c = Head(C), NEW A, Reply(A, c.id, c.type)
    PROVE  E \o A \in Seq(Event) /\ Ledger(P, Open(Tail(C), R, W), E \o A)
  <1>1. /\ c.id \in Open(C, R, W) /\ [id |-> c.id, type |-> c.type] \in P
        /\ Same(Open(Tail(C), R, W), Open(C, R, W) \ {c.id})
    BY PlacedTaken
  <1>2. Open(C, R, W) \subseteq {p.id : p \in P}
    BY OpenPending
  <1>3. E \o A \in Seq(Event) /\ Ledger(P, Open(C, R, W) \ {c.id}, E \o A)
    BY <1>1, <1>2, LedgerReplies
  <1> QED
    BY <1>1, <1>3 DEF Same

LEMMA TakenRequest ==
    ASSUME NEW P, NEW C \in Seq(Command), NEW R, NEW W, NEW E, NEW O, Placed(P, C, R, W), Ledger(P, O, E),
           C # <<>>, NEW c, c = Head(C)
    PROVE  c \in Command /\ c.id \in Nat /\ \A p \in P : p.id = c.id => p.type = c.type
  <1>1. c = C[1] /\ c \in Command /\ 1 \in 1..Len(C)
    BY TakeFirst
  <1>2. ASSUME NEW p \in P, p.id = c.id PROVE p.type = c.type
    <2> DEFINE q == [id |-> C[1].id, type |-> C[1].type]
    <2>1. q \in P
      BY <1>1 DEF Placed
    <2>2. q.id = c.id /\ q.type = c.type
      BY <1>1
    <2> HIDE DEF q
    <2>3. p = q
      BY <1>2, <2>1, <2>2 DEF Ledger
    <2> QED
      BY <2>2, <2>3
  <1> QED
    BY <1>1, <1>2 DEF Command

\* A command that is answered at once leaves the simulations S.
LEMMA AnswerWorks ==
    ASSUME NEW P, NEW d, NEW C, NEW E, NEW S, NEW R, NEW W, Worked(P, d, C, E, S, R, W), C # <<>>, NEW c, c = Head(C),
           NEW A, Reply(A, c.id, c.type), NEW T, \A t \in T : Live(t), Single(T), Screen(P, d, E \o A, T), Alone(T, R, W)
    PROVE  Worked(P, d, Tail(C), E \o A, T, R, W)
  <1>1. C \in Seq(Command) /\ E \in Seq(Event) /\ W \in Seq(Nat) /\ Placed(P, C, R, W) /\ Ledger(P, Open(C, R, W), E)
    BY DEF Worked
  <1>2. Tail(C) \in Seq(Command) /\ Placed(P, Tail(C), R, W)
    BY <1>1, PlacedTaken
  <1>3. E \o A \in Seq(Event) /\ Ledger(P, Open(Tail(C), R, W), E \o A)
    BY <1>1, TakenReplies
  <1> QED
    BY <1>1, <1>2, <1>3 DEF Worked

\* A command that the adapter refuses.
LEMMA RefusalWorks ==
    ASSUME NEW P, NEW d, NEW C, NEW E, NEW S, NEW R, NEW W, Worked(P, d, C, E, S, R, W), C # <<>>, NEW c, c = Head(C)
    PROVE  Worked(P, d, Tail(C), Append(E, Failure(c.id, "INVALID_WORKER_COMMAND")), S, R, W)
  <1> DEFINE e == Failure(c.id, "INVALID_WORKER_COMMAND")
  <1>1. C \in Seq(Command) /\ E \in Seq(Event) /\ Placed(P, C, R, W) /\ Ledger(P, Open(C, R, W), E)
    BY DEF Worked
  <1>2. "INVALID_WORKER_COMMAND" \in Codes \ {"SIMULATION_FAILED"}
    BY DEF Codes
  <1>3. c.id \in Nat
    BY <1>1, TakenRequest
  <1>4. Reply(<<e>>, c.id, c.type)
    BY <1>2, <1>3, ReplyFailure
  <1>5. PICK f \in SUBSET Projection : Chain(P, d, E, f) /\ \A s \in S : Shows(f, s)
    BY DEF Worked, Screen
  <1>6. Chain(P, d, E \o <<e>>, f)
    BY <1>1, <1>2, <1>3, <1>5, ShowsRefused
  <1>7. e \in Event
    BY <1>2, <1>3, FailureFields
  <1>8. E \o <<e>> = Append(E, e)
    BY <1>1, <1>7, AppendOne
  <1> HIDE DEF e
  <1>9. Screen(P, d, E \o <<e>>, S)
    BY <1>5, <1>6 DEF Screen
  <1>10. (\A s \in S : Live(s)) /\ Single(S) /\ Alone(S, R, W)
    BY DEF Worked
  <1>11. Worked(P, d, Tail(C), E \o <<e>>, S, R, W)
    BY <1>4, <1>9, <1>10, AnswerWorks
  <1> QED
    BY <1>8, <1>11 DEF e

LEMMA SingleOne == ASSUME NEW s PROVE Single({s})
  BY DEF Single

\* Without a run, a simulation is at rest.
LEMMA Resting ==
    ASSUME NEW P, NEW d, NEW C, NEW E, NEW S, NEW W, Worked(P, d, C, E, S, {}, W), NEW s \in S
    PROVE  /\ Live(s) /\ s.status # "RUNNING" /\ W = <<>>
           /\ \E f \in SUBSET Projection :
                 /\ Chain(P, d, E, f)
                 /\ f = {Projected(s)} \/ (f = {} /\ s.status = "FAILED" /\ s.program.withheld)
  <1>1. Live(s) /\ s.status # "RUNNING" /\ W = <<>>
    BY DEF Worked, Alone
  <1>2. PICK f \in SUBSET Projection : Chain(P, d, E, f) /\ Shows(f, s)
    BY DEF Worked, Screen
  <1> QED
    BY <1>1, <1>2 DEF Shows

LEMMA AloneOne == ASSUME NEW t, t.status # "RUNNING" PROVE Alone({t}, {}, <<>>)
  BY DEF Alone

LEMMA LoadWorks ==
    ASSUME NEW P, NEW d, NEW C, NEW E, NEW S, NEW W, Worked(P, d, C, E, S, {}, W), C # <<>>,
           NEW c, c = Head(C), c.type = "load", NEW p \in Program
    PROVE  /\ Worked(P, d, Tail(C), Append(E, Loaded(c.id, Fresh(p))), {Fresh(p)}, {}, W)
           /\ Worked(P, d, Tail(C), Append(E, Failure(c.id, "INVALID_SCENARIO")), {}, {}, W)
  <1> DEFINE t == Fresh(p)
             x == c.id
             a == Loaded(x, t)
             b == Failure(x, "INVALID_SCENARIO")
  <1>1. C \in Seq(Command) /\ E \in Seq(Event) /\ Placed(P, C, {}, W) /\ Ledger(P, Open(C, {}, W), E) /\ W = <<>>
    BY DEF Worked, Alone
  <1>2. x \in Nat /\ \A q \in P : q.id = x => q.type = "load"
    <2>1. c.id \in Nat
      BY <1>1, TakenRequest
    <2>2. ASSUME NEW q \in P, q.id = c.id PROVE q.type = c.type
      BY <1>1, <2>2, TakenRequest
    <2> QED
      BY <2>1, <2>2
  <1>3. "INVALID_SCENARIO" \in Codes \ {"SIMULATION_FAILED"}
    BY DEF Codes
  <1>4. Live(t) /\ t.status = "READY"
    BY FreshLive
  <1> HIDE DEF t, x
  <1>5. a \in Event /\ b \in Event /\ Projected(t) \in Projection
    BY <1>2, <1>3, <1>4, EventFields
  <1>6. Reply(<<a>>, x, "load") /\ Reply(<<b>>, x, "load")
    BY <1>2, <1>3, <1>4, ReplyLoaded, ReplyFailure
  <1>7. PICK f \in SUBSET Projection : Chain(P, d, E, f)
    BY DEF Worked, Screen
  <1>8. Screen(P, d, E \o <<a>>, {t})
    <2>1. Chain(P, d, E \o <<Loaded(x, t)>>, {Projected(t)})
      BY <1>1, <1>2, <1>4, <1>7, ShowsLoaded
    <2>2. Shows({Projected(t)}, t)
      BY <1>4 DEF Shows
    <2> QED
      BY <1>5, <2>1, <2>2 DEF Screen
  <1>9. Screen(P, d, E \o <<b>>, {})
    <2>1. Chain(P, d, E \o <<b>>, f)
      BY <1>1, <1>2, <1>3, <1>7, ShowsRefused
    <2> QED
      BY <2>1 DEF Screen
  <1>10. E \o <<a>> = Append(E, a) /\ E \o <<b>> = Append(E, b)
    BY <1>1, <1>5, AppendOne
  <1> HIDE DEF a, b
  <1>11. Alone({t}, {}, W) /\ Alone({}, {}, W) /\ Single({t}) /\ Single({})
    BY <1>1, <1>4 DEF Alone, Single
  <1>12. Worked(P, d, Tail(C), E \o <<a>>, {t}, {}, W)
    BY <1>4, <1>6, <1>8, <1>11, AnswerWorks DEF x
  <1>13. Worked(P, d, Tail(C), E \o <<b>>, {}, {}, W)
    BY <1>6, <1>9, <1>11, AnswerWorks DEF x
  <1> QED
    BY <1>10, <1>12, <1>13 DEF a, b, t, x

\* A control that fails, or finds that the simulation has.
LEMMA FailedWorks ==
    ASSUME NEW P, NEW d, NEW C, NEW E, NEW S, NEW W, Worked(P, d, C, E, S, {}, W), C # <<>>,
           NEW c, c = Head(C), c.type \in {"run", "step"}, NEW s \in S,
           NEW t, Live(t), t.status = "FAILED", s.status = "FAILED" => t = s
    PROVE  Worked(P, d, Tail(C), E \o Failed(c.id, t), {t}, {}, W)
  <1> DEFINE x == c.id
             A == Failed(x, t)
  <1>1. C \in Seq(Command) /\ E \in Seq(Event) /\ Placed(P, C, {}, W) /\ Ledger(P, Open(C, {}, W), E)
    BY DEF Worked
  <1>2. x \in Nat /\ \A q \in P : q.id = x => q.type = c.type
    BY <1>1, TakenRequest
  <1>3. W = <<>> /\ Live(s)
    BY Resting
  <1>4. PICK f \in SUBSET Projection :
            /\ Chain(P, d, E, f)
            /\ f = {Projected(s)} \/ (f = {} /\ s.status = "FAILED" /\ s.program.withheld)
    BY Resting
  <1> HIDE DEF x
  <1>5. Reply(A, x, c.type)
    BY <1>2, ReplyFailed
  <1>6. (\A y \in f : y.status # "FAILED") \/ f = {Projected(t)}
    BY <1>4 DEF Projected
  <1>7. ~t.program.withheld => f # {}
    BY <1>4
  <1>8. \A q \in P : q.id = x => q.type # "load"
    BY <1>2
  <1>9. \E g \in SUBSET Projection : Chain(P, d, E \o Failed(x, t), g) /\ Shows(g, t)
    BY <1>1, <1>2, <1>4, <1>6, <1>7, <1>8, ShowsFailed
  <1>10. Screen(P, d, E \o A, {t})
    BY <1>9 DEF Screen
  <1> HIDE DEF A
  <1>11. Alone({t}, {}, W) /\ Single({t})
    BY <1>3, AloneOne, SingleOne
  <1>12. Worked(P, d, Tail(C), E \o A, {t}, {}, W)
    BY <1>5, <1>10, <1>11, AnswerWorks DEF x
  <1> QED
    BY <1>12 DEF A, x

\* A control that ends with a projection.
LEMMA UpdatedWorks ==
    ASSUME NEW P, NEW d, NEW C, NEW E, NEW S, NEW W, Worked(P, d, C, E, S, {}, W), C # <<>>,
           NEW c, c = Head(C), c.type \in {"pause", "step", "reset"}, NEW s \in S,
           NEW t, Live(t), t.status \notin {"RUNNING", "FAILED"}, c.type = "reset" \/ s.status # "FAILED",
           NEW u, Live(u), Projected(u) = Projected(t)
    PROVE  Worked(P, d, Tail(C), Append(E, Updated(c.id, u)), {t}, {}, W)
  <1> DEFINE x == c.id
             e == Updated(x, u)
  <1>1. C \in Seq(Command) /\ E \in Seq(Event) /\ Placed(P, C, {}, W) /\ Ledger(P, Open(C, {}, W), E)
    BY DEF Worked
  <1>2. x \in Nat /\ (\A q \in P : q.id = x => q.type = c.type) /\ "none" \in Codes
    <2>1. c.id \in Nat
      BY <1>1, TakenRequest
    <2>2. ASSUME NEW q \in P, q.id = c.id PROVE q.type = c.type
      BY <1>1, <2>2, TakenRequest
    <2> QED
      BY <2>1, <2>2 DEF Codes
  <1>3. W = <<>> /\ Live(s)
    BY Resting
  <1>4. PICK f \in SUBSET Projection :
            /\ Chain(P, d, E, f)
            /\ f = {Projected(s)} \/ (f = {} /\ s.status = "FAILED" /\ s.program.withheld)
    BY Resting
  <1>5. u.status = t.status
    BY DEF Projected
  <1> HIDE DEF x
  <1>6. Reply(<<e>>, x, c.type)
    BY <1>2, <1>5, ReplyUpdated
  <1>7. Fits(P, f, x)
    BY <1>2, <1>4 DEF Fits
  <1>8. Chain(P, d, E \o <<Updated(x, u)>>, {Projected(u)})
    BY <1>1, <1>2, <1>4, <1>7, ShowsUpdated
  <1>9. e \in Event /\ Projected(u) \in Projection
    BY <1>2, EventFields
  <1>10. Shows({Projected(u)}, t)
    BY DEF Shows
  <1>11. Screen(P, d, E \o <<e>>, {t})
    BY <1>8, <1>9, <1>10 DEF Screen
  <1>12. E \o <<e>> = Append(E, e)
    BY <1>1, <1>9, AppendOne
  <1> HIDE DEF e
  <1>13. Alone({t}, {}, W) /\ Single({t})
    BY <1>3, AloneOne, SingleOne
  <1>14. Worked(P, d, Tail(C), E \o <<e>>, {t}, {}, W)
    BY <1>6, <1>11, <1>13, AnswerWorks DEF x
  <1> QED
    BY <1>12, <1>14 DEF e, x

LEMMA StepWorks ==
    ASSUME NEW P, NEW d, NEW C, NEW E, NEW S, NEW W, Worked(P, d, C, E, S, {}, W), C # <<>>,
           NEW c, c = Head(C), c.type = "step", NEW s \in S, NEW t, t = Stepped(s),
           NEW N, N = E \o (IF t.status = "FAILED" THEN Failed(c.id, t) ELSE <<Updated(c.id, t)>>)
    PROVE  Worked(P, d, Tail(C), N, {t}, {}, W)
  <1>1. Live(s)
    BY Resting
  <1>2. Live(t) /\ t.status \in {"PAUSED", "COMPLETED", "FAILED"} /\ (s.status = "FAILED" => t = s)
    BY <1>1, SteppedLive
  <1>3. CASE t.status = "FAILED"
    <2>1. Worked(P, d, Tail(C), E \o Failed(c.id, t), {t}, {}, W)
      BY <1>2, <1>3, FailedWorks
    <2>2. N = E \o Failed(c.id, t)
      BY <1>3
    <2> QED
      BY <2>1, <2>2
  <1>4. CASE t.status # "FAILED"
    <2>1. Worked(P, d, Tail(C), Append(E, Updated(c.id, t)), {t}, {}, W)
      <3>1. t.status \notin {"RUNNING", "FAILED"} /\ s.status # "FAILED"
        BY <1>2, <1>4
      <3> QED
        BY <1>2, <3>1, UpdatedWorks
    <2>2. N = E \o <<Updated(c.id, t)>>
      BY <1>4
    <2>3. E \in Seq(Event) /\ Updated(c.id, t) \in Event
      <3>1. C \in Seq(Command) /\ E \in Seq(Event) /\ Placed(P, C, {}, W) /\ Ledger(P, Open(C, {}, W), E)
        BY DEF Worked
      <3>2. c.id \in Nat /\ "none" \in Codes
        BY <3>1, TakenRequest DEF Codes
      <3> QED
        BY <1>2, <3>1, <3>2, EventFields
    <2> QED
      BY <2>1, <2>2, <2>3, AppendOne
  <1> QED
    BY <1>3, <1>4

LEMMA ResetWorks ==
    ASSUME NEW P, NEW d, NEW C, NEW E, NEW S, NEW W, Worked(P, d, C, E, S, {}, W), C # <<>>,
           NEW c, c = Head(C), c.type = "reset", NEW s \in S
    PROVE  Worked(P, d, Tail(C), Append(E, Updated(c.id, Fresh(s.program))), {Fresh(s.program)}, {}, W)
  <1> DEFINE t == Fresh(s.program)
  <1>1. Live(s)
    BY Resting
  <1>2. Live(t) /\ t.status = "READY"
    BY <1>1, SimulationFields, FreshLive
  <1> HIDE DEF t
  <1>3. Worked(P, d, Tail(C), Append(E, Updated(c.id, t)), {t}, {}, W)
    BY <1>2, UpdatedWorks
  <1> QED
    BY <1>3 DEF t

\* A pause of a simulation that is at rest.
LEMMA PauseWorks ==
    ASSUME NEW P, NEW d, NEW C, NEW E, NEW S, NEW W, Worked(P, d, C, E, S, {}, W), C # <<>>,
           NEW c, c = Head(C), c.type = "pause", NEW s \in S, NEW b \in BOOLEAN, NEW t, t = [s EXCEPT !.pause = b]
    PROVE  Worked(P, d, Tail(C), Append(E, PauseAnswer(c.id, s)), {t}, {}, W)
  <1>1. Live(s) /\ s.status # "RUNNING" /\ W = <<>>
    BY Resting
  <1>2. Live(t) /\ t.status = s.status /\ t.processed = s.processed /\ t.program = s.program
    BY <1>1, PauseLive
  <1>3. Projected(s) = Projected(t)
    BY <1>2 DEF Projected
  <1>4. CASE s.status # "FAILED"
    <2>1. Worked(P, d, Tail(C), Append(E, Updated(c.id, s)), {t}, {}, W)
      BY <1>1, <1>2, <1>3, <1>4, UpdatedWorks
    <2> QED
      BY <1>4, <2>1 DEF PauseAnswer
  <1>5. CASE s.status = "FAILED"
    <2> DEFINE e == Failure(c.id, "SIMULATION_FAILED")
    <2>1. C \in Seq(Command) /\ E \in Seq(Event) /\ Placed(P, C, {}, W) /\ Ledger(P, Open(C, {}, W), E)
      BY DEF Worked
    <2>2. c.id \in Nat
      BY <2>1, TakenRequest
    <2>3. "SIMULATION_FAILED" \in Codes
      BY DEF Codes
    <2>4. e \in Event /\ e.type = "error" /\ e.code = "SIMULATION_FAILED"
      BY <2>2, <2>3, FailureFields
    <2>5. Reply(<<e>>, c.id, c.type)
      BY <2>2, <2>3, ReplyFailure
    <2> HIDE DEF e
    <2>6. PICK f \in SUBSET Projection :
              /\ Chain(P, d, E, f)
              /\ f = {Projected(s)} \/ (f = {} /\ s.status = "FAILED" /\ s.program.withheld)
      BY Resting
    <2>7. Heard(P, f, e) /\ Seen(f, e) = f
      <3>1. Projected(s).status = "FAILED"
        BY <1>5 DEF Projected
      <3> QED
        BY <2>4, <2>6, <3>1 DEF Heard, Seen
    <2>8. E \o <<e>> = Append(E, e)
      BY <2>1, <2>4, AppendOne
    <2>9. Chain(P, d, Append(E, e), f)
      <3>1. Chain(P, d, Append(E, e), Seen(f, e))
        BY <2>1, <2>4, <2>6, <2>7, ChainMore
      <3> QED
        BY <2>7, <3>1
    <2>10. Shows(f, t)
      BY <1>2, <1>3, <1>5, <2>6 DEF Shows
    <2>11. Screen(P, d, E \o <<e>>, {t})
      BY <2>8, <2>9, <2>10 DEF Screen
    <2>12. Alone({t}, {}, W) /\ Single({t})
      BY <1>1, <1>2, AloneOne, SingleOne
    <2>13. Worked(P, d, Tail(C), E \o <<e>>, {t}, {}, W)
      BY <1>2, <2>5, <2>11, <2>12, AnswerWorks
    <2>14. e = PauseAnswer(c.id, s)
      BY <1>5 DEF e, PauseAnswer
    <2> QED
      BY <2>8, <2>13, <2>14
  <1> QED
    BY <1>4, <1>5

\* A pause that waits for the run to end.
LEMMA WaitWorks ==
    ASSUME NEW P, NEW d, NEW C, NEW E, NEW S, NEW R, NEW W, Worked(P, d, C, E, S, R, W), C # <<>>, R # {},
           NEW c, c = Head(C), c.type = "pause", NEW s \in S, NEW b \in BOOLEAN, NEW t, t = [s EXCEPT !.pause = b]
    PROVE  Worked(P, d, Tail(C), E, {t}, R, Append(W, c.id))
  <1>1. /\ C \in Seq(Command) /\ E \in Seq(Event) /\ W \in Seq(Nat) /\ Placed(P, C, R, W) /\ Ledger(P, Open(C, R, W), E)
        /\ Live(s) /\ Single(S) /\ Alone(S, R, W) /\ Screen(P, d, E, S) /\ R \subseteq Run /\ Single(R)
    BY DEF Worked
  <1> DEFINE V == Append(W, c.id)
  <1>2. Live(t) /\ t.status = s.status /\ t.processed = s.processed /\ t.program = s.program
    BY <1>1, PauseLive
  <1>3. /\ Tail(C) \in Seq(Command) /\ V \in Seq(Nat)
        /\ Placed(P, Tail(C), R, V) /\ Same(Open(Tail(C), R, V), Open(C, R, W))
    BY <1>1, PlacedTaken
  <1> HIDE DEF V
  <1>4. Ledger(P, Open(Tail(C), R, V), E)
    BY <1>1, <1>3 DEF Same
  <1>5. Alone({t}, R, V)
    BY <1>1, <1>2 DEF Alone, Single
  <1>6. Screen(P, d, E, {t})
    <2>1. PICK f \in SUBSET Projection : Chain(P, d, E, f) /\ Shows(f, s)
      BY <1>1 DEF Screen
    <2>2. Projected(s) = Projected(t)
      BY <1>2 DEF Projected
    <2>3. Shows(f, t)
      BY <1>2, <2>1, <2>2 DEF Shows
    <2> QED
      BY <2>1, <2>3 DEF Screen
  <1>7. Worked(P, d, Tail(C), E, {t}, R, V)
    BY <1>1, <1>2, <1>3, <1>4, <1>5, <1>6, SingleOne DEF Worked
  <1> QED
    BY <1>7 DEF V

\* The run that a command starts: until it yields, or to its end.
LEMMA StartWorks ==
    ASSUME NEW P, NEW d, NEW C, NEW E, NEW S, NEW W, Worked(P, d, C, E, S, {}, W), C # <<>>,
           NEW c, c = Head(C), c.type = "run", NEW s \in S, s.status # "FAILED", events = E, pausing = W,
           NEW begun, begun = [s EXCEPT !.pause = IF s.status = "COMPLETED" THEN @ ELSE FALSE,
                                        !.status = IF s.processed = s.program.length THEN "COMPLETED" ELSE "RUNNING"],
           NEW r, r = [id |-> c.id, max |-> c.max, count |-> 0, sampled |-> 0],
           Proceed(begun, r)
    PROVE  Worked(P, d, Tail(C), events', session', running', pausing') /\ session' # {}
  <1>1. C \in Seq(Command) /\ E \in Seq(Event) /\ W \in Seq(Nat) /\ Placed(P, C, {}, W) /\ Ledger(P, Open(C, {}, W), E)
    BY DEF Worked
  <1>2. Live(s) /\ s.status # "RUNNING"
    BY Resting
  <1>3. PICK f \in SUBSET Projection :
            /\ Chain(P, d, E, f)
            /\ f = {Projected(s)} \/ (f = {} /\ s.status = "FAILED" /\ s.program.withheld)
    BY Resting
  <1>4. f # {} /\ \A y \in f : y.status # "FAILED"
    <2>1. f = {Projected(s)}
      BY <1>3
    <2>2. Projected(s).status # "FAILED"
      BY DEF Projected
    <2> QED
      BY <2>1, <2>2
  <1>5. Live(begun) /\ begun.status \in {"RUNNING", "COMPLETED"} /\ begun.processed = s.processed
    <2> DEFINE b == IF s.status = "COMPLETED" THEN s.pause ELSE FALSE
               status == IF s.processed = s.program.length THEN "COMPLETED" ELSE "RUNNING"
    <2>1. b \in BOOLEAN /\ status \in {"RUNNING", "COMPLETED"} /\ {"RUNNING", "COMPLETED"} \subseteq Statuses
      BY <1>2, SimulationFields DEF Statuses
    <2>2. begun = [s EXCEPT !.pause = b, !.status = status]
      BY <1>2, SimulationFields DEF Simulation
    <2> HIDE DEF b, status
    <2> QED
      BY <1>2, <2>1, <2>2 DEF Live, Simulation
  <1>6. c \in Command /\ c.id \in Nat
    BY <1>1, TakenRequest
  <1>7. r \in Run /\ r.id = c.id /\ r.count <= begun.processed
    <2>1. c.max \in Nat
      BY <1>6 DEF Command
    <2>2. r \in Run /\ r.id = c.id /\ r.count = 0
      BY <1>6, <2>1 DEF Run
    <2> QED
      BY <1>2, <1>5, <2>2, SimulationFields
  <1>8. Tail(C) \in Seq(Command) /\ Placed(P, Tail(C), {r}, W) /\ Ledger(P, Open(Tail(C), {r}, W), E)
    <2>1. Tail(C) \in Seq(Command) /\ Placed(P, Tail(C), {c}, W) /\ Same(Open(Tail(C), {c}, W), Open(C, {}, W))
      BY <1>1, PlacedTaken
    <2>2. Placed(P, Tail(C), {r}, W) /\ Same(Open(Tail(C), {r}, W), Open(Tail(C), {c}, W))
      BY <1>7, <2>1, PlacedSame
    <2> QED
      BY <1>1, <2>1, <2>2 DEF Same
  <1> QED
    BY <1>1, <1>3, <1>4, <1>5, <1>7, <1>8, ProceedWorks

-----------------------------------------------------------------------------
(* The tasks of the worker                                                  *)

\* While a load waits, the worker has no other request.
LEMMA LoadAlone ==
    ASSUME IInv, commands # <<>>, NEW c, c = Head(commands)
    PROVE  /\ worker /\ c.id \in Nat
           /\ c.type # "load" => session # {} /\ \A p \in pending : p.type # "load"
           /\ c.type = "load" => \A i \in 1..Len(events) : events[i].type # "loaded"
           /\ c.type = "load" => \E p \in pending : p.type = "load"
  <1>1. /\ commands \in Seq(Command) /\ pausing \in Seq(Nat) /\ events \in Seq(Event)
        /\ Placed(pending, commands, running, pausing) /\ Ledger(pending, Open(commands, running, pausing), events)
    BY DEF IInv, Worked
  <1>2. c \in Command /\ [id |-> c.id, type |-> c.type] \in pending /\ c.id \in Open(commands, running, pausing)
    BY <1>1, PlacedTaken
  <1>3. worker
    BY DEF IInv, Stages
  <1>4. c.id \in Nat
    BY <1>2 DEF Command
  <1> DEFINE q == [id |-> c.id, type |-> c.type]
  <1>5. q \in pending /\ q.id = c.id /\ q.type = c.type
    BY <1>2
  <1> HIDE DEF q
  <1>6. ASSUME c.type # "load" PROVE session # {} /\ \A p \in pending : p.type # "load"
    <2>1. \A p \in pending : p.type # "load"
      BY <1>5, <1>6 DEF IInv, Stages
    <2> QED
      BY <1>3, <2>1 DEF IInv, Stages
  <1>7. ASSUME c.type = "load", NEW i \in 1..Len(events), events[i].type = "loaded" PROVE FALSE
    <2>1. PICK p \in pending : p.id = events[i].id
      BY <1>1 DEF Ledger
    <2>2. p = q
      BY <1>5, <1>7 DEF IInv, Stages
    <2>3. Last(p, events[i])
      BY <1>7, <2>1 DEF Last, Settles
    <2>4. p.id \notin Open(commands, running, pausing)
      BY <1>1, <2>3 DEF Ledger
    <2> QED
      BY <1>2, <1>5, <2>2, <2>4
  <1> QED
    BY <1>3, <1>4, <1>5, <1>6, <1>7

LEMMA ReceiveStep == ASSUME IInv, Receive PROVE IInv'
  <1> DEFINE c == Head(commands)
  <1>1. commands # <<>> /\ commands' = Tail(commands) /\ UNCHANGED host
    BY DEF Receive
  <1>2. Worked(pending, projection, commands, events, session, running, pausing)
    BY DEF IInv
  <1>3. events \in Seq(Event)
    BY <1>2 DEF Worked
  <1>4. /\ worker /\ c.id \in Nat
        /\ c.type # "load" => session # {} /\ \A p \in pending : p.type # "load"
        /\ c.type = "load" => \A i \in 1..Len(events) : events[i].type # "loaded"
        /\ c.type = "load" => \E p \in pending : p.type = "load"
    BY <1>1, LoadAlone
  <1>5. Stages
    BY DEF IInv
  <1>6. HostTyped'
    BY <1>1 DEF IInv, HostTyped, Single, host
  <1>7. ASSUME Worked(pending, projection, Tail(commands), events', session', running', pausing'), Stages' PROVE IInv'
    BY <1>1, <1>6, <1>7 DEF IInv, host
  \* An answer of the adapter itself.
  <1>8. ASSUME events' = Append(events, Failure(c.id, "INVALID_WORKER_COMMAND")), UNCHANGED <<session, running, pausing>>
        PROVE  IInv'
    <2> DEFINE e == Failure(c.id, "INVALID_WORKER_COMMAND")
    <2>1. Worked(pending, projection, Tail(commands), Append(events, e), session, running, pausing)
      BY <1>1, <1>2, RefusalWorks
    <2>2. e \in Event /\ e.type = "error"
      BY <1>4, FailureFields DEF Codes
    <2> HIDE DEF e
    <2>3. \A i \in 1..Len(Append(events, e)) : Append(events, e)[i].type = "loaded" => i \in 1..Len(events) /\ Append(events, e)[i] = events[i]
      BY <1>3, <2>2
    <2>4. events' = Append(events, e)
      BY <1>8 DEF e
    <2> HIDE DEF c
    <2>5. Stages'
      BY <1>1, <1>4, <1>5, <1>8, <2>3, <2>4 DEF Stages, host
    <2> QED
      BY <1>7, <1>8, <2>1, <2>4, <2>5
  \* A control that is carried out.
  <1>9. ASSUME c.type # "load", session' # {},
               Worked(pending, projection, Tail(commands), events', session', running', pausing')
        PROVE  IInv'
    <2> HIDE DEF c
    <2>1. Stages'
      BY <1>1, <1>4, <1>5, <1>9 DEF Stages, host
    <2> QED
      BY <1>7, <1>9, <2>1
  <1>10. CASE ~Busy(c) /\ c.type = "load" /\ Load(c)
    <2>1. running = {} /\ UNCHANGED <<running, pausing>>
      BY <1>10 DEF Busy, Load
    <2>2. CASE \E p \in Program : session' = {Fresh(p)} /\ Say(Loaded(c.id, Fresh(p)))
      <3>1. PICK p \in Program : session' = {Fresh(p)} /\ events' = Append(events, Loaded(c.id, Fresh(p)))
        BY <2>2 DEF Say
      <3>2. Worked(pending, projection, Tail(commands), Append(events, Loaded(c.id, Fresh(p))), {Fresh(p)}, {}, pausing)
        BY <1>1, <1>2, <1>10, <2>1, LoadWorks
      <3>3. Stages'
        <4> HIDE DEF c
        <4> QED
          BY <1>1, <1>4, <1>5, <3>1 DEF Stages, host
      <3> QED
        BY <1>7, <2>1, <3>1, <3>2, <3>3
    <2>3. CASE session' = {} /\ Say(Failure(c.id, "INVALID_SCENARIO"))
      <3> DEFINE e == Failure(c.id, "INVALID_SCENARIO")
      <3>1. Worked(pending, projection, Tail(commands), Append(events, e), {}, {}, pausing)
        <4>1. PICK p \in Program : TRUE
          <5>1. [length |-> 0, fails |-> 0, withheld |-> FALSE] \in Program
            BY SessionAssumption DEF Program
          <5> QED
            BY <5>1
        <4> QED
          BY <1>1, <1>2, <1>10, <2>1, LoadWorks
      <3>2. e \in Event /\ e.type = "error"
        BY <1>4, FailureFields DEF Codes
      <3>3. events' = Append(events, e)
        BY <2>3 DEF Say
      <3> HIDE DEF e
      <3>4. \A i \in 1..Len(Append(events, e)) : Append(events, e)[i].type # "loaded"
        <4>1. \A i \in 1..Len(events) : events[i].type # "loaded"
          BY <1>4, <1>10
        <4> QED
          BY <1>3, <3>2, <4>1
      <3>5. Stages'
        <4>1. \E p \in pending : p.type = "load"
          BY <1>4, <1>10
        <4> HIDE DEF c
        <4> QED
          BY <1>1, <1>4, <1>5, <3>3, <3>4, <4>1 DEF Stages, host
      <3> QED
        BY <1>7, <2>1, <2>3, <3>1, <3>3, <3>5
    <2> QED
      BY <1>10, <2>2, <2>3 DEF Load
  <1>11. CASE ~Busy(c) /\ c.type = "run" /\ StartRun(c)
    <2>1. running = {}
      BY <1>11 DEF Busy
    <2>2. PICK s \in session :
              IF s.status = "FAILED"
              THEN events' = events \o Failed(c.id, s) /\ UNCHANGED <<session, running, pausing>>
              ELSE LET begun == [s EXCEPT !.pause = IF s.status = "COMPLETED" THEN @ ELSE FALSE,
                                          !.status = IF s.processed = s.program.length THEN "COMPLETED" ELSE "RUNNING"]
                   IN  Proceed(begun, [id |-> c.id, max |-> c.max, count |-> 0, sampled |-> 0])
      BY <1>11 DEF StartRun
    <2>3. CASE s.status = "FAILED"
      <3>1. events' = events \o Failed(c.id, s) /\ UNCHANGED <<session, running, pausing>>
        BY <2>2, <2>3
      <3>2. Live(s) /\ session = {s}
        BY <1>2 DEF Worked, Single
      <3>3. Worked(pending, projection, Tail(commands), events \o Failed(c.id, s), {s}, {}, pausing)
        BY <1>1, <1>2, <1>11, <2>1, <2>3, <3>2, FailedWorks
      <3> QED
        BY <1>9, <1>11, <2>1, <3>1, <3>2, <3>3
    <2>4. CASE s.status # "FAILED"
      <3> DEFINE begun == [s EXCEPT !.pause = IF s.status = "COMPLETED" THEN @ ELSE FALSE,
                                    !.status = IF s.processed = s.program.length THEN "COMPLETED" ELSE "RUNNING"]
                 r == [id |-> c.id, max |-> c.max, count |-> 0, sampled |-> 0]
      <3>1. Proceed(begun, r)
        BY <2>2, <2>4
      <3>2. Worked(pending, projection, Tail(commands), events', session', running', pausing') /\ session' # {}
        <4>1. /\ begun = [s EXCEPT !.pause = IF s.status = "COMPLETED" THEN @ ELSE FALSE,
                                   !.status = IF s.processed = s.program.length THEN "COMPLETED" ELSE "RUNNING"]
              /\ r = [id |-> c.id, max |-> c.max, count |-> 0, sampled |-> 0]
          OBVIOUS
        <4>2. Worked(pending, projection, commands, events, session, {}, pausing)
          BY <1>2, <2>1
        <4> HIDE DEF begun, r
        <4> QED
          BY <1>1, <1>11, <2>4, <3>1, <4>1, <4>2, StartWorks
      <3> QED
        BY <1>9, <1>11, <3>2
    <2> QED
      BY <2>3, <2>4
  <1>12. CASE ~Busy(c) /\ c.type = "step" /\ Step(c)
    <2>1. running = {}
      BY <1>12 DEF Busy
    <2>2. PICK s \in session :
              /\ session' = {Stepped(s)}
              /\ events' = events \o (IF Stepped(s).status = "FAILED" THEN Failed(c.id, Stepped(s))
                                      ELSE <<Updated(c.id, Stepped(s))>>)
              /\ UNCHANGED <<running, pausing>>
      BY <1>12 DEF Step
    <2> DEFINE t == Stepped(s)
               N == events \o (IF t.status = "FAILED" THEN Failed(c.id, t) ELSE <<Updated(c.id, t)>>)
    <2>3. Worked(pending, projection, Tail(commands), N, {t}, {}, pausing)
      <3>1. Worked(pending, projection, commands, events, session, {}, pausing)
        BY <1>2, <2>1
      <3>2. t = Stepped(s) /\ N = events \o (IF t.status = "FAILED" THEN Failed(c.id, t) ELSE <<Updated(c.id, t)>>)
        OBVIOUS
      <3> HIDE DEF t, N
      <3> QED
        BY <1>1, <1>12, <3>1, <3>2, StepWorks
    <2> QED
      BY <1>9, <1>12, <2>1, <2>2, <2>3
  <1>13. CASE ~Busy(c) /\ c.type = "reset" /\ Reset(c)
    <2>1. running = {}
      BY <1>13 DEF Busy
    <2>2. PICK s \in session :
              /\ session' = {Fresh(s.program)} /\ events' = Append(events, Updated(c.id, Fresh(s.program)))
              /\ UNCHANGED <<running, pausing>>
      BY <1>13 DEF Reset, Say
    <2>3. Worked(pending, projection, Tail(commands), Append(events, Updated(c.id, Fresh(s.program))), {Fresh(s.program)}, {}, pausing)
      <3>1. Worked(pending, projection, commands, events, session, {}, pausing)
        BY <1>2, <2>1
      <3> QED
        BY <1>1, <1>13, <3>1, ResetWorks
    <2> QED
      BY <1>9, <1>13, <2>1, <2>2, <2>3
  <1>14. CASE ~Busy(c) /\ c.type = "pause" /\ Pause(c)
    <2>1. PICK s \in session :
              /\ session' = {[s EXCEPT !.pause = @ \/ s.status = "RUNNING"]}
              /\ \/ running = {} /\ Say(PauseAnswer(c.id, s)) /\ UNCHANGED pausing
                 \/ running # {} /\ pausing' = Append(pausing, c.id) /\ UNCHANGED events
              /\ UNCHANGED running
      BY <1>14 DEF Pause
    <2> DEFINE b == s.pause \/ s.status = "RUNNING"
               t == [s EXCEPT !.pause = b]
    <2>2. session' = {t} /\ b \in BOOLEAN
      <3>1. s \in Simulation
        BY <1>2 DEF Worked, Live
      <3> QED
        BY <2>1, <3>1 DEF Simulation
    <2>3. t = [s EXCEPT !.pause = b]
      OBVIOUS
    <2> HIDE DEF b, t
    <2>4. CASE running = {}
      <3>1. events' = Append(events, PauseAnswer(c.id, s)) /\ UNCHANGED <<running, pausing>>
        BY <2>1, <2>4 DEF Say
      <3>2. Worked(pending, projection, commands, events, session, {}, pausing)
        BY <1>2, <2>4
      <3>3. Worked(pending, projection, Tail(commands), Append(events, PauseAnswer(c.id, s)), {t}, {}, pausing)
        BY <1>1, <1>14, <2>2, <2>3, <3>2, PauseWorks
      <3> QED
        BY <1>9, <1>14, <2>2, <2>4, <3>1, <3>3
    <2>5. CASE running # {}
      <3>1. events' = events /\ pausing' = Append(pausing, c.id) /\ running' = running
        BY <2>1, <2>5
      <3>2. Worked(pending, projection, Tail(commands), events, {t}, running, Append(pausing, c.id))
        BY <1>1, <1>2, <1>14, <2>2, <2>3, <2>5, WaitWorks
      <3> QED
        BY <1>9, <1>14, <2>2, <3>1, <3>2
    <2> QED
      BY <2>4, <2>5
  <1> QED
    BY <1>8, <1>10, <1>11, <1>12, <1>13, <1>14 DEF Receive, Say

\* While a run is in progress no load waits.
LEMMA RunStages ==
    ASSUME IInv, NEW r \in running
    PROVE  worker /\ session # {} /\ \A p \in pending : p.type # "load"
  <1>1. worker
    BY DEF IInv, Stages
  <1>2. session # {}
    BY DEF IInv, Worked, Alone
  <1>3. [id |-> r.id, type |-> "run"] \in pending
    BY DEF IInv, Worked, Placed
  <1> QED
    BY <1>1, <1>2, <1>3 DEF IInv, Stages

LEMMA GoesOnStages ==
    ASSUME Stages, worker, \A p \in pending : p.type # "load", session' # {}, UNCHANGED <<host, commands>>
    PROVE  Stages'
  BY DEF Stages, host

LEMMA ResumeStep == ASSUME IInv, Resume PROVE IInv'
  <1>1. PICK r \in running, s \in session : Proceed(s, r)
    BY DEF Resume
  <1>2. UNCHANGED <<host, commands>>
    BY DEF Resume
  <1>3. /\ commands \in Seq(Command) /\ events \in Seq(Event) /\ pausing \in Seq(Nat)
        /\ running = {r} /\ r \in Run /\ session = {s} /\ Live(s)
        /\ Placed(pending, commands, running, pausing) /\ Ledger(pending, Open(commands, running, pausing), events)
    BY <1>1 DEF IInv, Worked, Single
  <1>4. s.status = "RUNNING" /\ r.count <= s.processed
    <2>1. s.status = "RUNNING" /\ s.processed >= r.count
      BY <1>1, <1>3 DEF IInv, Worked, Alone
    <2> QED
      BY <1>3, <2>1, SimulationFields DEF Run
  <1>5. PICK f \in SUBSET Projection : Chain(pending, projection, events, f) /\ Shows(f, s)
    BY <1>1 DEF IInv, Worked, Screen
  <1>6. f # {} /\ \A x \in f : x.status # "FAILED"
    BY <1>4, <1>5 DEF Shows
  <1>7. Worked(pending, projection, commands, events', session', running', pausing') /\ session' # {}
    <2>1. Placed(pending, commands, {r}, pausing) /\ Ledger(pending, Open(commands, {r}, pausing), events)
      BY <1>3
    <2> QED
      BY <1>1, <1>3, <1>4, <1>5, <1>6, <2>1, ProceedWorks
  <1>8. Stages'
    BY <1>1, <1>2, <1>7, RunStages, GoesOnStages DEF IInv
  <1> QED
    BY <1>2, <1>7, <1>8 DEF IInv, HostTyped, Single, host

LEMMA SampleStep == ASSUME IInv, Sample PROVE IInv'
  <1>1. PICK r \in running, s \in session :
            running' = {[r EXCEPT !.sampled = s.processed]} /\ events' = Append(events, Updated(r.id, s))
    BY DEF Sample, Say
  <1>2. UNCHANGED <<host, commands, session, pausing>>
    BY DEF Sample
  <1>3. /\ commands \in Seq(Command) /\ events \in Seq(Event) /\ pausing \in Seq(Nat)
        /\ running = {r} /\ r \in Run /\ session = {s} /\ Live(s)
        /\ Placed(pending, commands, running, pausing) /\ Ledger(pending, Open(commands, running, pausing), events)
    BY <1>1 DEF IInv, Worked, Single
  <1>4. s.status = "RUNNING" /\ s.processed >= r.count
    BY <1>1, <1>3 DEF IInv, Worked, Alone
  <1>5. PICK f \in SUBSET Projection : Chain(pending, projection, events, f) /\ Shows(f, s)
    BY <1>1 DEF IInv, Worked, Screen
  <1>6. f # {} /\ \A x \in f : x.status # "FAILED"
    BY <1>4, <1>5 DEF Shows
  <1> DEFINE q == [r EXCEPT !.sampled = s.processed]
             N == Append(events, Updated(r.id, s))
  <1>7. q \in Run /\ q.id = r.id /\ q.count <= s.processed
    <2>1. s.processed \in Nat
      BY <1>3, SimulationFields
    <2>2. q \in Run /\ q.id = r.id /\ q.count = r.count
      BY <1>3, <2>1 DEF Run
    <2> HIDE DEF q
    <2> QED
      BY <1>3, <1>4, <2>1, <2>2 DEF Run
  <1>8. running' = {q} /\ events' = N /\ N \in {events, Append(events, Updated(r.id, s))}
    BY <1>1
  <1> HIDE DEF q, N
  <1>9. Worked(pending, projection, commands, N, {s}, {q}, pausing)
    <2>1. Placed(pending, commands, {r}, pausing) /\ Ledger(pending, Open(commands, {r}, pausing), events)
      BY <1>3
    <2> QED
      BY <1>3, <1>4, <1>5, <1>6, <1>7, <1>8, <2>1, YieldWorks
  <1>10. Stages'
    BY <1>1, <1>2, <1>3, RunStages, GoesOnStages DEF IInv
  <1> QED
    BY <1>2, <1>3, <1>8, <1>9, <1>10 DEF IInv, HostTyped, Single, host

-----------------------------------------------------------------------------
(* The calls of the page                                                    *)

\* Nothing is asked of a worker that is new, or of none.
LEMMA NothingWorks == Worked({}, {}, <<>>, <<>>, {}, {}, <<>>)
  <1>1. Len(<<>>) = 0 /\ 1..Len(<<>>) = {}
    OBVIOUS
  <1>2. Placed({}, <<>>, {}, <<>>) /\ Open(<<>>, {}, <<>>) = {}
    BY <1>1 DEF Placed, Open
  <1>3. Ledger({}, {}, <<>>)
    BY <1>1 DEF Ledger
  <1>4. Screen({}, {}, <<>>, {})
    <2>1. {} \in SUBSET Projection
      OBVIOUS
    <2> QED
      BY <2>1, ChainNone DEF Screen
  <1>5. Alone({}, {}, <<>>) /\ Single({}) /\ {} \subseteq Run
    BY DEF Alone, Single
  <1> QED
    BY <1>2, <1>3, <1>4, <1>5 DEF Worked

\* A new request is with the worker.
LEMMA AskWorks ==
    ASSUME NEW P, NEW d, NEW C, NEW E, NEW S, NEW R, NEW W, Worked(P, d, C, E, S, R, W),
           NEW c \in Command, NEW p, p = [id |-> c.id, type |-> c.type], \A q \in P : q.id # c.id
    PROVE  Worked(P \cup {p}, d, Append(C, c), E, S, R, W)
  <1> DEFINE Q == P \cup {p}
             D == Append(C, c)
  <1>1. /\ C \in Seq(Command) /\ E \in Seq(Event) /\ W \in Seq(Nat) /\ Placed(P, C, R, W)
        /\ Ledger(P, Open(C, R, W), E) /\ Screen(P, d, E, S)
    BY DEF Worked
  <1>2. /\ D \in Seq(Command) /\ Len(C) \in Nat /\ Len(D) = Len(C) + 1 /\ D[Len(C) + 1] = c
        /\ \A i \in 1..Len(C) : D[i] = C[i]
    BY <1>1
  <1>3. p \in Q /\ P \subseteq Q /\ p.id = c.id
    OBVIOUS
  <1> HIDE DEF D, Q
  <1>4. \A i \in 1..Len(D) : i \in 1..Len(C) \/ i = Len(C) + 1
    BY <1>2
  <1>5. c.id \notin Open(C, R, W)
    <2>1. Open(C, R, W) \subseteq {q.id : q \in P}
      BY <1>1, OpenPending
    <2> QED
      BY <2>1
  <1>6. {D[i].id : i \in 1..Len(D)} = {C[i].id : i \in 1..Len(C)} \cup {c.id}
    <2>1. \A i \in 1..Len(C) : i \in 1..Len(D)
      BY <1>2
    <2>2. Len(C) + 1 \in 1..Len(D)
      BY <1>2
    <2> QED
      BY <1>2, <1>4, <2>1, <2>2
  <1>7. Open(D, R, W) = Open(C, R, W) \cup {c.id} /\ Open(D, {}, W) = Open(C, {}, W) \cup {c.id}
    BY <1>6 DEF Open
  <1>8. Placed(Q, D, R, W)
    <2>1. \A i \in 1..Len(D) : [id |-> D[i].id, type |-> D[i].type] \in Q
      <3>1. SUFFICES ASSUME NEW i \in 1..Len(D) PROVE [id |-> D[i].id, type |-> D[i].type] \in Q
        OBVIOUS
      <3>2. CASE i \in 1..Len(C)
        BY <1>1, <1>2, <1>3, <3>2 DEF Placed
      <3>3. CASE i = Len(C) + 1
        BY <1>2, <1>3, <3>3
      <3> QED
        BY <1>4, <3>2, <3>3
    <2>2. \A i, j \in 1..Len(D) : D[i].id = D[j].id => i = j
      <3>1. \A i \in 1..Len(C) : C[i].id # c.id
        BY <1>5 DEF Open
      <3> QED
        BY <1>1, <1>2, <1>4, <3>1 DEF Placed
    <2>3. \A r \in R : r.id \notin Open(D, {}, W)
      <3>1. \A r \in R : r.id # c.id
        BY <1>5 DEF Open
      <3> QED
        BY <1>1, <1>7, <3>1 DEF Placed
    <2>4. \A i \in 1..Len(D) : D[i].id \notin Open(<<>>, {}, W)
      <3>1. Open(<<>>, {}, W) \subseteq Open(C, R, W)
        BY DEF Open
      <3>2. SUFFICES ASSUME NEW i \in 1..Len(D) PROVE D[i].id \notin Open(<<>>, {}, W)
        OBVIOUS
      <3>3. CASE i \in 1..Len(C)
        BY <1>1, <1>2, <3>3 DEF Placed
      <3>4. CASE i = Len(C) + 1
        BY <1>2, <1>5, <3>1, <3>4
      <3> QED
        BY <1>4, <3>3, <3>4
    <2> QED
      BY <1>1, <1>3, <2>1, <2>2, <2>3, <2>4 DEF Placed
  <1>9. Ledger(Q, Open(D, R, W), E)
    <2>1. Ledger(P \cup {p}, Open(C, R, W) \cup {p.id}, E)
      BY <1>1, LedgerAsks
    <2> QED
      BY <1>3, <1>7, <2>1 DEF Q
  <1>10. Screen(Q, d, E, S)
    <2>1. PICK f \in SUBSET Projection : Chain(P, d, E, f) /\ \A s \in S : Shows(f, s)
      BY <1>1 DEF Screen
    <2>2. \A i \in 1..Len(E) : E[i].id # c.id
      BY <1>1 DEF Ledger
    <2>3. \A q \in Q : q \in P \/ \A i \in 1..Len(E) : E[i].id # q.id
      BY <1>3, <2>2 DEF Q
    <2>4. Chain(Q, d, E, f)
      BY <1>1, <2>1, <2>3, ChainPending
    <2> QED
      BY <2>1, <2>4 DEF Screen
  <1>11. (\A s \in S : Live(s)) /\ Single(S) /\ R \subseteq Run /\ Single(R) /\ Alone(S, R, W)
    BY DEF Worked
  <1>12. Worked(Q, d, D, E, S, R, W)
    BY <1>1, <1>2, <1>8, <1>9, <1>10, <1>11 DEF Worked
  <1> QED
    BY <1>12 DEF Q, D

LEMMA ReleaseStep ==
    ASSUME Release, pending' = {}, projection' = {}, HostTyped' PROVE IInv'
  <1>1. Worked({}, {}, <<>>, <<>>, {}, {}, <<>>)
    BY NothingWorks
  <1>2. Worked(pending, projection, commands, events, session, running, pausing)'
    BY <1>1 DEF Release
  <1>3. Stages'
    BY DEF Release, Stages
  <1> QED
    BY <1>2, <1>3 DEF IInv

LEMMA HostClosed ==
    ASSUME HostTyped, Release, pending' = {}, projection' = {}, error' \in Codes, loading' = FALSE, calls' \in {calls, calls + 1},
           calls' <= MaxCalls
    PROVE  HostTyped'
  <1>1. worker' \in BOOLEAN /\ loading' \in BOOLEAN
    BY DEF Release
  <1>2. calls' \in 0..MaxCalls
    BY SessionAssumption DEF HostTyped
  <1>3. pending' \subseteq Request /\ \A p \in pending' : p.id \in 1..calls'
    OBVIOUS
  <1>4. projection' \subseteq Projection /\ Single(projection)'
    BY DEF Single
  <1> QED
    BY <1>1, <1>2, <1>3, <1>4 DEF HostTyped

LEMMA CallTyped == ASSUME HostTyped, NextCall PROVE calls' = calls + 1 /\ calls' \in 0..MaxCalls /\ calls' <= MaxCalls /\ calls' \in Nat
  BY SessionAssumption DEF HostTyped, NextCall

LEMMA UnavailableStep ==
    ASSUME IInv, Unavailable, calls' \in {calls, calls + 1}, calls' <= MaxCalls PROVE IInv'
  <1>1. Release /\ pending' = {} /\ projection' = {} /\ error' = "WORKER_UNAVAILABLE" /\ loading' = FALSE
    BY DEF Unavailable, Show
  <1> QED
    BY <1>1, HostClosed, ReleaseStep DEF IInv, Codes

LEMMA CallLoadStep == ASSUME IInv, CallLoad PROVE IInv'
  <1>1. calls' = calls + 1 /\ calls' \in 0..MaxCalls /\ calls' <= MaxCalls /\ calls' \in Nat
    BY CallTyped DEF IInv, CallLoad
  <1>2. CASE Unavailable
    BY <1>1, <1>2, UnavailableStep
  <1>3. CASE Release /\ pending' = {} /\ Show({}, "INVALID_WORKER_COMMAND", FALSE)
    <2>1. projection' = {} /\ error' = "INVALID_WORKER_COMMAND" /\ loading' = FALSE
      BY <1>3 DEF Show
    <2> QED
      BY <1>1, <1>3, <2>1, HostClosed, ReleaseStep DEF IInv, Codes
  <1>4. CASE /\ worker' = TRUE
             /\ pending' = {[id |-> calls', type |-> "load"]}
             /\ Show({}, "none", TRUE)
             /\ commands' = <<[id |-> calls', type |-> "load", max |-> 0]>>
             /\ events' = <<>> /\ session' = {} /\ running' = {} /\ pausing' = <<>>
    <2> DEFINE p == [id |-> calls', type |-> "load"]
               c == [id |-> calls', type |-> "load", max |-> 0]
    <2>1. c \in Command /\ p = [id |-> c.id, type |-> c.type] /\ p.id = calls' /\ p.type = "load" /\ p \in Request
      BY <1>1 DEF Command, Request, Types
    <2>2. /\ worker' = TRUE /\ pending' = {p} /\ projection' = {} /\ error' = "none" /\ loading' = TRUE
          /\ commands' = <<c>> /\ events' = <<>> /\ session' = {} /\ running' = {} /\ pausing' = <<>>
      BY <1>4 DEF Show
    <2> HIDE DEF p, c
    <2>3. Worked({} \cup {p}, {}, Append(<<>>, c), <<>>, {}, {}, <<>>)
      <3>1. \A q \in {} : q.id # c.id
        OBVIOUS
      <3> QED
        BY <2>1, <3>1, NothingWorks, AskWorks
    <2>4. {} \cup {p} = {p} /\ Append(<<>>, c) = <<c>>
      BY <2>1
    <2>5. Worked({p}, {}, <<c>>, <<>>, {}, {}, <<>>)
      BY <2>3, <2>4
    <2>6. Worked(pending, projection, commands, events, session, running, pausing)'
      BY <2>2, <2>5
    <2>7. Stages'
      BY <2>1, <2>2 DEF Stages
    <2>8. HostTyped'
      <3>1. calls' \in 1..calls'
        BY <1>1 DEF IInv, HostTyped
      <3>2. worker' \in BOOLEAN /\ loading' \in BOOLEAN /\ error' \in Codes /\ calls' \in 0..MaxCalls
        BY <1>1, <2>2 DEF Codes
      <3>3. pending' \subseteq Request /\ \A q \in pending' : q.id \in 1..calls'
        BY <2>1, <2>2, <3>1
      <3>4. projection' \subseteq Projection /\ Single(projection')
        BY <2>2 DEF Single
      <3> QED
        BY <3>2, <3>3, <3>4 DEF HostTyped, Single
    <2> QED
      BY <2>6, <2>7, <2>8 DEF IInv
  <1> QED
    BY <1>2, <1>3, <1>4 DEF CallLoad

LEMMA CallControlStep ==
    ASSUME IInv, NEW type \in {"run", "pause", "step", "reset"}, NEW max \in Nat, CallControl(type, max) PROVE IInv'
  <1>1. calls' = calls + 1 /\ calls' \in 0..MaxCalls /\ calls' <= MaxCalls /\ calls' \in Nat
    BY CallTyped DEF IInv, CallControl
  <1>2. CASE Unavailable
    BY <1>1, <1>2, UnavailableStep
  <1>3. CASE /\ \/ Refused(type) /\ Show(projection, "WORKER_UNAVAILABLE", loading)
                \/ Show(projection, "INVALID_WORKER_COMMAND", loading)
             /\ UNCHANGED <<worker, pending, commands, events, session, running, pausing>>
    <2>1. /\ projection' = projection /\ loading' = loading /\ error' \in Codes \ {"SIMULATION_FAILED"}
          /\ UNCHANGED <<worker, pending, commands, events, session, running, pausing>>
      BY <1>3 DEF Show, Codes
    <2>2. HostTyped'
      <3>1. \A n \in 1..calls : n \in 1..calls'
        BY <1>1 DEF IInv, HostTyped
      <3> QED
        BY <1>1, <2>1, <3>1 DEF IInv, HostTyped, Single
    <2>3. Stages'
      BY <2>1 DEF IInv, Stages
    <2> QED
      BY <2>1, <2>2, <2>3 DEF IInv
  <1>4. CASE /\ ~Refused(type)
             /\ pending' = pending \cup {[id |-> calls', type |-> type]}
             /\ commands' = Append(commands, [id |-> calls', type |-> type, max |-> max])
             /\ Show(projection, IF Recovering(type) /\ projection = {} THEN error ELSE "none", loading)
             /\ UNCHANGED <<worker, events, session, running, pausing>>
    <2> DEFINE p == [id |-> calls', type |-> type]
               c == [id |-> calls', type |-> type, max |-> max]
    <2>1. c \in Command /\ c.id = calls' /\ p = [id |-> c.id, type |-> c.type] /\ p.id = calls' /\ p.type = type /\ p \in Request
      BY <1>1 DEF Command, Request, Types
    <2>2. /\ pending' = pending \cup {p} /\ commands' = Append(commands, c)
          /\ projection' = projection /\ loading' = loading /\ error' \in {error, "none"}
          /\ UNCHANGED <<worker, events, session, running, pausing>>
      BY <1>4 DEF Show
    <2> HIDE DEF p, c
    <2>3. \A q \in pending : q.id # c.id
      <3>1. calls \in Nat /\ calls' \notin 1..calls
        BY <1>1 DEF IInv, HostTyped
      <3> QED
        BY <2>1, <3>1 DEF IInv, HostTyped
    <2>4. Worked(pending \cup {p}, projection, Append(commands, c), events, session, running, pausing)
      BY <2>1, <2>3, AskWorks DEF IInv
    <2>5. worker /\ \A q \in pending : q.type # "load"
      <3>1. worker /\ (projection # {} \/ error = "SIMULATION_FAILED")
        BY <1>4 DEF Refused, Recovering
      <3> QED
        BY <3>1 DEF IInv, Stages
    <2>6. Stages'
      BY <2>1, <2>2, <2>5 DEF IInv, Stages
    <2>7. HostTyped'
      <3>1. calls' \in 1..calls' /\ \A n \in 1..calls : n \in 1..calls'
        BY <1>1 DEF IInv, HostTyped
      <3> QED
        BY <1>1, <2>1, <2>2, <3>1 DEF IInv, HostTyped, Single, Codes
    <2> QED
      BY <2>2, <2>4, <2>6, <2>7 DEF IInv
  <1> QED
    BY <1>2, <1>3, <1>4 DEF CallControl

LEMMA DisposeStep == ASSUME IInv, Dispose PROVE IInv'
  <1>1. calls' = calls + 1 /\ calls' \in 0..MaxCalls /\ calls' <= MaxCalls /\ calls' \in Nat
    BY CallTyped DEF IInv, Dispose
  <1>2. Release /\ pending' = {} /\ projection' = {} /\ error' = "none" /\ loading' = FALSE
    BY DEF Dispose, Show
  <1> QED
    BY <1>1, <1>2, HostClosed, ReleaseStep DEF IInv, Codes

LEMMA BreakStep == ASSUME IInv, Break PROVE IInv'
  <1>1. Unavailable /\ calls' = calls /\ calls' <= MaxCalls
    BY SessionAssumption DEF Break, IInv, HostTyped
  <1> QED
    BY <1>1, UnavailableStep

-----------------------------------------------------------------------------
(* What the page reads                                                      *)

\* A request that is settled, and not open any more.
LEMMA PlacedSettled ==
    ASSUME NEW P, NEW C, NEW R, NEW W, Placed(P, C, R, W), NEW p, p.id \notin Open(C, R, W)
    PROVE  Placed(P \ {p}, C, R, W)
  <1>1. ASSUME NEW i \in 1..Len(C) PROVE [id |-> C[i].id, type |-> C[i].type] \in P \ {p}
    <2>1. C[i].id # p.id
      BY DEF Open
    <2> DEFINE q == [id |-> C[i].id, type |-> C[i].type]
    <2>2. q \in P /\ q.id # p.id
      BY <2>1 DEF Placed
    <2> HIDE DEF q
    <2>3. q # p
      BY <2>2
    <2> QED
      BY <2>2, <2>3 DEF q
  <1>2. ASSUME NEW r \in R PROVE [id |-> r.id, type |-> "run"] \in P \ {p}
    <2>1. r.id # p.id
      BY DEF Open
    <2> DEFINE q == [id |-> r.id, type |-> "run"]
    <2>2. q \in P /\ q.id # p.id
      BY <2>1 DEF Placed
    <2> HIDE DEF q
    <2>3. q # p
      BY <2>2
    <2> QED
      BY <2>2, <2>3 DEF q
  <1>3. ASSUME NEW i \in 1..Len(W) PROVE [id |-> W[i], type |-> "pause"] \in P \ {p}
    <2>1. W[i] # p.id
      BY DEF Open
    <2> DEFINE q == [id |-> W[i], type |-> "pause"]
    <2>2. q \in P /\ q.id # p.id
      BY <2>1 DEF Placed
    <2> HIDE DEF q
    <2>3. q # p
      BY <2>2
    <2> QED
      BY <2>2, <2>3 DEF q
  <1> QED
    BY <1>1, <1>2, <1>3 DEF Placed

\* The host reads the first event, and settles its request if it is the last.
LEMMA ReadWorks ==
    ASSUME NEW P, NEW d, NEW C, NEW E, NEW S, NEW R, NEW W, Worked(P, d, C, E, S, R, W), E # <<>>,
           NEW e, e = Head(E), NEW p \in P, p.id = e.id,
           NEW Q, Q = IF Last(p, e) THEN P \ {p} ELSE P
    PROVE  e \in Event /\ Heard(P, d, e) /\ Worked(Q, Seen(d, e), C, Tail(E), S, R, W)
  <1>1. /\ E \in Seq(Event) /\ Placed(P, C, R, W) /\ Ledger(P, Open(C, R, W), E) /\ Screen(P, d, E, S)
    BY DEF Worked
  <1>2. e \in Event /\ Tail(E) \in Seq(Event)
    BY <1>1, TakeFirst
  <1>3. /\ Last(p, e) => Ledger(P \ {p}, Open(C, R, W), Tail(E)) /\ p.id \notin Open(C, R, W)
        /\ ~Last(p, e) => Ledger(P, Open(C, R, W), Tail(E))
    BY <1>1, LedgerRead
  <1>4. PICK f \in SUBSET Projection : Chain(P, d, E, f) /\ \A s \in S : Shows(f, s)
    BY <1>1 DEF Screen
  <1>5. Heard(P, d, e) /\ Chain(P, Seen(d, e), Tail(E), f)
    BY <1>1, <1>4, ChainRead
  <1>6. Placed(Q, C, R, W) /\ Ledger(Q, Open(C, R, W), Tail(E)) /\ Q \subseteq P
    <2>1. CASE Last(p, e)
      <3>1. Placed(P \ {p}, C, R, W)
        BY <1>1, <1>3, <2>1, PlacedSettled
      <3> QED
        BY <1>3, <2>1, <3>1
    <2>2. CASE ~Last(p, e)
      BY <1>1, <1>3, <2>2
    <2> QED
      BY <2>1, <2>2
  <1>7. Chain(Q, Seen(d, e), Tail(E), f)
    <2>1. \A q \in Q : q \in P \/ \A i \in 1..Len(Tail(E)) : Tail(E)[i].id # q.id
      BY <1>6
    <2> QED
      BY <1>2, <1>5, <2>1, ChainPending
  <1>8. Screen(Q, Seen(d, e), Tail(E), S)
    BY <1>4, <1>7 DEF Screen
  <1>9. /\ C \in Seq(Command) /\ W \in Seq(Nat) /\ (\A s \in S : Live(s)) /\ Single(S)
        /\ R \subseteq Run /\ Single(R) /\ Alone(S, R, W)
    BY DEF Worked
  <1> QED
    BY <1>2, <1>5, <1>6, <1>8, <1>9 DEF Worked

LEMMA DeliverStep == ASSUME IInv, Deliver PROVE IInv'
  <1> DEFINE e == Head(events)
             asked == {p \in pending : p.id = e.id}
  <1>1. events # <<>> /\ calls' = calls
    BY DEF Deliver
  <1>2. Worked(pending, projection, commands, events, session, running, pausing) /\ Stages /\ HostTyped
    BY DEF IInv
  <1>3. worker
    BY <1>1, <1>2 DEF Stages
  <1>4. events \in Seq(Event) /\ e = events[1] /\ e \in Event /\ 1 \in 1..Len(events)
    BY <1>1, <1>2, TakeFirst DEF Worked
  <1>5. asked # {}
    BY <1>2, <1>4 DEF Worked, Ledger
  <1>6. PICK p \in asked : IF e.type = "error" THEN OnError(p, e) ELSE OnEvent(p, e)
    BY <1>5 DEF Deliver
  <1> DEFINE Q == IF Last(p, e) THEN pending \ {p} ELSE pending
             d == Seen(projection, e)
  <1>7. Q = IF Last(p, e) THEN pending \ {p} ELSE pending
    OBVIOUS
  <1>8. e = Head(events) /\ p \in pending /\ p.id = e.id
    BY <1>6
  <1> HIDE DEF e, asked, Q
  <1>9. Heard(pending, projection, e) /\ Worked(Q, d, commands, Tail(events), session, running, pausing)
    BY <1>1, <1>2, <1>7, <1>8, ReadWorks
  <1>10. d \subseteq Projection /\ Single(d)
    <2>1. projection \in SUBSET Projection /\ Single(projection)
      BY <1>2 DEF HostTyped
    <2> QED
      BY <1>4, <2>1, SeenTyped DEF Seen, Single
  <1> HIDE DEF d
  <1>11. CASE p.type = "load" /\ e.type = "error"
    <2>1. OnError(p, e)
      BY <1>6, <1>11
    <2>2. Release /\ pending' = {} /\ projection' = {} /\ error' = e.code /\ loading' = FALSE
      BY <1>11, <2>1 DEF OnError, Show, KeptProjection
    <2>3. error' \in Codes /\ calls' <= MaxCalls
      BY <1>1, <1>2, <1>4, <2>2, SessionAssumption DEF Event, HostTyped
    <2> QED
      BY <1>1, <1>2, <2>2, <2>3, HostClosed, ReleaseStep
  <1>12. CASE ~(p.type = "load" /\ e.type = "error")
    <2>1. /\ pending' = Q /\ projection' = d /\ events' = Tail(events)
          /\ error' \in Codes /\ loading' \in BOOLEAN
          /\ UNCHANGED <<worker, commands, session, running, pausing>>
      <3>1. CASE e.type = "error"
        <4>1. OnError(p, e) /\ p.type # "load"
          BY <1>6, <1>12, <3>1
        <4>2. Last(p, e)
          BY <1>8, <3>1 DEF Last
        <4>3. KeptProjection(p, e) = d
          BY <3>1, <4>1 DEF KeptProjection, Seen, d
        <4> QED
          BY <1>4, <1>7, <4>1, <4>2, <4>3 DEF OnError, Show, Event
      <3>2. CASE e.type # "error"
        <4>1. OnEvent(p, e)
          BY <1>6, <3>2
        <4>2. ~Ignored(p, e)
          BY <1>8, <1>9 DEF Ignored, Heard
        <4>3. pending' = Q
          BY <1>7, <1>8, <3>2, <4>1, <4>2 DEF OnEvent, Last
        <4>4. /\ projection' = IF e.type = "run.finished" THEN projection ELSE {e.projection}
              /\ error' \in {error, "none"} /\ loading' \in {loading, FALSE}
              /\ events' = Tail(events) /\ UNCHANGED <<worker, commands, session, running, pausing>>
          BY <4>1, <4>2 DEF OnEvent, Show
        <4>5. d = IF e.type = "run.finished" THEN projection ELSE {e.projection}
          BY <1>4, <3>2 DEF d, Seen, Event, EventTypes
        <4> QED
          BY <1>2, <4>3, <4>4, <4>5 DEF HostTyped, Codes
      <3> QED
        BY <3>1, <3>2
    <2>2. Q \subseteq pending
      BY <1>7
    <2>3. HostTyped'
      BY <1>1, <1>2, <1>10, <2>1, <2>2 DEF HostTyped, Single
    \* The answer of a load is its last event.
    <2>4. session # {} /\ \A q \in Q : q.type # "load"
      <3>1. CASE \E q \in pending : q.type = "load"
        <4>1. pending = {p} /\ p.type = "load"
          BY <1>2, <1>8, <3>1 DEF Stages
        <4>2. e.type = "loaded"
          BY <1>8, <1>9, <1>12, <4>1 DEF Heard
        <4>3. session # {}
          BY <1>2, <1>4, <4>1, <4>2 DEF Stages
        <4>4. Last(p, e)
          BY <1>8, <4>2 DEF Last, Settles
        <4> QED
          BY <1>7, <4>1, <4>3, <4>4
      <3>2. CASE ~\E q \in pending : q.type = "load"
        BY <1>2, <1>3, <2>2, <3>2 DEF Stages
      <3> QED
        BY <3>1, <3>2
    <2>5. Stages'
      BY <1>3, <2>1, <2>4 DEF Stages
    <2>6. Worked(pending, projection, commands, events, session, running, pausing)'
      BY <1>9, <2>1
    <2> QED
      BY <2>3, <2>5, <2>6 DEF IInv
  <1> QED
    BY <1>11, <1>12

-----------------------------------------------------------------------------
(* The invariant                                                            *)

LEMMA Begins == ASSUME Init PROVE IInv
  <1>1. Worked(pending, projection, commands, events, session, running, pausing)
    BY NothingWorks DEF Init
  <1>2. Stages
    BY DEF Init, Stages
  <1>3. worker \in BOOLEAN /\ loading \in BOOLEAN /\ error \in Codes /\ calls \in 0..MaxCalls
    <2>1. calls \in 0..MaxCalls /\ error \in Codes
      BY SessionAssumption DEF Init, Codes
    <2>2. worker \in BOOLEAN /\ loading \in BOOLEAN
      BY DEF Init
    <2> QED
      BY <2>1, <2>2
  <1>4. pending \subseteq Request /\ (\A p \in pending : p.id \in 1..calls) /\ projection \subseteq Projection /\ Single(projection)
    BY DEF Init, Single
  <1>5. HostTyped
    BY <1>3, <1>4 DEF HostTyped
  <1> QED
    BY <1>1, <1>2, <1>5 DEF IInv

LEMMA Goes == ASSUME IInv, [Next]_vars PROVE IInv'
  <1>1. CASE CallLoad
    BY <1>1, CallLoadStep
  <1>2. CASE Dispose
    BY <1>2, DisposeStep
  <1>3. ASSUME NEW max \in Budgets, CallControl("run", max) PROVE IInv'
    BY <1>3, CallControlStep, SessionAssumption
  <1>4. ASSUME NEW type \in {"pause", "step", "reset"}, CallControl(type, 0) PROVE IInv'
    BY <1>4, CallControlStep
  <1>5. CASE Break
    BY <1>5, BreakStep
  <1>6. CASE Deliver
    BY <1>6, DeliverStep
  <1>7. CASE Receive
    BY <1>7, ReceiveStep
  <1>8. CASE Resume
    BY <1>8, ResumeStep
  <1>9. CASE Sample
    BY <1>9, SampleStep
  <1>10. CASE UNCHANGED vars
    <2>1. Worked(pending, projection, commands, events, session, running, pausing)'
      BY <1>10 DEF vars, IInv
    <2>2. HostTyped'
      BY <1>10 DEF vars, IInv, HostTyped
    <2>3. Stages'
      BY <1>10 DEF vars, IInv, Stages
    <2> QED
      BY <2>1, <2>2, <2>3 DEF IInv
  <1> QED
    BY <1>1, <1>2, <1>3, <1>4, <1>5, <1>6, <1>7, <1>8, <1>9, <1>10 DEF Next, Call

LEMMA SingleCount == ASSUME NEW S, Single(S) PROVE Cardinality(S) <= 1
  <1>1. CASE S = {}
    BY <1>1, FS_EmptySet
  <1>2. CASE S # {}
    <2>1. PICK x \in S : TRUE
      BY <1>2
    <2>2. S = {x}
      BY <2>1 DEF Single
    <2>3. Cardinality({x}) = 1
      BY FS_Singleton
    <2> QED
      BY <2>2, <2>3
  <1> QED
    BY <1>1, <1>2

LEMMA Typed == ASSUME IInv PROVE TypeOK
  <1>1. /\ worker \in BOOLEAN /\ loading \in BOOLEAN /\ calls \in 0..MaxCalls
        /\ error \in {"none", "WORKER_UNAVAILABLE", "INVALID_SCENARIO", "INVALID_WORKER_COMMAND", "SIMULATION_FAILED"}
        /\ projection \subseteq [status : Statuses, processed : 0..MaxEvents]
    BY DEF IInv, HostTyped, Codes, Projection
  <1>2. pending \subseteq [id : 1..MaxCalls, type : {"load", "run", "pause", "step", "reset"}]
    <2>1. SUFFICES ASSUME NEW p \in pending PROVE p \in [id : 1..MaxCalls, type : {"load", "run", "pause", "step", "reset"}]
      OBVIOUS
    <2>2. p \in [id : Nat, type : {"load", "run", "pause", "step", "reset"}] /\ p.id \in 1..calls
      BY DEF IInv, HostTyped, Request, Types
    <2>3. p.id \in 1..MaxCalls
      BY <1>1, <2>2, SessionAssumption
    <2> QED
      BY <2>2, <2>3
  <1>3. /\ \A i \in DOMAIN commands : commands[i] \in Command
        /\ session \subseteq Simulation /\ running \subseteq Run
    BY DEF IInv, Worked, Live
  <1>4. Cardinality(projection) <= 1 /\ Cardinality(session) <= 1 /\ Cardinality(running) <= 1
    <2>1. Single(projection) /\ Single(session) /\ Single(running)
      BY DEF IInv, HostTyped, Worked
    <2> QED
      BY <2>1, SingleCount
  <1> QED
    BY <1>1, <1>2, <1>3, <1>4 DEF TypeOK

LEMMA Accounted == ASSUME IInv PROVE PendingAccounted
  <1>1. SUFFICES ASSUME NEW p \in pending
                 PROVE  \/ \E i \in DOMAIN commands : commands[i].id = p.id
                        \/ \E r \in running : r.id = p.id
                        \/ \E i \in DOMAIN pausing : pausing[i] = p.id
                        \/ \E i \in DOMAIN events : events[i].id = p.id /\ (events[i].type = "error" \/ Settles(p, events[i]))
    BY DEF PendingAccounted
  <1>2. commands \in Seq(Command) /\ events \in Seq(Event) /\ pausing \in Seq(Nat)
    BY DEF IInv, Worked
  <1>3. DOMAIN commands = 1..Len(commands) /\ DOMAIN events = 1..Len(events) /\ DOMAIN pausing = 1..Len(pausing)
    BY <1>2
  <1>4. p.id \in Open(commands, running, pausing) \/ \E i \in 1..Len(events) : Last(p, events[i])
    BY DEF IInv, Worked, Ledger
  <1>5. CASE p.id \in Open(commands, running, pausing)
    BY <1>3, <1>5 DEF Open
  <1>6. CASE \E i \in 1..Len(events) : Last(p, events[i])
    BY <1>3, <1>6 DEF Last
  <1> QED
    BY <1>4, <1>5, <1>6

LEMMA IdleShows == ASSUME IInv PROVE IdleAgrees
  <1>1. SUFFICES ASSUME worker, pending = {}
                 PROVE  \E s \in session : \/ projection = {Projected(s)}
                                           \/ projection = {} /\ s.status = "FAILED" /\ s.program.withheld
    BY DEF IdleAgrees
  <1>2. events \in Seq(Event) /\ Len(events) \in Nat
    BY DEF IInv, Worked
  <1>3. Len(events) = 0
    <2>1. \A i \in 1..Len(events) : FALSE
      BY <1>1 DEF IInv, Worked, Ledger
    <2> QED
      BY <1>2, <2>1
  <1>4. PICK s \in session : TRUE
    BY <1>1 DEF IInv, Stages
  <1>5. PICK f \in SUBSET Projection : Chain(pending, projection, events, f) /\ Shows(f, s)
    BY <1>4 DEF IInv, Worked, Screen
  <1>6. f = projection
    BY <1>3, <1>5 DEF Chain
  <1>7. s.status # "RUNNING"
    <2>1. running = {}
      BY <1>1 DEF IInv, Worked, Placed
    <2> QED
      BY <1>4, <2>1 DEF IInv, Worked, Alone
  <1> QED
    BY <1>4, <1>5, <1>6, <1>7 DEF Shows

LEMMA Agreed == IInv => SessionAgrees
  <1>1. SUFFICES ASSUME IInv PROVE SessionAgrees
    OBVIOUS
  <1>2. RunIsAlone
    <2>1. Alone(session, running, pausing)
      BY <1>1 DEF IInv, Worked
    <2> QED
      BY <2>1 DEF Alone, RunIsAlone
  <1> QED
    BY <1>1, <1>2, Typed, Accounted, IdleShows DEF SessionAgrees

LEMMA Invariant == Spec => []IInv
  <1>1. Init => IInv
    BY Begins
  <1>2. IInv /\ [Next]_vars => IInv'
    BY Goes
  <1> QED
    BY <1>1, <1>2, PTL DEF Spec

\* Host, queues, adapter and simulation agree on what runs, on what is asked
\* and, when nothing is, on what is shown: host.ts, worker/adapter.ts and the
\* controls of simulation.ts, in any order of calls, tasks and failures.
THEOREM Agreement == Spec => []SessionAgrees
  BY Invariant, Agreed, PTL

-----------------------------------------------------------------------------
(* Pauses                                                                   *)

\* What PauseStops says of a step.
Stops == \A s \in session, r \in running : s.pause => \A t \in session' : t.processed = s.processed

LEMMA ProceedStops == ASSUME NEW s, NEW r, s.pause, Live(s), Proceed(s, r) PROVE \A t \in session' : t.processed = s.processed
  <1>1. ~GoesOn(s, r)
    BY DEF GoesOn
  <1>2. Advanced(s, r) = s /\ ~Yields(s, r)
    BY <1>1 DEF Advanced, Yields
  <1>3. session' = {Ended(s)}
    BY <1>2 DEF Proceed
  <1>4. Ended(s).processed = s.processed
    <2>1. CASE s.status = "RUNNING"
      <3>1. "PAUSED" \in Statuses /\ Ended(s) = [s EXCEPT !.status = "PAUSED"]
        BY <2>1 DEF Statuses, Ended
      <3> QED
        BY <3>1, StatusLive
    <2>2. CASE s.status # "RUNNING"
      BY <2>2 DEF Ended
    <2> QED
      BY <2>1, <2>2
  <1> QED
    BY <1>3, <1>4

LEMMA ReceiveStops == ASSUME IInv, Receive PROVE Stops
  <1>1. SUFFICES ASSUME NEW s \in session, NEW r \in running, NEW t \in session' PROVE t.processed = s.processed
    BY DEF Stops
  <1>2. session = {s} /\ s \in Simulation
    BY DEF IInv, Worked, Single, Live
  <1> DEFINE c == Head(commands)
  <1>3. CASE session' = session
    BY <1>2, <1>3
  <1>4. CASE ~Busy(c) /\ c.type = "pause" /\ Pause(c)
    <2>1. session' = {[s EXCEPT !.pause = @ \/ s.status = "RUNNING"]}
      BY <1>2, <1>4 DEF Pause
    <2> QED
      BY <1>2, <2>1 DEF Simulation
  <1>5. ASSUME ~Busy(c) PROVE c.type = "pause"
    BY <1>5 DEF Busy
  <1> HIDE DEF c
  <1>6. session' = session \/ (~Busy(c) /\ c.type = "pause" /\ Pause(c))
    BY <1>5 DEF Receive, c
  <1> QED
    BY <1>3, <1>4, <1>6

LEMMA StepStops == ASSUME IInv, [Next]_vars PROVE Stops
  <1>1. CASE session' \in {{}, session}
    BY <1>1 DEF Stops, IInv, Worked, Single
  <1>2. CASE Receive
    BY <1>2, ReceiveStops
  <1>3. CASE Resume
    <2>1. PICK q \in running, u \in session : Proceed(u, q)
      BY <1>3 DEF Resume
    <2>2. \A s \in session : s = u /\ Live(s)
      BY <2>1 DEF IInv, Worked, Single
    <2>3. u.pause => \A t \in session' : t.processed = u.processed
      BY <2>1, <2>2, ProceedStops
    <2> QED
      BY <2>2, <2>3 DEF Stops
  <1>4. ASSUME Call \/ Break PROVE session' \in {{}, session}
    BY <1>4 DEF Call, CallLoad, CallControl, Dispose, Break, Unavailable, Release
  <1>5. ASSUME Deliver PROVE session' \in {{}, session}
    BY <1>5 DEF Deliver, OnError, OnEvent, Release
  <1>6. ASSUME Sample \/ UNCHANGED vars PROVE session' \in {{}, session}
    BY <1>6 DEF Sample, vars
  <1> QED
    BY <1>1, <1>2, <1>3, <1>4, <1>5, <1>6 DEF Next

\* A simulation that has taken note of a pause dispatches no event until
\* another control is given: the condition of run's loop and the adapter's
\* refusal of other controls during a run (simulation.ts, worker/adapter.ts).
THEOREM PauseHolds == Spec => PauseStops
  <1>1. IInv /\ [Next]_vars => [Stops]_vars
    BY StepStops
  <1>2. [Stops]_vars => [\A s \in session, r \in running : s.pause => \A t \in session' : t.processed = s.processed]_vars
    BY DEF Stops
  <1> QED
    BY <1>1, <1>2, Invariant, PTL DEF Spec, PauseStops
=============================================================================
