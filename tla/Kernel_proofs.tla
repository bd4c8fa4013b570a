------------------------- MODULE Kernel_proofs -----------------------------
(***************************************************************************)
(* The parts of the kernel that KernelMC shows by themselves, for any      *)
(* values of their constants.                                              *)
(*                                                                         *)
(* The store and its expiry events agree, and to its owner the store is    *)
(* the map of TtlMap: the entry of a key has the key's last generation,    *)
(* the observed expirations have earlier ones, nothing pending is overdue. *)
(*                                                                         *)
(* The counters of an external service agree with its work in hand, and    *)
(* it is the provider of Provider: a request is one token, which is on its *)
(* way, accepted or taken up, and never comes back.                        *)
(*                                                                         *)
(* Fault decisions follow the probes: the counters of a rule are what is   *)
(* counted over the evaluations since the reset.                           *)
(*                                                                         *)
(* What listeners are told is a part of the history, up to where the flush *)
(* stands; a history is sealed when its run fails; what a query gathers    *)
(* from an index is what a reading of the history would.                   *)
(*                                                                         *)
(* What model code keeps is fenced: whoever is served is at work.          *)
(***************************************************************************)
EXTENDS KernelMC, FiniteSetTheorems, FunctionTheorems, SequenceTheorems, WellFoundedInduction, TLAPS

\* The entry of a key is its last generation, and one that was observed to
\* expire is no later.
LastGeneration == \A k \in Keys :
    /\ \A x \in entries[k] : x.generation = generations[k]
    /\ \A i \in DOMAIN expired[k] : expired[k][i] <= generations[k]

\* What is pending is due now or later.
NotOverdue == \A e \in agenda : now <= e.time

IInv == ExpiriesExact /\ LastGeneration /\ NotOverdue


\* What TypeOK says of the last reply.
Replies == [key : Keys, value : Optional(Values),
            result : {"none", "value", "set", "created", "present", "deleted",
                      "absent", "counter", "refused", "swapped", "mismatch"}]

\* The expiries an entry of k asks for.
ExpiriesOf(k, x) == {[key |-> k, generation |-> x.generation, time |-> t] : t \in x.expiresAt}

LEMMA OptionalEmpty == \A S : {} \in Optional(S)
  BY DEF Optional

LEMMA OptionalOne == \A S : \A x \in S : {x} \in Optional(S)
  BY DEF Optional

LEMMA OptionalCase == ASSUME NEW S, NEW o \in Optional(S), o # {} PROVE \E x \in S : o = {x}
  <1>1. PICK x \in o : TRUE
    OBVIOUS
  <1> QED
    BY <1>1 DEF Optional

LEMMA DueType == ASSUME NEW ttl \in Optional(Ttls), now \in Nat PROVE Due(ttl) \in Optional(Nat) /\ \A t \in Due(ttl) : t > now
  BY StoreAssumption DEF Due, Optional

-----------------------------------------------------------------------------
(* What an operation finds                                                  *)

\* The entry of k, if any, is found whole or swept whole.
LEMMA FoundOrSwept ==
    ASSUME IInv, NEW k \in Keys
    PROVE  /\ Swept(k) # {} => Found(k) = {} /\ Swept(k) = entries[k]
           /\ Swept(k) = {} => Found(k) = entries[k]
           /\ Found(k) # {} => Swept(k) = {}
           /\ entries[k] = {} \/ \E x \in Entry : entries[k] = {x}
  <1>1. entries[k] \in Optional(Entry)
    BY DEF IInv, ExpiriesExact, TypeOK
  <1>2. CASE entries[k] = {}
    BY <1>2 DEF Swept, Found
  <1>3. CASE entries[k] # {}
    <2>1. PICK x \in Entry : entries[k] = {x}
      BY <1>1, <1>3, OptionalCase
    <2> QED
      BY <2>1 DEF Swept, Found
  <1> QED
    BY <1>2, <1>3

\* Cancelling the expiry of the entry leaves none of the key.
LEMMA CancelledAll == ASSUME IInv, NEW k \in Keys PROVE agenda \ Cancelled(k) = {e \in agenda : e.key # k}
  BY DEF IInv, ExpiriesExact, ExpiriesMatch, Cancelled

\* The pending expiries of k are those its entry asks for.
LEMMA PendingOf ==
    ASSUME IInv, NEW k \in Keys
    PROVE  agenda = {e \in agenda : e.key # k} \cup UNION {ExpiriesOf(k, x) : x \in entries[k]}
  <1>1. ASSUME NEW e \in agenda, e.key = k PROVE \E x \in entries[k] : e \in ExpiriesOf(k, x)
    <2>1. PICK x \in entries[k] : x.generation = e.generation /\ x.expiresAt = {e.time}
      BY <1>1 DEF IInv, ExpiriesExact, ExpiriesMatch
    <2>2. e = [key |-> k, generation |-> x.generation, time |-> e.time]
      BY <1>1, <2>1 DEF IInv, ExpiriesExact, TypeOK, Expiry
    <2> QED
      BY <2>1, <2>2 DEF ExpiriesOf
  <1>2. \A x \in entries[k] : ExpiriesOf(k, x) \subseteq agenda
    BY DEF IInv, ExpiriesExact, ExpiriesMatch, ExpiriesOf
  <1> QED
    BY <1>1, <1>2

Rising(trail) == \A i, j \in DOMAIN trail : i < j => trail[i] < trail[j]
UpTo(trail, g) == \A i \in DOMAIN trail : trail[i] <= g
Under(trail, g) == \A i \in DOMAIN trail : trail[i] < g

\* A later generation goes at the end.
LEMMA Appended ==
    ASSUME NEW s \in Seq(Nat), NEW g \in Nat, Rising(s), Under(s, g)
    PROVE  Append(s, g) \in Seq(Nat) /\ Rising(Append(s, g)) /\ UpTo(Append(s, g), g)
  <1> DEFINE trail == Append(s, g)
             n == Len(s)
  <1>1. /\ trail \in Seq(Nat) /\ DOMAIN trail = 1 .. n + 1 /\ DOMAIN s = 1 .. n /\ n \in Nat
        /\ trail[n + 1] = g /\ \A i \in 1 .. n : trail[i] = s[i]
    OBVIOUS
  <1> HIDE DEF trail, n
  <1>2. \A i \in 1 .. n : trail[i] < g
    BY <1>1 DEF Under
  <1>3. \A i, j \in 1 .. n : i < j => trail[i] < trail[j]
    BY <1>1 DEF Rising
  <1>4. ASSUME NEW i \in DOMAIN trail, NEW j \in DOMAIN trail, i < j PROVE trail[i] < trail[j]
    <2>1. i \in 1 .. n
      BY <1>1, <1>4
    <2>2. CASE j = n + 1
      BY <1>1, <1>2, <2>1, <2>2
    <2>3. CASE j # n + 1
      <3>1. j \in 1 .. n
        BY <1>1, <2>3
      <3> QED
        BY <1>3, <1>4, <2>1, <3>1
    <2> QED
      BY <2>2, <2>3
  <1>5. \A i \in DOMAIN trail : trail[i] <= g
    <2>1. ASSUME NEW i \in DOMAIN trail PROVE trail[i] <= g
      <3>1. CASE i = n + 1
        BY <1>1, <3>1
      <3>2. CASE i # n + 1
        <4>1. i \in 1 .. n
          BY <1>1, <3>2
        <4>2. trail[i] < g /\ trail[i] \in Nat
          BY <1>1, <1>2, <4>1
        <4> QED
          BY <4>2
      <3> QED
        BY <3>1, <3>2
    <2> QED
      BY <2>1
  <1>6. Rising(trail) /\ UpTo(trail, g)
    BY <1>4, <1>5 DEF Rising, UpTo
  <1> QED
    BY <1>1, <1>6 DEF trail

\* What the sweep adds to the observed expirations.
LEMMA SweptRecorded ==
    ASSUME IInv, NEW k \in Keys, RecordSwept(k)
    PROVE  \E trail \in Seq(Nat) :
              /\ expired' = [expired EXCEPT ![k] = trail]
              /\ Rising(trail) /\ UpTo(trail, generations[k])
              /\ Swept(k) = {} => trail = expired[k]
  <1>0. expired \in [Keys -> Seq(Nat)] /\ generations[k] \in Nat
    BY DEF IInv, ExpiriesExact, TypeOK
  <1>1. CASE Swept(k) = {}
    <2>1. expired' = [expired EXCEPT ![k] = expired[k]]
      BY <1>0, <1>1 DEF RecordSwept
    <2> QED
      BY <1>0, <1>1, <2>1 DEF IInv, ExpiriesExact, ExpiredOnce, LastGeneration, Rising, UpTo
  <1>2. CASE Swept(k) # {}
    <2>1. PICK x \in entries[k] : x = CHOOSE y \in Swept(k) : TRUE
      BY <1>2 DEF Swept
    <2>2. x.generation = generations[k] /\ \A i \in DOMAIN expired[k] : expired[k][i] < x.generation
      BY DEF IInv, ExpiriesExact, ExpiredOnce, LastGeneration
    <2>3. expired' = [expired EXCEPT ![k] = Append(expired[k], generations[k])]
      BY <1>2, <2>1, <2>2 DEF RecordSwept
    <2>4. Rising(expired[k]) /\ Under(expired[k], generations[k])
      BY <1>0, <2>2 DEF IInv, ExpiriesExact, ExpiredOnce, Rising, Under
    <2>5. /\ Append(expired[k], generations[k]) \in Seq(Nat) /\ Rising(Append(expired[k], generations[k]))
          /\ UpTo(Append(expired[k], generations[k]), generations[k])
      BY <1>0, <2>4, Appended
    <2> QED
      BY <1>2, <2>3, <2>5
  <1> QED
    BY <1>1, <1>2


-----------------------------------------------------------------------------
(* The inductive invariant                                                  *)

\* A step that leaves key k with the entry S of generation g, the expiries S
\* asks for and the observed expirations trail, and the other keys alone.
Becomes(k, S, g, trail) ==
    /\ generations[k] <= g /\ generations' = [generations EXCEPT ![k] = g]
    /\ entries' = [entries EXCEPT ![k] = S] /\ \A x \in S : x.generation = g
    /\ agenda' = {e \in agenda : e.key # k} \cup UNION {ExpiriesOf(k, x) : x \in S}
    /\ expired' = [expired EXCEPT ![k] = trail]
    /\ Rising(trail) /\ UpTo(trail, g)
    /\ \A x \in S : Under(trail, x.generation)
    /\ now' \in Nat /\ \A e \in agenda' : now' <= e.time
    /\ reply' \in Replies

LEMMA KeyStep ==
    ASSUME IInv, NEW k \in Keys, NEW S \in Optional(Entry), NEW g \in Nat, NEW trail \in Seq(Nat), Becomes(k, S, g, trail)
    PROVE  IInv'
  <1> USE DEF Becomes, Rising, UpTo, Under
  <1>0. TypeOK /\ ExpiriesMatch /\ ExpiredOnce /\ LastGeneration
    BY DEF IInv, ExpiriesExact
  <1>1. /\ entries'[k] = S /\ generations'[k] = g /\ expired'[k] = trail
        /\ \A h \in Keys \ {k} : entries'[h] = entries[h] /\ generations'[h] = generations[h] /\ expired'[h] = expired[h]
    BY <1>0 DEF TypeOK
  <1>2. TypeOK'
    <2>1. entries' \in [Keys -> Optional(Entry)] /\ generations' \in [Keys -> Nat] /\ expired' \in [Keys -> Seq(Nat)]
      BY <1>0 DEF TypeOK
    <2>2. \A x \in S : ExpiriesOf(k, x) \subseteq Expiry
      BY DEF Optional, Entry, Expiry, ExpiriesOf
    <2>3. agenda' \subseteq Expiry
      BY <1>0, <2>2 DEF TypeOK
    <2> QED
      BY <2>1, <2>3 DEF TypeOK, Replies
  <1>3. ExpiriesMatch'
    <2>1. ASSUME NEW h \in Keys, NEW x \in entries'[h], NEW t \in x.expiresAt
          PROVE  [key |-> h, generation |-> x.generation, time |-> t] \in agenda'
      <3>1. CASE h = k
        BY <1>1, <2>1, <3>1 DEF ExpiriesOf
      <3>2. CASE h # k
        BY <1>0, <1>1, <2>1, <3>2 DEF ExpiriesMatch
      <3> QED
        BY <3>1, <3>2
    <2>2. ASSUME NEW e \in agenda'
          PROVE  \E x \in entries'[e.key] : x.generation = e.generation /\ x.expiresAt = {e.time}
      <3>1. CASE e.key = k
        <4>1. PICK x \in S : e \in ExpiriesOf(k, x)
          BY <2>2, <3>1
        <4>2. PICK t \in x.expiresAt : e = [key |-> k, generation |-> x.generation, time |-> t]
          BY <4>1 DEF ExpiriesOf
        <4>3. x.expiresAt = {t}
          BY <4>1, <4>2 DEF Optional, Entry
        <4> QED
          BY <1>1, <3>1, <4>1, <4>2, <4>3
      <3>2. CASE e.key # k
        <4>1. e \in agenda /\ e.key \in Keys
          BY <1>0, <2>2, <3>2 DEF ExpiriesOf, TypeOK, Expiry
        <4>2. \E x \in entries[e.key] : x.generation = e.generation /\ x.expiresAt = {e.time}
          BY <1>0, <4>1 DEF ExpiriesMatch
        <4>3. entries'[e.key] = entries[e.key]
          BY <1>1, <3>2, <4>1
        <4> QED
          BY <4>2, <4>3
      <3> QED
        BY <3>1, <3>2
    <2> QED
      BY <2>1, <2>2 DEF ExpiriesMatch
  <1>4. ExpiredOnce'
    BY <1>0, <1>1 DEF ExpiredOnce
  <1>5. LastGeneration'
    BY <1>0, <1>1 DEF LastGeneration
  <1>6. NotOverdue'
    BY DEF NotOverdue
  <1> QED
    BY <1>2, <1>3, <1>4, <1>5, <1>6 DEF IInv, ExpiriesExact

\* An operation that ends without a write leaves what it found.
LEMMA LeaveStep == ASSUME IInv, NEW k \in Keys, Leave(k), reply' \in Replies PROVE IInv' /\ entries' = [entries EXCEPT ![k] = Found(k)]
  <1>0. /\ TypeOK /\ ExpiredOnce /\ LastGeneration /\ NotOverdue /\ generations[k] \in Nat /\ entries[k] \in Optional(Entry)
        /\ now' = now /\ now \in Nat /\ generations' = generations /\ RecordSwept(k)
    BY DEF IInv, ExpiriesExact, TypeOK, Leave
  <1>1. PICK trail \in Seq(Nat) :
           /\ expired' = [expired EXCEPT ![k] = trail]
           /\ Rising(trail) /\ UpTo(trail, generations[k])
           /\ Swept(k) = {} => trail = expired[k]
    BY <1>0, SweptRecorded
  <1>2. Found(k) \in Optional(Entry) /\ \A x \in Found(k) : x.generation = generations[k]
    BY <1>0 DEF Found, Optional, LastGeneration
  <1>3. entries' = [entries EXCEPT ![k] = Found(k)]
    BY FoundOrSwept DEF Leave, ExpireRemoved
  <1>4. agenda' = {e \in agenda : e.key # k} \cup UNION {ExpiriesOf(k, x) : x \in Found(k)}
    <2>1. CASE Swept(k) = {}
      BY <2>1, FoundOrSwept, PendingOf DEF Leave
    <2>2. CASE Swept(k) # {}
      BY <2>2, FoundOrSwept, CancelledAll DEF Leave
    <2> QED
      BY <2>1, <2>2
  <1>5. \A x \in Found(k) : Under(trail, x.generation)
    BY <1>0, <1>1, FoundOrSwept DEF ExpiredOnce, Under
  <1>6. \A e \in agenda' : now' <= e.time
    <2>1. agenda' \subseteq agenda
      BY DEF Leave
    <2> QED
      BY <1>0, <2>1 DEF NotOverdue
  <1>7. generations' = [generations EXCEPT ![k] = generations[k]]
    BY <1>0 DEF TypeOK
  <1>8. Becomes(k, Found(k), generations[k], trail)
    <2>1. generations[k] <= generations[k] /\ now' \in Nat
      BY <1>0
    <2> QED
      BY <1>1, <1>2, <1>3, <1>4, <1>5, <1>6, <1>7, <2>1, Zenon DEF Becomes
  <1> QED
    BY <1>0, <1>1, <1>2, <1>3, <1>8, KeyStep

\* A write puts its entry in place of any other, and its expiry in place of
\* any other.
LEMMA WriteStep ==
    ASSUME IInv, NEW k \in Keys, NEW v \in Values, NEW due \in Optional(Nat), Write(k, v, due), reply' \in Replies,
           \A t \in due : now < t
    PROVE  IInv' /\ \E x \in Entry : x.value = v /\ x.expiresAt = due /\ entries' = [entries EXCEPT ![k] = {x}]
  <1> DEFINE g == generations[k] + 1
             x == [value |-> v, expiresAt |-> due, generation |-> g]
  <1>0. /\ TypeOK /\ ExpiredOnce /\ LastGeneration /\ NotOverdue /\ generations[k] \in Nat /\ RecordSwept(k)
        /\ now' = now /\ now \in Nat /\ g \in Nat /\ generations[k] < g
    BY DEF IInv, ExpiriesExact, TypeOK, Write
  <1>1. PICK trail \in Seq(Nat) :
           /\ expired' = [expired EXCEPT ![k] = trail]
           /\ Rising(trail) /\ UpTo(trail, generations[k])
           /\ Swept(k) = {} => trail = expired[k]
    BY <1>0, SweptRecorded
  <1>2. x \in Entry /\ x.generation = g /\ x.expiresAt = due /\ x.value = v
    BY <1>0 DEF Entry
  <1>3. entries' = [entries EXCEPT ![k] = {x}] /\ generations' = [generations EXCEPT ![k] = g]
    BY DEF Write, NextGeneration
  <1>4. agenda' = {e \in agenda : e.key # k} \cup UNION {ExpiriesOf(k, y) : y \in {x}}
    <2>1. agenda' = {e \in agenda : e.key # k} \cup ExpiriesOf(k, x)
      BY <1>2, CancelledAll DEF Write, NextGeneration, ExpiriesOf
    <2> HIDE DEF x
    <2>2. UNION {ExpiriesOf(k, y) : y \in {x}} = ExpiriesOf(k, x)
      OBVIOUS
    <2> QED
      BY <2>1, <2>2
  <1> HIDE DEF x
  <1>5. UpTo(trail, g) /\ Under(trail, g)
    BY <1>0, <1>1 DEF UpTo, Under
  <1> HIDE DEF g
  <1>6. \A e \in agenda' : now' <= e.time
    <2>1. ASSUME NEW e \in ExpiriesOf(k, x) PROVE now <= e.time
      <3>1. PICK t \in due : e.time = t
        BY <1>2, <2>1 DEF ExpiriesOf
      <3>2. t \in Nat
        BY DEF Optional
      <3> QED
        BY <1>0, <3>1, <3>2
    <2>2. \A e \in agenda : now <= e.time
      BY <1>0 DEF NotOverdue
    <2> QED
      BY <1>0, <1>4, <2>1, <2>2
  <1>7. {x} \in Optional(Entry) /\ \A y \in {x} : y.generation = g
    BY <1>2, OptionalOne
  <1>8. \A y \in {x} : Under(trail, y.generation)
    BY <1>2, <1>5
  <1>9. Becomes(k, {x}, g, trail)
    BY <1>0, <1>1, <1>3, <1>4, <1>5, <1>6, <1>7, <1>8 DEF Becomes
  <1>10. IInv'
    BY <1>0, <1>1, <1>7, <1>9, KeyStep
  <1> QED
    BY <1>2, <1>3, <1>10

LEMMA DeleteStep == ASSUME IInv, NEW k \in Keys, Delete(k) PROVE IInv'
  <1>0. /\ TypeOK /\ NotOverdue /\ generations[k] \in Nat /\ now' = now /\ now \in Nat /\ RecordSwept(k)
        /\ entries' = [entries EXCEPT ![k] = {}] /\ {} \in Optional(Entry)
    BY OptionalEmpty DEF IInv, ExpiriesExact, TypeOK, Delete
  <1>1. PICK trail \in Seq(Nat) :
           /\ expired' = [expired EXCEPT ![k] = trail]
           /\ Rising(trail) /\ UpTo(trail, generations[k])
           /\ Swept(k) = {} => trail = expired[k]
    BY <1>0, SweptRecorded
  <1>2. generations' = [generations EXCEPT ![k] = generations[k]]
    BY <1>0 DEF TypeOK, Delete
  <1>3. agenda' = {e \in agenda : e.key # k} \cup UNION {ExpiriesOf(k, x) : x \in {}}
    BY CancelledAll DEF Delete
  <1>4. \A e \in agenda' : now' <= e.time
    BY <1>0 DEF NotOverdue, Delete
  <1>5. reply' \in Replies
    BY OptionalEmpty DEF Delete, Answer, Replies
  <1>6. Becomes(k, {}, generations[k], trail)
    BY <1>0, <1>1, <1>2, <1>3, <1>4, <1>5 DEF Becomes
  <1> QED
    BY <1>0, <1>1, <1>6, KeyStep


LEMMA FoundValues == ASSUME IInv, NEW k \in Keys PROVE {x.value : x \in Found(k)} \in Optional(Values)
  BY DEF IInv, ExpiriesExact, TypeOK, Optional, Found, Entry

LEMMA SetStep ==
    ASSUME IInv, NEW k \in Keys, NEW v \in Values, NEW ttl \in Optional(Ttls), NEW ifAbsent \in BOOLEAN, Set(k, v, ttl, ifAbsent)
    PROVE  IInv'
  <1>0. reply' \in Replies /\ (Write(k, v, Due(ttl)) \/ Leave(k))
    BY OptionalEmpty DEF Set, Answer, Replies
  <1>1. Due(ttl) \in Optional(Nat) /\ \A t \in Due(ttl) : now < t
    BY DueType DEF IInv, ExpiriesExact, TypeOK
  <1> QED
    BY <1>0, <1>1, LeaveStep, WriteStep

LEMMA CompareAndSetStep ==
    ASSUME IInv, NEW k \in Keys, NEW v \in Values, NEW ttl \in Optional(Ttls), NEW expected \in Optional(Values),
           CompareAndSet(k, expected, v, ttl)
    PROVE  IInv'
  <1>0. reply' \in Replies /\ (Write(k, v, Due(ttl)) \/ Leave(k))
    BY DEF CompareAndSet, Answer, Replies
  <1>1. Due(ttl) \in Optional(Nat) /\ \A t \in Due(ttl) : now < t
    BY DueType DEF IInv, ExpiriesExact, TypeOK
  <1> QED
    BY <1>0, <1>1, LeaveStep, WriteStep

\* What an operation finds has its type and is not due yet.
LEMMA FoundType ==
    ASSUME IInv, NEW k \in Keys, NEW x \in Found(k)
    PROVE  x \in Entry /\ x.expiresAt \in Optional(Nat) /\ (\A t \in x.expiresAt : now < t) /\ Found(k) = {x}
  <1>1. entries[k] \in Optional(Entry)
    BY DEF IInv, ExpiriesExact, TypeOK
  <1> QED
    BY <1>1 DEF Found, Live, Entry, Optional

LEMMA IncrementStep == ASSUME IInv, NEW k \in Keys, Increment(k) PROVE IInv'
  <1>1. CASE Found(k) = {} /\ Write(k, 1, {}) /\ Answer(k, "counter", {1})
    <2>1. 1 \in Values /\ {} \in Optional(Nat)
      BY StoreAssumption, OptionalEmpty DEF Values
    <2>2. reply' \in Replies
      BY <1>1, <2>1, OptionalOne DEF Answer, Replies
    <2> QED
      BY <1>1, <2>1, <2>2, WriteStep
  <1>2. ASSUME NEW x \in Found(k), Countable(x), Write(k, x.value + 1, x.expiresAt), Answer(k, "counter", {x.value + 1}) PROVE IInv'
    <2>1. x.value + 1 \in Values
      BY <1>2, StoreAssumption DEF Countable, Values
    <2>2. x.expiresAt \in Optional(Nat) /\ \A t \in x.expiresAt : now < t
      BY FoundType
    <2>3. reply' \in Replies
      BY <1>2, <2>1, OptionalOne DEF Answer, Replies
    <2> QED
      BY <1>2, <2>1, <2>2, <2>3, WriteStep
  <1>3. CASE Leave(k) /\ Answer(k, "refused", {})
    <2>1. reply' \in Replies
      BY <1>3, OptionalEmpty DEF Answer, Replies
    <2> QED
      BY <1>3, <2>1, LeaveStep
  <1> QED
    BY <1>1, <1>2, <1>3 DEF Increment

LEMMA OperationStep == ASSUME IInv, Operation PROVE IInv'
  <1>1. ASSUME NEW k \in Keys, Get(k) PROVE IInv'
    <2>1. reply' \in Replies
      BY <1>1, FoundValues DEF Get, Answer, Replies
    <2> QED
      BY <1>1, <2>1, LeaveStep DEF Get
  <1> QED
    BY <1>1, DeleteStep, IncrementStep, SetStep, CompareAndSetStep DEF Operation

\* The event of an expiry finds its entry: it expires it, at its time.
LEMMA ExpireStep ==
    ASSUME IInv, NEW e \in agenda, Expire(e)
    PROVE  /\ IInv' /\ now <= e.time
           /\ \E x \in Entry : entries[e.key] = {x} /\ x.expiresAt = {e.time} /\ entries' = [entries EXCEPT ![e.key] = {}]
  <1> DEFINE k == e.key
             trail == Append(expired[k], generations[k])
  <1>0. /\ TypeOK /\ ExpiriesMatch /\ ExpiredOnce /\ LastGeneration /\ NotOverdue
        /\ k \in Keys /\ e \in Expiry /\ generations[k] \in Nat /\ expired[k] \in Seq(Nat) /\ entries[k] \in Optional(Entry)
    BY DEF IInv, ExpiriesExact, TypeOK, Expiry
  <1>1. PICK x \in entries[k] : x.generation = e.generation /\ x.expiresAt = {e.time}
    BY <1>0 DEF ExpiriesMatch
  <1>2. x \in Entry /\ entries[k] = {x} /\ e.generation = generations[k] /\ e.time \in Nat
    BY <1>0, <1>1 DEF Optional, LastGeneration, Expiry
  <1>3. now' = e.time /\ (\A f \in agenda : e.time <= f.time) /\ agenda' = agenda \ {e} /\ UNCHANGED <<generations, reply>>
    BY DEF Expire
  <1>4. {y \in entries[k] : y.generation = e.generation /\ \E t \in y.expiresAt : now' >= t} = entries[k]
    BY <1>1, <1>2, <1>3
  <1>5. entries' = [entries EXCEPT ![k] = {}] /\ expired' = [expired EXCEPT ![k] = trail]
    BY <1>2, <1>4 DEF Expire, ExpireRemoved
  <1>6. agenda' = {f \in agenda : f.key # k} \cup UNION {ExpiriesOf(k, y) : y \in {}}
    <2>1. ASSUME NEW f \in agenda, f.key = k PROVE f = e
      <3>1. f.generation = x.generation /\ x.expiresAt = {f.time}
        BY <1>0, <1>2, <2>1 DEF ExpiriesMatch
      <3>2. f.generation = e.generation /\ f.time = e.time /\ f \in Expiry
        BY <1>0, <1>1, <3>1 DEF TypeOK
      <3> QED
        BY <1>0, <2>1, <3>2 DEF Expiry
    <2> QED
      BY <1>3, <2>1
  <1>7. Rising(expired[k]) /\ Under(expired[k], generations[k])
    BY <1>0, <1>1, <1>2 DEF ExpiredOnce, Rising, Under
  <1>8. trail \in Seq(Nat) /\ Rising(trail) /\ UpTo(trail, generations[k])
    BY <1>0, <1>7, Appended
  <1> HIDE DEF trail
  <1>9. Becomes(k, {}, generations[k], trail)
    <2>1. generations' = [generations EXCEPT ![k] = generations[k]] /\ generations[k] <= generations[k] /\ reply' \in Replies
      BY <1>0, <1>3 DEF TypeOK, Replies
    <2>2. now' \in Nat /\ \A f \in agenda' : now' <= f.time
      BY <1>2, <1>3
    <2> QED
      BY <1>5, <1>6, <1>8, <2>1, <2>2 DEF Becomes
  <1>10. IInv' /\ now <= e.time
    BY <1>0, <1>8, <1>9, KeyStep, OptionalEmpty DEF NotOverdue
  <1> QED
    BY <1>1, <1>2, <1>5, <1>10

LEMMA AdvanceStep == ASSUME IInv, Advance PROVE IInv' /\ now' \in Nat /\ now' > now
  <1>1. now' \in Nat /\ now' > now /\ \A e \in agenda : now' <= e.time
    BY StoreAssumption DEF Advance, IInv, ExpiriesExact, TypeOK
  <1> QED
    BY <1>1 DEF Advance, IInv, ExpiriesExact, TypeOK, ExpiriesMatch, ExpiredOnce, LastGeneration, NotOverdue

LEMMA StutterStep == ASSUME IInv, UNCHANGED vars PROVE IInv'
  BY DEF vars, IInv, ExpiriesExact, TypeOK, ExpiriesMatch, ExpiredOnce, LastGeneration, NotOverdue

LEMMA InitIInv == ASSUME Init PROVE IInv
  <1> USE DEF Init
  <1>1. \A k \in Keys : Initial[k] \in Optional([value : Values, ttl : Optional(Ttls)])
    BY StoreAssumption
  <1>2. ASSUME NEW k \in Keys, NEW x \in Initial[k]
        PROVE  /\ x.value \in Values /\ x.ttl \in Optional(Nat) /\ \A t \in x.ttl : 0 <= t
               /\ entries[k] = {[value |-> x.value, expiresAt |-> x.ttl, generation |-> 0]}
               /\ Initial[k] = {x}
    <2>1. Initial[k] \in SUBSET [value : Values, ttl : Optional(Ttls)] /\ \A a, b \in Initial[k] : a = b
      BY <1>1 DEF Optional
    <2>2. x \in [value : Values, ttl : Optional(Ttls)] /\ Initial[k] = {x}
      BY <1>2, <2>1
    <2>3. x.ttl \subseteq Nat \ {0} /\ x.ttl \in Optional(Nat)
      BY <2>2, StoreAssumption DEF Optional
    <2>4. entries[k] = {[value |-> y.value, expiresAt |-> y.ttl, generation |-> 0] : y \in Initial[k]}
      OBVIOUS
    <2>5. entries[k] = {[value |-> x.value, expiresAt |-> x.ttl, generation |-> 0]}
      BY <2>2, <2>4
    <2> QED
      BY <2>2, <2>3, <2>5
  <1>3. ASSUME NEW k \in Keys PROVE entries[k] \in Optional(Entry) /\ \A x \in entries[k] : x.generation = 0
    <2>1. CASE Initial[k] = {}
      BY <2>1, OptionalEmpty
    <2>2. CASE Initial[k] # {}
      <3>1. PICK x \in Initial[k] : TRUE
        BY <2>2
      <3>2. [value |-> x.value, expiresAt |-> x.ttl, generation |-> 0] \in Entry
        BY <1>2, <3>1 DEF Entry
      <3> QED
        BY <1>2, <3>1, <3>2, OptionalOne
    <2> QED
      BY <2>1, <2>2
  <1>4. ASSUME NEW e \in agenda
        PROVE  /\ e \in Expiry /\ 0 <= e.time
               /\ \E x \in entries[e.key] : x.generation = e.generation /\ x.expiresAt = {e.time}
    <2>1. PICK k \in Keys : \E x \in Initial[k] : \E t \in x.ttl : e = [key |-> k, generation |-> 0, time |-> t]
      OBVIOUS
    <2>2. PICK x \in Initial[k] : \E t \in x.ttl : e = [key |-> k, generation |-> 0, time |-> t]
      BY <2>1
    <2>3. PICK t \in x.ttl : e = [key |-> k, generation |-> 0, time |-> t]
      BY <2>2
    <2>4. x.ttl = {t} /\ t \in Nat
      BY <1>2, <2>2, <2>3 DEF Optional
    <2>5. e \in Expiry /\ e.key = k /\ e.generation = 0 /\ e.time = t
      BY <2>3, <2>4 DEF Expiry
    <2>6. 0 <= e.time
      BY <2>4, <2>5
    <2> DEFINE z == [value |-> x.value, expiresAt |-> x.ttl, generation |-> 0]
    <2>7. entries[k] = {z}
      BY <1>2, <2>2
    <2>8. z.generation = 0 /\ z.expiresAt = {t}
      BY <2>4
    <2> HIDE DEF z
    <2> QED
      BY <2>5, <2>6, <2>7, <2>8
  <1>5. ASSUME NEW k \in Keys, NEW x \in entries[k], NEW t \in x.expiresAt
        PROVE  [key |-> k, generation |-> x.generation, time |-> t] \in agenda
    <2>1. PICK y \in Initial[k] : x = [value |-> y.value, expiresAt |-> y.ttl, generation |-> 0]
      BY <1>5
    <2>2. x.generation = 0 /\ t \in y.ttl
      BY <1>5, <2>1
    <2> QED
      BY <2>1, <2>2
  <1>6. TypeOK
    <2>1. reply \in Replies
      BY StoreAssumption, OptionalEmpty DEF Replies
    <2>2. entries \in [Keys -> Optional(Entry)]
      BY <1>3
    <2> QED
      BY <1>4, <2>1, <2>2 DEF TypeOK, Replies
  <1>7. ExpiriesMatch
    BY <1>4, <1>5 DEF ExpiriesMatch
  <1>8. ExpiredOnce /\ LastGeneration /\ NotOverdue
    BY <1>3, <1>4 DEF ExpiredOnce, LastGeneration, NotOverdue
  <1> QED
    BY <1>6, <1>7, <1>8 DEF IInv, ExpiriesExact

LEMMA StoreInvariant == Spec => []IInv
  <1>1. Init => IInv
    BY InitIInv
  <1>2. IInv /\ [Next]_vars => IInv'
    BY OperationStep, ExpireStep, AdvanceStep, StutterStep DEF Next
  <1> QED
    BY <1>1, <1>2, PTL DEF Spec

\* Entries, generations, pending expiries and observed ones agree for any
\* keys, values, durations and limits, through any order of the operations
\* and the expiry events of an instant.
THEOREM ExpiriesAgree == Spec => []ExpiriesExact
  <1>1. IInv => ExpiriesExact
    BY DEF IInv
  <1> QED
    BY <1>1, StoreInvariant, PTL

-----------------------------------------------------------------------------
(* The store as its owner's map: View                                       *)

\* A step of an instant changes key k to S.
LEMMA ViewBecomes ==
    ASSUME IInv, NEW k \in Keys, NEW S, entries' = [entries EXCEPT ![k] = S],
           now' = now, \A x \in S : \A t \in x.expiresAt : now < t
    PROVE  View' = [View EXCEPT ![k] = {Shown(x) : x \in S}]
  <1>1. entries'[k] = S /\ \A h \in Keys \ {k} : entries'[h] = entries[h]
    BY DEF IInv, ExpiriesExact, TypeOK
  <1>2. Found(k)' = S
    BY <1>1 DEF Found, Live
  <1>3. \A h \in Keys \ {k} : Found(h)' = Found(h)
    BY <1>1 DEF Found, Live
  <1>4. View' = [h \in Keys |-> {Shown(x) : x \in Found(h)'}]
    BY DEF View, Shown
  <1>5. \A h \in Keys : {Shown(x) : x \in Found(h)'} = IF h = k THEN {Shown(x) : x \in S} ELSE {Shown(x) : x \in Found(h)}
    BY <1>2, <1>3
  <1> QED
    BY <1>4, <1>5 DEF View

\* An operation without a write leaves the map as it is.
LEMMA LeaveView == ASSUME IInv, NEW k \in Keys, Leave(k), reply' \in Replies PROVE View' = View
  <1>1. entries' = [entries EXCEPT ![k] = Found(k)] /\ now' = now
    BY LeaveStep DEF Leave
  <1>2. \A x \in Found(k) : \A t \in x.expiresAt : now < t
    BY DEF Found, Live
  <1>3. View' = [View EXCEPT ![k] = {Shown(x) : x \in Found(k)}]
    BY <1>1, <1>2, ViewBecomes
  <1> QED
    BY <1>3 DEF View

\* A write puts its value and due time in the map.
LEMMA WriteView ==
    ASSUME IInv, NEW k \in Keys, NEW v \in Values, NEW due \in Optional(Nat), Write(k, v, due), reply' \in Replies,
           \A t \in due : now < t
    PROVE  View' = [View EXCEPT ![k] = {[value |-> v, until |-> due]}]
  <1>1. PICK x \in Entry : x.value = v /\ x.expiresAt = due /\ entries' = [entries EXCEPT ![k] = {x}]
    BY WriteStep
  <1>2. now' = now /\ \A y \in {x} : \A t \in y.expiresAt : now < t
    BY <1>1 DEF Write
  <1>3. View' = [View EXCEPT ![k] = {Shown(y) : y \in {x}}]
    BY <1>1, <1>2, ViewBecomes
  <1>4. {Shown(y) : y \in {x}} = {[value |-> v, until |-> due]}
    BY <1>1 DEF Shown
  <1> QED
    BY <1>3, <1>4

\* Time that passes takes from the map what it makes due, if each key keeps
\* the entries that are not.
LEMMA TickView ==
    ASSUME IInv, now' \in Nat, now <= now',
           \A h \in Keys : Found(h)' = {x \in Found(h) : \A t \in x.expiresAt : now' < t}
    PROVE  View' = [h \in Keys |-> {y \in View[h] : \A t \in y.until : now' < t}]
  <1>1. View' = [h \in Keys |-> {Shown(x) : x \in Found(h)'}]
    BY DEF View, Shown
  <1>2. ASSUME NEW h \in Keys PROVE {Shown(x) : x \in Found(h)'} = {y \in View[h] : \A t \in y.until : now' < t}
    <2>1. View[h] = {Shown(x) : x \in Found(h)}
      BY DEF View
    <2>2. \A x : Shown(x).until = x.expiresAt
      BY DEF Shown
    <2> QED
      BY <2>1, <2>2
  <1> QED
    BY <1>1, <1>2

\* The durations of the two are the same sets.
LEMMA LifetimesOptional == Optional(Ttls) = Map!Lifetimes
  <1>1. \A o \in Optional(Ttls) : o \in Map!Lifetimes
    <2> SUFFICES ASSUME NEW o \in Optional(Ttls), o # {} PROVE o \in Map!Lifetimes
      BY DEF Map!Lifetimes
    <2>1. PICK x \in Ttls : o = {x}
      BY OptionalCase
    <2> QED
      BY <2>1 DEF Map!Lifetimes
  <1>2. \A o \in Map!Lifetimes : o \in Optional(Ttls)
    BY OptionalEmpty, OptionalOne DEF Map!Lifetimes
  <1> QED
    BY <1>1, <1>2

\* The map shows the values found.
LEMMA ValuesShown ==
    ASSUME NEW k \in Keys
    PROVE  {x.value : x \in Found(k)} = {y.value : y \in View[k]} /\ \A x \in Found(k) : \E y \in View[k] : y.value = x.value
  <1>1. View[k] = {Shown(x) : x \in Found(k)}
    BY DEF View
  <1>2. \A x : Shown(x).value = x.value
    BY DEF Shown
  <1>3. \A x \in Found(k) : \E y \in View[k] : y.value = x.value
    BY <1>1, <1>2
  <1>4. \A y \in View[k] : \E x \in Found(k) : y.value = x.value
    BY <1>1, <1>2
  <1> QED
    BY <1>3, <1>4

\* Each operation of the store is one of the map.
LEMMA GetMaps == ASSUME IInv, NEW k \in Keys, Get(k) PROVE Map!Get(k)
  <1>1. reply' = [key |-> k, result |-> "value", value |-> {x.value : x \in Found(k)}] /\ Leave(k)
    BY DEF Get, Answer
  <1>2. View' = View
    BY <1>1, FoundValues, LeaveView DEF Replies
  <1>3. {x.value : x \in Found(k)} = {y.value : y \in View[k]}
    BY ValuesShown
  <1> QED
    BY <1>1, <1>2, <1>3 DEF Map!Get, Map!Told

LEMMA DeleteMaps == ASSUME IInv, NEW k \in Keys, Delete(k) PROVE Map!Delete(k)
  <1>1. entries' = [entries EXCEPT ![k] = {}] /\ now' = now
    BY DEF Delete
  <1>2. View' = [View EXCEPT ![k] = {Shown(x) : x \in {}}]
    BY <1>1, ViewBecomes
  <1>3. View[k] = {} <=> Found(k) = {}
    BY DEF View
  <1> QED
    BY <1>2, <1>3 DEF Delete, Answer, Map!Delete, Map!Told

\* A write of a value with a duration.
LEMMA PutMaps ==
    ASSUME IInv, NEW k \in Keys, NEW v \in Values, NEW ttl \in Optional(Ttls), Write(k, v, Due(ttl)), reply' \in Replies
    PROVE  \E w \in Map!Values, l \in Map!Lifetimes : View' = Map!Put(k, w, l)
  <1>1. Due(ttl) \in Optional(Nat) /\ \A t \in Due(ttl) : now < t
    BY DueType DEF IInv, ExpiriesExact, TypeOK
  <1>2. View' = [View EXCEPT ![k] = {[value |-> v, until |-> Due(ttl)]}]
    BY <1>1, WriteView
  <1>3. View' = Map!Put(k, v, ttl) /\ v \in Map!Values
    BY <1>2 DEF Map!Put, Due, Values, Map!Values
  <1> QED
    BY <1>3, LifetimesOptional

LEMMA SetMaps ==
    ASSUME IInv, NEW k \in Keys, NEW v \in Values, NEW ttl \in Optional(Ttls), NEW ifAbsent \in BOOLEAN, Set(k, v, ttl, ifAbsent)
    PROVE  Map!Set(k)
  <1>0. reply' \in Replies
    BY OptionalEmpty DEF Set, Answer, Replies
  <1>1. View[k] = {} <=> Found(k) = {}
    BY DEF View
  <1>2. CASE (~ifAbsent \/ Found(k) = {}) /\ Write(k, v, Due(ttl)) /\ Answer(k, IF ifAbsent THEN "created" ELSE "set", {})
    <2>1. \E w \in Map!Values, l \in Map!Lifetimes : View' = Map!Put(k, w, l)
      BY <1>0, <1>2, PutMaps
    <2>2. Map!Told(k, "set") \/ (Map!Told(k, "created") /\ View[k] = {})
      BY <1>1, <1>2 DEF Answer, Map!Told
    <2> QED
      BY <2>1, <2>2 DEF Map!Set
  <1>3. CASE ifAbsent /\ Found(k) # {} /\ Leave(k) /\ Answer(k, "present", {})
    <2>1. View' = View
      BY <1>0, <1>3, LeaveView
    <2>2. Map!Told(k, "present")
      BY <1>3 DEF Answer, Map!Told
    <2> QED
      BY <1>1, <1>3, <2>1, <2>2 DEF Map!Set
  <1> QED
    BY <1>2, <1>3 DEF Set

LEMMA CompareAndSetMaps ==
    ASSUME IInv, NEW k \in Keys, NEW v \in Values, NEW ttl \in Optional(Ttls), NEW expected \in Optional(Values),
           CompareAndSet(k, expected, v, ttl)
    PROVE  Map!CompareAndSet(k)
  <1>0. reply' \in Replies
    BY DEF CompareAndSet, Answer, Replies
  <1>1. {x.value : x \in Found(k)} = {y.value : y \in View[k]}
    BY ValuesShown
  <1>2. CASE expected = {x.value : x \in Found(k)} /\ Write(k, v, Due(ttl)) /\ Answer(k, "swapped", expected)
    <2>1. \E w \in Map!Values, l \in Map!Lifetimes : View' = Map!Put(k, w, l)
      BY <1>0, <1>2, PutMaps
    <2> QED
      BY <1>1, <1>2, <2>1 DEF Answer, Map!Told, Map!CompareAndSet
  <1>3. CASE expected # {x.value : x \in Found(k)} /\ Leave(k) /\ Answer(k, "mismatch", expected)
    <2>1. View' = View
      BY <1>0, <1>3, LeaveView
    <2> QED
      BY <1>1, <1>3, <2>1 DEF Answer, Map!Told, Map!CompareAndSet
  <1> QED
    BY <1>2, <1>3 DEF CompareAndSet

LEMMA IncrementMaps == ASSUME IInv, NEW k \in Keys, Increment(k) PROVE Map!Increment(k)
  <1>0. View[k] = {Shown(x) : x \in Found(k)}
    BY DEF View
  <1>1. CASE Found(k) = {} /\ Write(k, 1, {}) /\ Answer(k, "counter", {1})
    <2>1. 1 \in Values /\ {} \in Optional(Nat)
      BY StoreAssumption, OptionalEmpty DEF Values
    <2>2. reply' \in Replies
      BY <1>1, <2>1, OptionalOne DEF Answer, Replies
    <2>3. View' = [View EXCEPT ![k] = {[value |-> 1, until |-> {}]}]
      BY <1>1, <2>1, <2>2, WriteView
    <2>4. View[k] = {}
      BY <1>0, <1>1
    <2> QED
      BY <1>1, <2>3, <2>4 DEF Answer, Map!Told, Map!Increment
  <1>2. ASSUME NEW x \in Found(k), Countable(x), Write(k, x.value + 1, x.expiresAt), Answer(k, "counter", {x.value + 1})
        PROVE  Map!Increment(k)
    <2> DEFINE y == Shown(x)
    <2>1. x.value + 1 \in Values
      BY <1>2, StoreAssumption DEF Countable, Values
    <2>2. x.expiresAt \in Optional(Nat) /\ \A t \in x.expiresAt : now < t
      BY FoundType
    <2>3. reply' \in Replies
      BY <1>2, <2>1, OptionalOne DEF Answer, Replies
    <2>4. View' = [View EXCEPT ![k] = {[value |-> x.value + 1, until |-> x.expiresAt]}]
      BY <1>2, <2>1, <2>2, <2>3, WriteView
    <2>5. y \in View[k] /\ y.value = x.value /\ [y EXCEPT !.value = @ + 1] = [value |-> x.value + 1, until |-> x.expiresAt]
      BY <1>0 DEF Shown
    <2> HIDE DEF y
    <2>6. y.value \in 0 .. (MaxCounter - 1) /\ reply'.value = {y.value + 1} /\ Map!Told(k, "counter")
      BY <1>2, <2>5 DEF Countable, Answer, Map!Told
    <2>7. View' = [View EXCEPT ![k] = {[y EXCEPT !.value = @ + 1]}]
      BY <2>4, <2>5
    <2> QED
      BY <2>5, <2>6, <2>7 DEF Map!Increment
  <1>3. ASSUME NEW x \in Found(k), ~Countable(x), Leave(k), Answer(k, "refused", {}) PROVE Map!Increment(k)
    <2>1. reply' \in Replies /\ Map!Told(k, "refused")
      BY <1>3, OptionalEmpty DEF Answer, Replies, Map!Told
    <2>2. View' = View
      BY <1>3, <2>1, LeaveView
    <2>3. \E y \in View[k] : y.value \notin 0 .. (MaxCounter - 1)
      BY <1>3, ValuesShown DEF Countable
    <2> QED
      BY <2>1, <2>2, <2>3 DEF Map!Increment
  <1> QED
    BY <1>1, <1>2, <1>3 DEF Increment

LEMMA OperationMaps == ASSUME IInv, Operation PROVE Map!Operation
  <1>1. now' = now
    <2>1. \A k \in Keys : Leave(k) \/ Delete(k) => now' = now
      BY DEF Leave, Delete
    <2>2. \A k \in Keys : \A v, due : Write(k, v, due) => now' = now
      BY DEF Write
    <2>3. \A k \in Keys : Get(k) \/ Increment(k) => now' = now
      BY <2>1, <2>2 DEF Get, Increment
    <2>4. \A k \in Keys : \A v, ttl, x : Set(k, v, ttl, x) \/ CompareAndSet(k, x, v, ttl) => now' = now
      BY <2>1, <2>2 DEF Set, CompareAndSet
    <2> QED
      BY <2>1, <2>3, <2>4, Zenon DEF Operation
  <1>2. \E k \in Keys : Map!Get(k) \/ Map!Set(k) \/ Map!Delete(k) \/ Map!Increment(k) \/ Map!CompareAndSet(k)
    BY GetMaps, SetMaps, DeleteMaps, IncrementMaps, CompareAndSetMaps DEF Operation
  <1> QED
    BY <1>1, <1>2 DEF Map!Operation

\* An expiry that comes after an operation found it, or with its time.
LEMMA TimeMaps ==
    ASSUME IInv, now' \in Nat, now <= now', reply' = reply,
           \A h \in Keys : Found(h)' = {x \in Found(h) : \A t \in x.expiresAt : now' < t}
    PROVE  Map!Tick \/ UNCHANGED <<now, View, reply>>
  <1>1. View' = [h \in Keys |-> {y \in View[h] : \A t \in y.until : now' < t}]
    BY TickView
  <1>2. CASE now < now'
    <2>1. View' = Map!Living(now')
      BY <1>1 DEF Map!Living
    <2> QED
      BY <1>2, <2>1 DEF Map!Tick
  <1>3. CASE now = now'
    <2>1. ASSUME NEW h \in Keys PROVE {y \in View[h] : \A t \in y.until : now' < t} = View[h]
      <3>1. \A x \in Found(h) : \A t \in x.expiresAt : now < t
        BY DEF Found, Live
      <3>2. View[h] = {Shown(x) : x \in Found(h)}
        BY DEF View
      <3>3. \A x : Shown(x).until = x.expiresAt
        BY DEF Shown
      <3> QED
        BY <1>3, <3>1, <3>2, <3>3
    <2>2. View' = View
      BY <1>1, <2>1 DEF View
    <2> QED
      BY <1>3, <2>2
  <1> QED
    BY <1>2, <1>3 DEF IInv, ExpiriesExact, TypeOK

LEMMA ExpireMaps == ASSUME IInv, NEW e \in agenda, Expire(e) PROVE Map!Tick \/ UNCHANGED <<now, View, reply>>
  <1>1. now' = e.time /\ reply' = reply /\ e.key \in Keys /\ e.time \in Nat
    BY DEF Expire, IInv, ExpiriesExact, TypeOK, Expiry
  <1>2. PICK x \in Entry : entries[e.key] = {x} /\ x.expiresAt = {e.time} /\ entries' = [entries EXCEPT ![e.key] = {}]
    BY ExpireStep
  <1>3. now <= e.time /\ now \in Nat
    BY ExpireStep DEF IInv, ExpiriesExact, TypeOK
  <1>4. ASSUME NEW h \in Keys PROVE Found(h)' = {y \in Found(h) : \A t \in y.expiresAt : now' < t}
    <2>1. entries'[h] = IF h = e.key THEN {} ELSE entries[h]
      BY <1>2 DEF IInv, ExpiriesExact, TypeOK
    <2>2. CASE h = e.key
      BY <1>1, <1>2, <2>1, <2>2 DEF Found, Live
    <2>3. CASE h # e.key
      <3>1. ASSUME NEW y \in entries[h], NEW t \in y.expiresAt, now' < t PROVE now < t
        <4>1. t \in Nat
          BY <3>1 DEF IInv, ExpiriesExact, TypeOK, Entry, Optional
        <4> QED
          BY <1>1, <1>3, <3>1, <4>1
      <3> QED
        BY <2>1, <2>3, <3>1 DEF Found, Live
    <2> QED
      BY <2>2, <2>3
  <1> QED
    BY <1>1, <1>3, <1>4, TimeMaps

LEMMA AdvanceMaps == ASSUME IInv, Advance PROVE Map!Tick \/ UNCHANGED <<now, View, reply>>
  <1>1. now' \in Nat /\ now < now' /\ now \in Nat /\ reply' = reply /\ entries' = entries
    BY AdvanceStep DEF Advance, IInv, ExpiriesExact, TypeOK
  <1>2. ASSUME NEW h \in Keys PROVE Found(h)' = {y \in Found(h) : \A t \in y.expiresAt : now' < t}
    <2>1. ASSUME NEW y \in entries[h], NEW t \in y.expiresAt, now' < t PROVE now < t
      <3>1. t \in Nat
        BY <2>1 DEF IInv, ExpiriesExact, TypeOK, Entry, Optional
      <3> QED
        BY <1>1, <2>1, <3>1
    <2> QED
      BY <1>1, <2>1 DEF Found, Live
  <1> QED
    BY <1>1, <1>2, TimeMaps

LEMMA InitMaps == ASSUME Init PROVE Map!Init
  <1> USE DEF Init
  <1>0. IInv
    BY InitIInv
  <1>1. ASSUME NEW k \in Keys PROVE View[k] \in {{}} \cup {{y} : y \in [value : Map!Values, until : Map!Lifetimes]}
    <2>1. View[k] = {Shown(x) : x \in Found(k)}
      BY DEF View
    <2>2. ASSUME NEW x \in Found(k) PROVE Shown(x) \in [value : Map!Values, until : Map!Lifetimes] /\ View[k] = {Shown(x)}
      <3>1. PICK y \in Initial[k] : x = [value |-> y.value, expiresAt |-> y.ttl, generation |-> 0]
        BY <2>2 DEF Found
      <3>2. y \in [value : Values, ttl : Optional(Ttls)]
        BY StoreAssumption DEF Optional
      <3>3. x.value \in Map!Values /\ x.expiresAt \in Map!Lifetimes
        BY <3>1, <3>2, LifetimesOptional DEF Values, Map!Values
      <3>4. Found(k) = {x}
        BY <1>0, FoundType
      <3> QED
        BY <2>1, <3>3, <3>4 DEF Shown
    <2>3. CASE Found(k) = {}
      BY <2>1, <2>3
    <2>4. CASE Found(k) # {}
      BY <2>2, <2>4
    <2> QED
      BY <2>3, <2>4
  <1>2. View \in [Keys -> {{}} \cup {{y} : y \in [value : Map!Values, until : Map!Lifetimes]}]
    BY <1>1 DEF View
  <1> QED
    BY <1>2 DEF Map!Init

\* To its owner a store is the map of TtlMap: entries vanish exactly at their
\* expiry, whichever of an operation and the expiry event comes first, and
\* the conditional writes see what a read would.
THEOREM StoreIsATtlMap == Spec => ImplementsTtlMap
  <1>1. Init => Map!Init
    BY InitMaps
  <1>2. IInv /\ [Next]_vars => [Map!Next]_Map!vars
    <2> SUFFICES ASSUME IInv, [Next]_vars PROVE [Map!Next]_Map!vars
      OBVIOUS
    <2>1. CASE Operation
      BY <2>1, OperationMaps DEF Map!Next
    <2>2. CASE \E e \in agenda : Expire(e)
      BY <2>2, ExpireMaps DEF Map!Next, Map!vars
    <2>3. CASE Advance
      BY <2>3, AdvanceMaps DEF Map!Next, Map!vars
    <2>4. CASE UNCHANGED vars
      BY <2>4 DEF vars, Map!vars, View, Found, Live, Shown
    <2> QED
      BY <2>1, <2>2, <2>3, <2>4 DEF Next
  <1> QED
    BY <1>1, <1>2, StoreInvariant, PTL DEF Spec, Map!Spec, ImplementsTtlMap

-----------------------------------------------------------------------------
(* The books of an external service                                         *)

Behavior   == [latency : Nat, degradedExtraLatency : Nat, dropResponse : BOOLEAN]
EventKinds == {"step", "delivery", "arrival", "complete", "callback", "callbackReply", "callbackTimeout", "response", "deadline"}
Answers    == {"none", "ok", "UNAVAILABLE", "RATE_LIMITED", "ENDPOINT_NOT_FOUND"}
Tallies    == [effect : Nat, admitted : Nat, rejected : Nat, suppressed : Nat, callbacks : Nat, callbackTimeouts : Nat, finished : Nat]
Token      == {"delivery", "arrival", "complete"}
Calling    == {"callback", "callbackReply", "callbackTimeout"}

\* The events of Q of the types in T.
Of(Q, T) == {e \in Q : e.type \in T}

\* At most one event of these types for one request.
Alone(Q, T) == \A e, f \in Q : e.type \in T /\ f.type \in T /\ e.id = f.id => e = f

WorkTypes ==
    /\ serviceTime \in Nat /\ seq \in Nat /\ script \in Scripts
    /\ \A e \in queue : /\ e.time \in Nat /\ serviceTime <= e.time /\ e.seq \in Nat /\ e.seq <= seq /\ e.type \in EventKinds
                        /\ IF e.type = "step" THEN e.id \in DOMAIN script ELSE e.id \in Requests
    /\ behaviors \in [Operations -> Behavior]
    /\ \A r \in DOMAIN admissions : r \in Requests /\ admissions[r].behavior \in Behavior

\* Each step of the scenario is taken once, a relayed one after its relay, and
\* what is to be asked was not asked.
StepsOnce ==
    /\ Alone(queue, {"step"})
    /\ \E rest \in SUBSET DOMAIN script :
          /\ \A e \in Of(queue, {"step"}) :
                e.id \in rest /\ (e.id = 1 \/ script[e.id - 1].does # "relay" \/ e.id - 1 \notin rest)
          /\ \A i \in rest : /\ script[i].does = "relay" => i + 1 \in rest
                             /\ script[i].does = "ask" => outcome[script[i].with] = "idle"

\* A request is sent once: by a step, or at the deadline of the one it retries.
SentOnce ==
    /\ Alone(queue, {"deadline"})
    /\ \A e \in Of(queue, {"deadline"}) : outcome[e.id] = "waiting"
    /\ \A q \in Requests : \A r \in Retry[q] : outcome[r] # "idle" => outcome[q] = "timeout"

\* A request is one token, from its delivery to its arrival and its completion.
OneToken ==
    /\ Alone(queue, Token)
    /\ \A e \in Of(queue, Token) : /\ outcome[e.id] # "idle" /\ answered[e.id] = "none"
                                   /\ \A i \in DOMAIN applied : applied[i] # e.id
    /\ \A e \in Of(queue, {"delivery"}) : e.id \notin DOMAIN admissions
    /\ \A r \in Requests : outcome[r] = "idle" =>
          answered[r] = "none" /\ r \notin DOMAIN admissions /\ \A i \in DOMAIN applied : applied[i] # r

InHand == WorkTypes /\ StepsOnce /\ SentOnce /\ OneToken

BookTypes ==
    /\ IsFiniteSet(queue)
    /\ counts \in Tallies /\ applied \in Seq(Requests)
    /\ answered \in [Requests -> Answers]
    /\ outcome \in [Requests -> Answers \cup {"idle", "waiting", "timeout"}]

\* BooksMatch, of the status s, the events Q, the requests D that were accepted, those
\* applied A, the counters C and the answers R.
Booked(s, Q, D, A, C, R) ==
    /\ s = "RUNNING" =>
         /\ D = {e.id : e \in Of(Q, {"arrival", "complete"})}
         /\ C.admitted = C.effect + Cardinality(Of(Q, {"complete"}))
    /\ C.effect = Len(A)
    /\ C.effect = C.suppressed + Cardinality({r \in Requests : R[r] = "ok"})
    /\ C.rejected = Cardinality({r \in Requests : R[r] \notin {"none", "ok"}})
    /\ C.callbacks = C.finished + Cardinality(Of(Q, Calling))

ServiceInv ==
    /\ BookTypes
    /\ Booked(serviceStatus, queue, DOMAIN admissions, applied, counts, answered)
    /\ serviceStatus = "RUNNING" => InHand

LEMMA ExternalCardinality == \A S : External!Cardinality(S) = Cardinality(S)
  BY DEF External!Cardinality, Cardinality

LEMMA BooksAreBooked ==
    External!BooksMatch <=> Booked(serviceStatus, queue, DOMAIN admissions, applied, counts, answered)
  <1>1. /\ External!Pending("arrival") \cup External!Pending("complete") = Of(queue, {"arrival", "complete"})
        /\ External!Pending("complete") = Of(queue, {"complete"})
    BY DEF External!Pending, Of
  <1>2. UNION {External!Pending(t) : t \in {"callback", "callbackReply", "callbackTimeout"}} = Of(queue, Calling)
    BY DEF External!Pending, Of, Calling
  <1> QED
    BY <1>1, <1>2, ExternalCardinality DEF External!BooksMatch, Booked

-----------------------------------------------------------------------------
(* Events that are scheduled                                                *)

Item == [delay : Nat, type : EventKinds, id : Requests \cup Nat]

\* The events of a list that is scheduled at time t after the n-th.
Queued(t, n, list) ==
    {[time |-> t + list[i].delay, seq |-> n + i, type |-> list[i].type, id |-> list[i].id] : i \in DOMAIN list}

LEMMA QueuedCount ==
    ASSUME NEW t \in Nat, NEW n \in Nat, NEW list \in Seq(Item)
    PROVE  IsFiniteSet(Queued(t, n, list)) /\ Cardinality(Queued(t, n, list)) = Len(list)
  <1> DEFINE k == Len(list)
             f == [i \in 1..k |-> [time |-> t + list[i].delay, seq |-> n + i, type |-> list[i].type, id |-> list[i].id]]
             S == Queued(t, n, list)
  <1>1. k \in Nat /\ DOMAIN list = 1..k
    OBVIOUS
  <1>2. \A i \in 1..k : f[i].seq = n + i
    OBVIOUS
  <1>3. \A i, j \in 1..k : f[i] = f[j] => i = j
    <2>1. SUFFICES ASSUME NEW i \in 1..k, NEW j \in 1..k, f[i] = f[j] PROVE i = j
      OBVIOUS
    <2>2. n + i = n + j
      BY <1>2, <2>1
    <2> QED
      BY <1>1, <2>2
  <1>4. f \in [1..k -> S]
    BY <1>1 DEF Queued
  <1>5. \A x \in S : \E i \in 1..k : f[i] = x
    BY <1>1 DEF Queued
  <1>6. IsFiniteSet(1..k) /\ Cardinality(1..k) = k
    BY <1>1, FS_Interval
  <1> HIDE DEF f, S, k
  <1>7. f \in Bijection(1..k, S)
    BY <1>3, <1>4, <1>5, Fun_IsBij
  <1>8. ExistsBijection(1..k, S)
    BY <1>7, Fun_ExistsBij
  <1>9. IsFiniteSet(S) /\ Cardinality(S) = Cardinality(1..k)
    BY <1>6, <1>8, FS_Bijection
  <1> QED
    BY <1>6, <1>9 DEF S, k

Fits(x) == IF x.type = "step" THEN x.id \in DOMAIN script ELSE x.id \in Requests

\* e is dispatched, those in gone are cancelled, and a list is scheduled.
Moved(e, gone, list) ==
    /\ e \in queue /\ External!IsFirst(e, queue) /\ External!Dispatched(e, gone, list)
    /\ list \in Seq(Item) /\ \A i \in DOMAIN list : Fits(list[i])

LEMMA MoveFacts ==
    ASSUME WorkTypes, NEW e, NEW gone, NEW list, Moved(e, gone, list)
    PROVE  /\ serviceTime' = e.time /\ serviceTime' \in Nat /\ serviceTime <= serviceTime'
           /\ seq' \in Nat /\ seq <= seq' /\ script' = script
           /\ queue' = (queue \ (gone \cup {e})) \cup Queued(e.time, seq, list)
           /\ \A f \in Queued(e.time, seq, list) :
                 /\ f.time \in Nat /\ serviceTime' <= f.time /\ f.seq \in Nat /\ f.seq <= seq' /\ f.type \in EventKinds
                 /\ Fits(f) /\ f \notin queue
           /\ \A f \in queue : f # e => e.time <= f.time
  <1>1. /\ serviceTime' = e.time /\ seq' = seq + Len(list) /\ script' = script
        /\ queue' = (queue \ (gone \cup {e})) \cup Queued(e.time, seq, list)
    BY DEF Moved, External!Dispatched, Queued
  <1>2. e.time \in Nat /\ serviceTime <= e.time /\ seq \in Nat
    BY DEF Moved, WorkTypes
  <1>3. \A f \in queue : f # e => e.time <= f.time
    BY DEF Moved, WorkTypes, External!IsFirst, External!Earlier
  <1>4. Len(list) \in Nat /\ DOMAIN list = 1..Len(list)
    BY DEF Moved
  <1>5. ASSUME NEW f \in Queued(e.time, seq, list)
        PROVE  /\ f.time \in Nat /\ e.time <= f.time /\ f.seq \in Nat /\ f.seq <= seq + Len(list) /\ f.type \in EventKinds
               /\ Fits(f) /\ f.seq > seq
    <2>1. PICK i \in 1..Len(list) :
             f = [time |-> e.time + list[i].delay, seq |-> seq + i, type |-> list[i].type, id |-> list[i].id]
      BY <1>4, <1>5 DEF Queued
    <2>2. list[i].delay \in Nat /\ list[i].type \in EventKinds /\ Fits(list[i])
      <3>1. list[i] \in Item
        BY <1>4 DEF Moved
      <3> QED
        BY <1>4, <3>1 DEF Moved, Item
    <2>3. f.time = e.time + list[i].delay /\ f.seq = seq + i /\ f.type = list[i].type /\ f.id = list[i].id
      BY <2>1
    <2>4. f.type \in EventKinds /\ Fits(f)
      BY <2>2, <2>3 DEF Fits
    <2> QED
      BY <1>2, <1>4, <2>2, <2>3, <2>4
  <1>6. \A f \in queue : f.seq \in Nat /\ f.seq <= seq
    BY DEF WorkTypes
  <1>7. \A f \in Queued(e.time, seq, list) : f \notin queue
    BY <1>2, <1>5, <1>6
  <1> QED
    BY <1>1, <1>2, <1>3, <1>4, <1>5, <1>7

LEMMA WorkTypesStep ==
    ASSUME WorkTypes, NEW e, NEW gone, NEW list, Moved(e, gone, list),
           behaviors' \in [Operations -> Behavior],
           \A r \in DOMAIN admissions' : r \in Requests /\ admissions'[r].behavior \in Behavior
    PROVE  WorkTypes'
  <1>1. \A f \in queue' : /\ f.time \in Nat /\ serviceTime' <= f.time /\ f.seq \in Nat /\ f.seq <= seq' /\ f.type \in EventKinds
                           /\ Fits(f)
    <2> SUFFICES ASSUME NEW f \in queue'
                 PROVE  /\ f.time \in Nat /\ serviceTime' <= f.time /\ f.seq \in Nat /\ f.seq <= seq' /\ f.type \in EventKinds
                        /\ Fits(f)
      OBVIOUS
    <2>1. CASE f \in Queued(e.time, seq, list)
      BY <2>1, MoveFacts
    <2>2. CASE f \in queue /\ f # e
      <3>1. f.time \in Nat /\ f.seq \in Nat /\ f.seq <= seq /\ f.type \in EventKinds /\ Fits(f)
        BY <2>2 DEF WorkTypes, Fits
      <3>2. seq \in Nat /\ seq' \in Nat /\ seq <= seq' /\ serviceTime' = e.time /\ e.time <= f.time
        BY <2>2, MoveFacts DEF WorkTypes
      <3> QED
        BY <3>1, <3>2
    <2> QED
      BY <2>1, <2>2, MoveFacts
  <1>2. script' = script /\ script' \in Scripts /\ serviceTime' \in Nat /\ seq' \in Nat
    BY MoveFacts DEF WorkTypes
  <1> QED
    BY <1>1, <1>2 DEF WorkTypes, Fits

\* The events of types that e, those cancelled and those scheduled do not have.
LEMMA OfSame ==
    ASSUME WorkTypes, NEW e, NEW gone, NEW list, Moved(e, gone, list), NEW T,
           e.type \notin T, \A g \in gone : g.type \notin T, \A i \in DOMAIN list : list[i].type \notin T
    PROVE  Of(queue', T) = Of(queue, T)
  <1>1. \A f \in Queued(e.time, seq, list) : f.type \notin T
    BY DEF Queued
  <1>2. queue' = (queue \ (gone \cup {e})) \cup Queued(e.time, seq, list)
    BY MoveFacts
  <1> QED
    BY <1>1, <1>2 DEF Of

LEMMA OfMoved ==
    ASSUME WorkTypes, NEW e, NEW gone, NEW list, Moved(e, gone, list), NEW T
    PROVE  Of(queue', T) = (Of(queue, T) \ (gone \cup {e})) \cup Of(Queued(e.time, seq, list), T)
  <1>2. queue' = (queue \ (gone \cup {e})) \cup Queued(e.time, seq, list)
    BY MoveFacts
  <1> QED
    BY <1>2 DEF Of

LEMMA MoveFinite ==
    ASSUME WorkTypes, NEW e, NEW gone, NEW list, Moved(e, gone, list), IsFiniteSet(queue)
    PROVE  IsFiniteSet(queue')
  <1>1. e.time \in Nat /\ seq \in Nat /\ list \in Seq(Item)
    BY DEF Moved, WorkTypes
  <1>2. IsFiniteSet(Queued(e.time, seq, list))
    BY <1>1, QueuedCount
  <1>3. IsFiniteSet(queue \ (gone \cup {e}))
    BY FS_Subset
  <1>4. IsFiniteSet((queue \ (gone \cup {e})) \cup Queued(e.time, seq, list))
    BY <1>2, <1>3, FS_Union
  <1>5. queue' = (queue \ (gone \cup {e})) \cup Queued(e.time, seq, list)
    BY MoveFacts
  <1> QED
    BY <1>4, <1>5

-----------------------------------------------------------------------------
(* The parts of the invariant                                               *)

LEMMA AloneSame == \A P, Q, T : Of(P, T) = Of(Q, T) /\ Alone(Q, T) => Alone(P, T)
  BY DEF Of, Alone

\* An event that is pending after a move was so before, or was scheduled.
LEMMA OldOrNew ==
    ASSUME WorkTypes, NEW e, NEW gone, NEW list, Moved(e, gone, list), NEW f \in queue'
    PROVE  \/ f \in queue /\ f \notin gone /\ f # e
           \/ \E i \in DOMAIN list : /\ f = [time |-> e.time + list[i].delay, seq |-> seq + i, type |-> list[i].type, id |-> list[i].id]
                                     /\ f.type = list[i].type /\ f.id = list[i].id
  <1>1. f \in (queue \ (gone \cup {e})) \cup Queued(e.time, seq, list)
    BY MoveFacts
  <1> QED
    BY <1>1 DEF Queued

LEMMA AloneMoved ==
    ASSUME WorkTypes, NEW e, NEW gone, NEW list, Moved(e, gone, list), NEW T, Alone(queue, T),
           \A i, j \in DOMAIN list : list[i].type \in T /\ list[j].type \in T /\ list[i].id = list[j].id => i = j,
           \A i \in DOMAIN list : \A f \in queue : list[i].type \in T /\ f.type \in T /\ f.id = list[i].id => f = e \/ f \in gone
    PROVE  Alone(queue', T)
  <1> SUFFICES ASSUME NEW f \in queue', NEW g \in queue', f.type \in T, g.type \in T, f.id = g.id PROVE f = g
    BY DEF Alone
  <1>1. CASE f \in queue /\ f \notin gone /\ f # e
    BY <1>1, OldOrNew DEF Alone
  <1>2. CASE g \in queue /\ g \notin gone /\ g # e
    BY <1>2, OldOrNew DEF Alone
  <1>3. CASE ~(f \in queue /\ f \notin gone /\ f # e) /\ ~(g \in queue /\ g \notin gone /\ g # e)
    <2>1. PICK i \in DOMAIN list :
             /\ f = [time |-> e.time + list[i].delay, seq |-> seq + i, type |-> list[i].type, id |-> list[i].id]
             /\ f.type = list[i].type /\ f.id = list[i].id
      BY <1>3, OldOrNew
    <2>2. PICK j \in DOMAIN list :
             /\ g = [time |-> e.time + list[j].delay, seq |-> seq + j, type |-> list[j].type, id |-> list[j].id]
             /\ g.type = list[j].type /\ g.id = list[j].id
      BY <1>3, OldOrNew
    <2>3. i = j
      BY <2>1, <2>2
    <2> QED
      BY <2>1, <2>2, <2>3
  <1> QED
    BY <1>1, <1>2, <1>3

\* Requests that the scenario asks for are no retries.
LEMMA AskedByStep ==
    ASSUME WorkTypes, NEW i \in DOMAIN script
    PROVE  /\ script[i].time \in Nat
           /\ script[i].does = "ask" => script[i].with \in Requests /\ \A q \in Requests : script[i].with \notin Retry[q]
           /\ script[i].does = "relay" => i + 1 \in DOMAIN script /\ script[i].with \in Nat
           /\ script[i].does = "configure" => script[i].with.behavior \in Behavior
           /\ i \in Nat /\ i >= 1 /\ i <= Len(script) /\ Len(script) \in Nat
           /\ \A j \in DOMAIN script : script[i].does = "ask" /\ script[j].does = "ask" /\ script[i].with = script[j].with => i = j
  <1>1. script \in Scripts
    BY DEF WorkTypes
  <1>2. Len(script) \in Nat /\ DOMAIN script = 1..Len(script)
    BY <1>1, ProviderAssumption
  <1>3. /\ script[i].time \in Nat
        /\ script[i].does = "ask" => script[i].with \in Requests /\ \A q \in Requests : script[i].with \notin Retry[q]
        /\ script[i].does = "relay" => i < Len(script) /\ script[i].with \in Nat
        /\ script[i].does = "configure" => script[i].with.behavior \in Behavior
        /\ \A j \in DOMAIN script : script[i].does = "ask" /\ script[j].does = "ask" /\ script[i].with = script[j].with => i = j
    BY <1>1, ProviderAssumption DEF Behavior
  <1> QED
    BY <1>2, <1>3

LEMMA StepsKept ==
    ASSUME WorkTypes, StepsOnce, Of(queue', {"step"}) = Of(queue, {"step"}), script' = script,
           \A r \in Requests : (\A q \in Requests : r \notin Retry[q]) /\ outcome[r] = "idle" => outcome'[r] = "idle"
    PROVE  StepsOnce'
  <1>1. Alone(queue', {"step"})
    BY AloneSame DEF StepsOnce
  <1>2. PICK rest \in SUBSET DOMAIN script :
           /\ \A e \in Of(queue, {"step"}) :
                 e.id \in rest /\ (e.id = 1 \/ script[e.id - 1].does # "relay" \/ e.id - 1 \notin rest)
           /\ \A i \in rest : /\ script[i].does = "relay" => i + 1 \in rest
                              /\ script[i].does = "ask" => outcome[script[i].with] = "idle"
    BY DEF StepsOnce
  <1>3. \A i \in rest : script[i].does = "ask" => outcome'[script[i].with] = "idle"
    BY <1>2, AskedByStep
  <1> QED
    BY <1>1, <1>2, <1>3 DEF StepsOnce

\* A step is taken, and the one it relays is scheduled.
LEMMA StepTaken ==
    ASSUME WorkTypes, StepsOnce, NEW e \in queue, e.type = "step", NEW S,
           Of(queue', {"step"}) = (Of(queue, {"step"}) \ {e}) \cup S, script' = script,
           \A f \in S : f.type = "step" /\ f.id = e.id + 1 /\ script[e.id].does = "relay", \A f, g \in S : f = g,
           \A i \in DOMAIN script : i # e.id /\ script[i].does = "ask" /\ outcome[script[i].with] = "idle"
              => outcome'[script[i].with] = "idle"
    PROVE  StepsOnce'
  <1>1. PICK rest \in SUBSET DOMAIN script :
           /\ \A f \in Of(queue, {"step"}) :
                 f.id \in rest /\ (f.id = 1 \/ script[f.id - 1].does # "relay" \/ f.id - 1 \notin rest)
           /\ \A i \in rest : /\ script[i].does = "relay" => i + 1 \in rest
                              /\ script[i].does = "ask" => outcome[script[i].with] = "idle"
    BY DEF StepsOnce
  <1>2. e \in Of(queue, {"step"}) /\ e.id \in rest /\ e.id \in DOMAIN script /\ e.id \in Nat /\ e.id >= 1
    BY <1>1, AskedByStep DEF Of, WorkTypes
  <1>3. \A f \in Of(queue, {"step"}) : f # e => f.id # e.id
    BY <1>2 DEF StepsOnce, Alone, Of
  <1>4. \A f \in Of(queue, {"step"}), g \in S : f.id # g.id
    <2> SUFFICES ASSUME NEW f \in Of(queue, {"step"}), NEW g \in S, f.id = g.id PROVE FALSE
      OBVIOUS
    <2>1. f.id = e.id + 1 /\ script[e.id].does = "relay"
      OBVIOUS
    <2>2. f.id # 1 /\ f.id - 1 = e.id
      BY <1>2, <2>1
    <2> QED
      BY <1>1, <1>2, <2>1, <2>2
  <1>5. Alone(queue', {"step"})
    <2>1. Alone(queue, {"step"})
      BY DEF StepsOnce
    <2>2. \A f, g \in Of(queue', {"step"}) : f.id = g.id => f = g
      <3> SUFFICES ASSUME NEW f \in Of(queue', {"step"}), NEW g \in Of(queue', {"step"}), f.id = g.id PROVE f = g
        OBVIOUS
      <3>1. CASE f \in Of(queue, {"step"}) /\ g \in Of(queue, {"step"})
        BY <2>1, <3>1 DEF Alone, Of
      <3> QED
        BY <1>4, <3>1
    <2> QED
      BY <2>2 DEF Alone, Of
  <1> DEFINE then == rest \ {e.id}
  <1>6. \A i \in then : /\ script[i].does = "relay" => i + 1 \in then
                        /\ script[i].does = "ask" => outcome'[script[i].with] = "idle"
    <2> SUFFICES ASSUME NEW i \in then
                 PROVE  /\ script[i].does = "relay" => i + 1 \in then
                        /\ script[i].does = "ask" => outcome'[script[i].with] = "idle"
      OBVIOUS
    <2>1. i \in rest /\ i # e.id /\ i \in Nat /\ i >= 1
      BY AskedByStep
    <2>2. i + 1 = e.id => e.id # 1 /\ e.id - 1 = i
      BY <2>1
    <2>3. script[i].does = "relay" => i + 1 # e.id
      BY <1>1, <1>2, <2>1, <2>2
    <2> QED
      BY <1>1, <2>1, <2>3
  <1>7. \A f \in Of(queue', {"step"}) : f.id \in then /\ (f.id = 1 \/ script[f.id - 1].does # "relay" \/ f.id - 1 \notin then)
    <2> SUFFICES ASSUME NEW f \in Of(queue', {"step"})
                 PROVE  f.id \in then /\ (f.id = 1 \/ script[f.id - 1].does # "relay" \/ f.id - 1 \notin then)
      OBVIOUS
    <2>1. CASE f \in Of(queue, {"step"}) /\ f # e
      BY <1>1, <1>3, <2>1
    <2>2. CASE f \in S
      <3>1. f.id = e.id + 1 /\ script[e.id].does = "relay"
        BY <2>2
      <3>2. f.id \in rest /\ f.id # e.id /\ f.id - 1 = e.id
        BY <1>1, <1>2, <3>1
      <3> QED
        BY <3>2
    <2> QED
      BY <2>1, <2>2
  <1> HIDE DEF then
  <1>8. then \in SUBSET DOMAIN script
    BY DEF then
  <1> QED
    BY <1>5, <1>6, <1>7, <1>8 DEF StepsOnce

LEMMA SentKept ==
    ASSUME SentOnce, Of(queue', {"deadline"}) = Of(queue, {"deadline"}), outcome' = outcome
    PROVE  SentOnce'
  BY AloneSame DEF SentOnce

LEMMA TokensKept ==
    ASSUME WorkTypes, OneToken, Of(queue', Token) = Of(queue, Token), Of(queue', {"delivery"}) = Of(queue, {"delivery"}),
           UNCHANGED <<answered, applied, admissions>>,
           \A r \in Requests : outcome'[r] = "idle" <=> outcome[r] = "idle"
    PROVE  OneToken'
  <1>1. Alone(queue', Token)
    BY AloneSame DEF OneToken
  <1>2. \A e \in Of(queue, Token) : e.id \in Requests
    BY DEF WorkTypes, Of, Token
  <1>3. \A e \in Of(queue', Token) : /\ outcome'[e.id] # "idle" /\ answered'[e.id] = "none"
                                      /\ \A i \in DOMAIN applied' : applied'[i] # e.id
    BY <1>2 DEF OneToken
  <1>4. \A e \in Of(queue', {"delivery"}) : e.id \notin DOMAIN admissions'
    BY DEF OneToken
  <1>5. \A r \in Requests : outcome'[r] = "idle" =>
          answered'[r] = "none" /\ r \notin DOMAIN admissions' /\ \A i \in DOMAIN applied' : applied'[i] # r
    BY DEF OneToken
  <1> QED
    BY <1>1, <1>3, <1>4, <1>5 DEF OneToken

LEMMA BookedSame ==
    ASSUME Booked(serviceStatus, queue, DOMAIN admissions, applied, counts, answered),
           serviceStatus' = serviceStatus, DOMAIN admissions' = DOMAIN admissions, UNCHANGED <<applied, counts, answered>>,
           Of(queue', {"arrival", "complete"}) = Of(queue, {"arrival", "complete"}),
           Of(queue', {"complete"}) = Of(queue, {"complete"}), Of(queue', Calling) = Of(queue, Calling)
    PROVE  Booked(serviceStatus, queue, DOMAIN admissions, applied, counts, answered)'
  BY DEF Booked

-----------------------------------------------------------------------------
(* The handlers                                                             *)

\* The next event of a run that has not failed.
Taken(e) ==
    /\ ServiceInv /\ serviceStatus = "RUNNING"
    /\ e \in queue /\ External!IsFirst(e, queue)

LEMMA TakenFacts ==
    ASSUME NEW e, Taken(e)
    PROVE  /\ BookTypes /\ WorkTypes /\ StepsOnce /\ SentOnce /\ OneToken
           /\ Booked(serviceStatus, queue, DOMAIN admissions, applied, counts, answered)
           /\ e.type \in EventKinds /\ (e.type # "step" => e.id \in Requests) /\ (e.type = "step" => e.id \in DOMAIN script)
  BY DEF Taken, ServiceInv, InHand, WorkTypes

\* Nothing is scheduled or cancelled.
LEMMA NothingMore ==
    ASSUME NEW e, Taken(e), External!Dispatched(e, {}, <<>>)
    PROVE  Moved(e, {}, <<>>)
  BY DEF Taken, Moved

LEMMA OneMoved ==
    ASSUME NEW e, Taken(e), NEW d \in Nat, NEW type \in EventKinds, NEW id, NEW gone,
           IF type = "step" THEN id \in DOMAIN script ELSE id \in Requests,
           External!Dispatched(e, gone, <<External!Event(d, type, id)>>)
    PROVE  Moved(e, gone, <<External!Event(d, type, id)>>)
  <1> DEFINE x == External!Event(d, type, id)
  <1>1. x.delay = d /\ x.type = type /\ x.id = id
    BY DEF External!Event
  <1>2. id \in Requests \cup Nat
    BY TakenFacts, AskedByStep
  <1>3. x \in Item
    BY <1>1, <1>2 DEF External!Event, Item
  <1>4. Fits(x)
    BY <1>1 DEF Fits
  <1> HIDE DEF x
  <1>5. <<x>> \in Seq(Item) /\ \A i \in DOMAIN <<x>> : Fits(<<x>>[i])
    BY <1>3, <1>4
  <1> QED
    BY <1>5 DEF Moved, Taken, x

\* A part of the run that has to do with neither books nor tokens.
LEMMA QuietMove ==
    ASSUME NEW e, NEW gone, NEW list, Taken(e), Moved(e, gone, list),
           {e.type} \cap (Token \cup Calling) = {}, \A g \in gone : g.type \notin Token \cup Calling,
           \A i \in DOMAIN list : list[i].type \notin Token \cup Calling,
           UNCHANGED <<serviceStatus, admissions, applied, counts, answered>>,
           outcome' \in [Requests -> Answers \cup {"idle", "waiting", "timeout"}],
           behaviors' \in [Operations -> Behavior], StepsOnce', SentOnce',
           \A r \in Requests : outcome'[r] = "idle" <=> outcome[r] = "idle"
    PROVE  ServiceInv'
  <1>1. /\ Of(queue', Token) = Of(queue, Token) /\ Of(queue', {"delivery"}) = Of(queue, {"delivery"})
        /\ Of(queue', {"arrival", "complete"}) = Of(queue, {"arrival", "complete"})
        /\ Of(queue', {"complete"}) = Of(queue, {"complete"}) /\ Of(queue', Calling) = Of(queue, Calling)
    <2>1. \A T \in {Token, {"delivery"}, {"arrival", "complete"}, {"complete"}, Calling} :
             e.type \notin T /\ (\A g \in gone : g.type \notin T) /\ (\A i \in DOMAIN list : list[i].type \notin T)
      BY DEF Token, Calling
    <2> QED
      BY <2>1, OfSame, TakenFacts
  <1>2. BookTypes'
    BY MoveFinite, TakenFacts DEF BookTypes
  <1>3. Booked(serviceStatus, queue, DOMAIN admissions, applied, counts, answered)'
    BY <1>1, BookedSame, TakenFacts
  <1>4. WorkTypes'
    BY WorkTypesStep, TakenFacts DEF WorkTypes
  <1>5. OneToken'
    BY <1>1, TokensKept, TakenFacts
  <1> QED
    BY <1>2, <1>3, <1>4, <1>5 DEF ServiceInv, InHand

\* The scenario changes the terms.
LEMMA TermsStep ==
    ASSUME NEW e, Taken(e), e.type = "step", External!SetAvailability(e) \/ External!ConfigureBehavior(e)
    PROVE  ServiceInv'
  <1>1. External!Dispatched(e, {}, <<>>) /\ UNCHANGED <<serviceStatus, admissions, applied, counts, answered, outcome>>
    BY DEF External!SetAvailability, External!ConfigureBehavior
  <1>2. Moved(e, {}, <<>>)
    BY <1>1, NothingMore
  <1>3. behaviors' \in [Operations -> Behavior]
    <2>1. e.id \in DOMAIN script /\ behaviors \in [Operations -> Behavior]
      BY TakenFacts DEF WorkTypes
    <2>2. script[e.id].does = "configure" => script[e.id].with.behavior \in Behavior
      BY <2>1, AskedByStep, TakenFacts
    <2> QED
      BY <2>1, <2>2 DEF External!SetAvailability, External!ConfigureBehavior
  <1>4. Of(queue', {"deadline"}) = Of(queue, {"deadline"})
    BY <1>2, OfSame, TakenFacts
  <1>5. SentOnce'
    BY <1>1, <1>4, SentKept, TakenFacts
  <1>6. script' = script /\ Of(queue', {"step"}) = (Of(queue, {"step"}) \ {e}) \cup {}
    BY <1>2, MoveFacts, OfMoved, TakenFacts DEF Of, Queued
  <1>7. StepsOnce'
    <2>1. \A S : S = {} => StepsOnce'
      BY <1>1, <1>6, StepTaken, TakenFacts DEF Taken
    <2> QED
      BY <2>1
  <1> QED
    BY <1>1, <1>2, <1>3, <1>5, <1>7, QuietMove, TakenFacts DEF BookTypes, Token, Calling

LEMMA RelayStep ==
    ASSUME NEW e, Taken(e), e.type = "step", External!Relay(e)
    PROVE  ServiceInv'
  <1> DEFINE d == script[e.id].with
             list == <<External!Event(d, "step", e.id + 1)>>
  <1>0. script[e.id].does = "relay" /\ e.id \in DOMAIN script
    BY TakenFacts DEF External!Relay
  <1>1. External!Dispatched(e, {}, list) /\ UNCHANGED <<serviceStatus, behaviors, admissions, applied, counts, answered, outcome>>
    BY DEF External!Relay
  <1>2. d \in Nat /\ e.id + 1 \in DOMAIN script
    BY <1>0, AskedByStep, TakenFacts
  <1>3. Moved(e, {}, list)
    BY <1>1, <1>2, OneMoved DEF EventKinds
  <1>3a. list \in Seq(Item) /\ Len(list) = 1 /\ DOMAIN list = {1} /\ list[1].type = "step" /\ list[1].id = e.id + 1
    BY <1>3 DEF Moved, External!Event
  <1> HIDE DEF list
  <1>4. Of(queue', {"deadline"}) = Of(queue, {"deadline"})
    BY <1>3, <1>3a, OfSame, TakenFacts
  <1>5. SentOnce'
    BY <1>1, <1>4, SentKept, TakenFacts
  <1>6. script' = script /\ Of(queue', {"step"}) = (Of(queue, {"step"}) \ {e}) \cup Of(Queued(e.time, seq, list), {"step"})
    BY <1>3, MoveFacts, OfMoved, TakenFacts
  <1>6a. /\ \A f \in Of(Queued(e.time, seq, list), {"step"}) : f.type = "step" /\ f.id = e.id + 1
         /\ \A f, g \in Of(Queued(e.time, seq, list), {"step"}) : f = g
    BY <1>3a DEF Of, Queued
  <1>7. StepsOnce'
    <2>1. \A S : S = Of(Queued(e.time, seq, list), {"step"}) => StepsOnce'
      BY <1>0, <1>1, <1>6, <1>6a, StepTaken, TakenFacts DEF Taken
    <2> QED
      BY <2>1
  <1> QED
    BY <1>1, <1>3, <1>3a, <1>5, <1>7, QuietMove, TakenFacts DEF BookTypes, Token, Calling, WorkTypes

LEMMA Alike ==
    ASSUME NEW S, NEW s \in Seq(S), NEW t \in Seq(S), Len(s) = 2, Len(t) = 2, s[1] = t[1], s[2] = t[2]
    PROVE  s = t
  BY SeqEqual

LEMMA Joined ==
    ASSUME NEW S, NEW x \in S, NEW y \in S
    PROVE  <<x>> \o <<y>> = <<x, y>>
  <1>1. <<x>> \in Seq(S) /\ <<y>> \in Seq(S) /\ Len(<<x>>) = 1 /\ Len(<<y>>) = 1
    OBVIOUS
  <1>2. <<x>> \o <<y>> \in Seq(S) /\ Len(<<x>> \o <<y>>) = 2
    BY <1>1
  <1>3. (<<x>> \o <<y>>)[1] = x /\ (<<x>> \o <<y>>)[2] = y
    BY <1>1
  <1>4. <<x, y>> \in Seq(S) /\ Len(<<x, y>>) = 2 /\ <<x, y>>[1] = x /\ <<x, y>>[2] = y
    OBVIOUS
  <1>5. \A s, t : s = <<x>> \o <<y>> /\ t = <<x, y>> => s = t
    BY <1>2, <1>3, <1>4, Alike
  <1> QED
    BY <1>5

LEMMA PairItems ==
    ASSUME NEW S, NEW x \in S, NEW y \in S
    PROVE  <<x, y>> \in Seq(S) /\ DOMAIN <<x, y>> = {1, 2} /\ <<x, y>>[1] = x /\ <<x, y>>[2] = y
  <1>1. <<x, y>> \in Seq(S) /\ Len(<<x, y>>) = 2
    OBVIOUS
  <1>2. DOMAIN <<x, y>> = 1..2 /\ 1..2 = {1, 2}
    OBVIOUS
  <1> QED
    BY <1>1, <1>2

\* What Send schedules: a deadline and, unless it is lost, a delivery.
Sends(list, r) ==
    /\ 1 \in DOMAIN list /\ DOMAIN list \subseteq {1, 2}
    /\ list[1].type = "deadline" /\ list[1].id = r
    /\ 2 \in DOMAIN list => list[2].type = "delivery" /\ list[2].id = r

LEMMA SendMoves ==
    ASSUME NEW e, Taken(e), NEW r \in Requests, External!Send(e, r)
    PROVE  \E list : Moved(e, {}, list) /\ Sends(list, r)
  <1>1. PICK leg \in External!Leg("delivery", r) : External!Dispatched(e, {}, <<External!Event(Timeout, "deadline", r)>> \o leg)
    BY DEF External!Send
  <1> DEFINE list == <<External!Event(Timeout, "deadline", r)>> \o leg
  <1>2. CASE leg = <<>>
    <2>1. list = <<External!Event(Timeout, "deadline", r)>>
      BY <1>2
    <2>2. Timeout \in Nat /\ "deadline" \in EventKinds /\ "deadline" # "step"
      BY ProviderAssumption DEF EventKinds
    <2>3. Moved(e, {}, <<External!Event(Timeout, "deadline", r)>>)
      BY <1>1, <2>1, <2>2, OneMoved
    <2>4. Sends(<<External!Event(Timeout, "deadline", r)>>, r)
      BY DEF Sends, External!Event
    <2> QED
      BY <2>3, <2>4
  <1>3. CASE leg # <<>>
    <2>1. PICK d \in Legs : leg = <<External!Event(d, "delivery", r)>>
      BY <1>3 DEF External!Leg
    <2>2. Timeout \in Nat /\ d \in Nat
      BY ProviderAssumption
    <2> DEFINE x == External!Event(Timeout, "deadline", r)
               y == External!Event(d, "delivery", r)
    <2>3. x \in Item /\ y \in Item /\ Fits(x) /\ Fits(y)
      BY <2>2 DEF External!Event, Item, EventKinds, Fits
    <2>4. x.type = "deadline" /\ x.id = r /\ y.type = "delivery" /\ y.id = r
      BY DEF External!Event
    <2>5. External!Dispatched(e, {}, <<x>> \o <<y>>)
      BY <1>1, <2>1
    <2> HIDE DEF x, y
    <2>6. External!Dispatched(e, {}, <<x, y>>)
      BY <2>3, <2>5, Joined
    <2>7. <<x, y>> \in Seq(Item) /\ DOMAIN <<x, y>> = {1, 2} /\ <<x, y>>[1] = x /\ <<x, y>>[2] = y
      BY <2>3, PairItems
    <2>8. Moved(e, {}, <<x, y>>)
      BY <2>3, <2>6, <2>7 DEF Moved, Taken
    <2>9. Sends(<<x, y>>, r)
      BY <2>4, <2>7 DEF Sends
    <2> QED
      BY <2>8, <2>9
  <1> QED
    BY <1>2, <1>3

\* A request that was idle is sent.
LEMMA SendStep ==
    ASSUME NEW e, Taken(e), e.type \in {"step", "deadline"}, NEW r \in Requests, External!Send(e, r),
           outcome[r] = "idle", outcome'[r] = "waiting", StepsOnce',
           outcome' \in [Requests -> Answers \cup {"idle", "waiting", "timeout"}],
           \A q \in Requests : outcome'[q] = "idle" => outcome[q] = "idle",
           \A f \in Of(queue, {"deadline"}) : f # e => outcome'[f.id] = "waiting",
           \A q \in Requests : \A p \in Retry[q] : outcome'[p] # "idle" => outcome'[q] = "timeout",
           UNCHANGED <<serviceStatus, behaviors, admissions, applied, counts, answered>>
    PROVE  ServiceInv'
  <1>1. PICK list : Moved(e, {}, list) /\ Sends(list, r)
    BY SendMoves
  <1>2. \A i \in DOMAIN list : list[i].type \in {"deadline", "delivery"} /\ list[i].id = r
    BY <1>1 DEF Sends
  <1>3. /\ Of(queue', {"arrival", "complete"}) = Of(queue, {"arrival", "complete"})
        /\ Of(queue', {"complete"}) = Of(queue, {"complete"}) /\ Of(queue', Calling) = Of(queue, Calling)
    <2>1. \A T \in {{"arrival", "complete"}, {"complete"}, Calling} :
             e.type \notin T /\ (\A g \in {} : g.type \notin T) /\ (\A i \in DOMAIN list : list[i].type \notin T)
      BY <1>2 DEF Calling
    <2> QED
      BY <1>1, <2>1, OfSame, TakenFacts
  <1>4. BookTypes'
    BY <1>1, MoveFinite, TakenFacts DEF BookTypes
  <1>5. Booked(serviceStatus, queue, DOMAIN admissions, applied, counts, answered)'
    BY <1>3, BookedSame, TakenFacts
  <1>6. WorkTypes'
    BY <1>1, WorkTypesStep, TakenFacts DEF WorkTypes
  <1>7. SentOnce'
    <2>1. Alone(queue', {"deadline"})
      <3>1. \A f \in Of(queue, {"deadline"}) : f.id # r
        BY TakenFacts DEF SentOnce
      <3>2. \A i \in DOMAIN list : \A f \in queue : list[i].type \in {"deadline"} /\ f.type \in {"deadline"} /\ f.id = list[i].id
               => f = e \/ f \in {}
        BY <1>2, <3>1 DEF Of
      <3>3. \A i, j \in DOMAIN list : list[i].type \in {"deadline"} /\ list[j].type \in {"deadline"} /\ list[i].id = list[j].id => i = j
        BY <1>1 DEF Sends
      <3>4. Alone(queue, {"deadline"})
        BY TakenFacts DEF SentOnce
      <3> QED
        BY <1>1, <3>2, <3>3, <3>4, AloneMoved, TakenFacts
    <2>2. \A f \in Of(queue', {"deadline"}) : outcome'[f.id] = "waiting"
      BY <1>1, <1>2, OldOrNew, TakenFacts DEF Of
    <2> QED
      BY <2>1, <2>2 DEF SentOnce
  <1>8. OneToken'
    <2>0. OneToken
      BY TakenFacts
    <2>1. \A f \in Of(queue, Token) : f.id # r /\ f.id \in Requests
      BY TakenFacts DEF OneToken, Of, WorkTypes, Token
    <2>2. Alone(queue', Token)
      <3>2. \A i \in DOMAIN list : \A f \in queue : list[i].type \in Token /\ f.type \in Token /\ f.id = list[i].id
               => f = e \/ f \in {}
        BY <1>2, <2>1 DEF Of
      <3>3. \A i, j \in DOMAIN list : list[i].type \in Token /\ list[j].type \in Token /\ list[i].id = list[j].id => i = j
        BY <1>1 DEF Sends, Token
      <3>4. Alone(queue, Token)
        BY TakenFacts DEF OneToken
      <3> QED
        BY <1>1, <3>2, <3>3, <3>4, AloneMoved, TakenFacts
    <2>3. ASSUME NEW f \in Of(queue', Token) PROVE f \in Of(queue, Token) \/ (f.type = "delivery" /\ f.id = r)
      BY <1>1, <1>2, OldOrNew, TakenFacts, <2>3 DEF Of, Token
    <2>4. answered[r] = "none" /\ r \notin DOMAIN admissions /\ \A i \in DOMAIN applied : applied[i] # r
      BY <2>0 DEF OneToken
    <2>5. ASSUME NEW f \in Of(queue', Token)
          PROVE  outcome'[f.id] # "idle" /\ answered[f.id] = "none" /\ \A i \in DOMAIN applied : applied[i] # f.id
      <3>1. CASE f \in Of(queue, Token)
        BY <2>0, <2>1, <3>1 DEF OneToken
      <3>2. CASE f.type = "delivery" /\ f.id = r
        BY <2>4, <3>2
      <3> QED
        BY <2>3, <2>5, <3>1, <3>2
    <2>6. \A f \in Of(queue', {"delivery"}) : f.id \notin DOMAIN admissions
      <3> SUFFICES ASSUME NEW f \in Of(queue', {"delivery"}) PROVE f.id \notin DOMAIN admissions
        OBVIOUS
      <3>1. f \in Of(queue', Token) /\ f.type = "delivery"
        BY DEF Of, Token
      <3>2. f \in Of(queue, {"delivery"}) \/ f.id = r
        BY <2>3, <3>1 DEF Of
      <3> QED
        BY <2>0, <2>4, <3>2 DEF OneToken
    <2>7. \A q \in Requests : outcome'[q] = "idle" =>
             answered[q] = "none" /\ q \notin DOMAIN admissions /\ \A i \in DOMAIN applied : applied[i] # q
      BY <2>0 DEF OneToken
    <2> QED
      BY <2>2, <2>5, <2>6, <2>7 DEF OneToken
  <1> QED
    BY <1>4, <1>5, <1>6, <1>7, <1>8 DEF ServiceInv, InHand

LEMMA AskStep ==
    ASSUME NEW e, Taken(e), e.type = "step", External!AskFirst(e)
    PROVE  ServiceInv'
  <1> DEFINE r == script[e.id].with
  <1>1. script[e.id].does = "ask" /\ e.id \in DOMAIN script /\ External!Send(e, r) /\ outcome' = [outcome EXCEPT ![r] = "waiting"]
        /\ UNCHANGED <<serviceStatus, behaviors, admissions, applied, counts, answered>>
    BY TakenFacts DEF External!AskFirst
  <1>2. r \in Requests /\ \A q \in Requests : r \notin Retry[q]
    BY <1>1, AskedByStep, TakenFacts
  <1>3. outcome[r] = "idle"
    BY <1>1, TakenFacts DEF StepsOnce, Of, Taken
  <1>4. \A i \in DOMAIN script : i # e.id /\ script[i].does = "ask" => script[i].with # r
    BY <1>1, AskedByStep, TakenFacts
  <1> HIDE DEF r
  <1>5. /\ outcome'[r] = "waiting" /\ \A q : q # r => outcome'[q] = outcome[q]
        /\ outcome' \in [Requests -> Answers \cup {"idle", "waiting", "timeout"}]
    BY <1>1, <1>2, TakenFacts DEF BookTypes
  <1>6. StepsOnce'
    <2>1. PICK list : Moved(e, {}, list) /\ Sends(list, r)
      BY <1>1, <1>2, SendMoves
    <2>2. Of(Queued(e.time, seq, list), {"step"}) = {}
      BY <2>1 DEF Of, Queued, Sends
    <2>3. script' = script /\ Of(queue', {"step"}) = (Of(queue, {"step"}) \ {e}) \cup {}
      BY <2>1, <2>2, MoveFacts, OfMoved, TakenFacts
    <2>4. \A S : S = {} => StepsOnce'
      BY <1>4, <1>5, <2>3, StepTaken, TakenFacts DEF Taken
    <2> QED
      BY <2>4
  <1>7. \A f \in Of(queue, {"deadline"}) : f # e => outcome'[f.id] = "waiting"
    BY <1>5, TakenFacts DEF SentOnce
  <1>8. \A q \in Requests : \A p \in Retry[q] : outcome'[p] # "idle" => outcome'[q] = "timeout"
    BY <1>2, <1>3, <1>5, TakenFacts, ProviderAssumption DEF SentOnce
  <1>9. \A q \in Requests : outcome'[q] = "idle" => outcome[q] = "idle"
    BY <1>3, <1>5
  <1> QED
    BY <1>1, <1>2, <1>3, <1>5, <1>6, <1>7, <1>8, <1>9, SendStep

LEMMA DeadlineStep ==
    ASSUME NEW e, Taken(e), e.type = "deadline", External!Deadline(e)
    PROVE  ServiceInv'
  <1>1. /\ outcome' = [r \in Requests |-> IF r = e.id THEN "timeout" ELSE IF r \in Retry[e.id] THEN "waiting" ELSE outcome[r]]
        /\ UNCHANGED <<serviceStatus, behaviors, admissions, applied, counts, answered>>
    BY DEF External!Deadline
  <1>2. e.id \in Requests /\ outcome[e.id] = "waiting" /\ e \in Of(queue, {"deadline"})
    BY TakenFacts DEF SentOnce, Of, Taken
  <1>3. \A r \in Retry[e.id] : r \in Requests /\ outcome[r] = "idle" /\ r # e.id
    BY <1>2, TakenFacts, ProviderAssumption DEF SentOnce
  <1>4. outcome' \in [Requests -> Answers \cup {"idle", "waiting", "timeout"}]
    BY <1>1, TakenFacts DEF BookTypes
  <1>5. \A f \in Of(queue, {"deadline"}) : f # e => outcome'[f.id] = "waiting"
    BY <1>1, TakenFacts DEF SentOnce, Alone, Of, Taken, WorkTypes
  <1>6. \A q \in Requests : \A p \in Retry[q] : outcome'[p] # "idle" => outcome'[q] = "timeout"
    <2> SUFFICES ASSUME NEW q \in Requests, NEW p \in Retry[q], outcome'[p] # "idle", q # e.id PROVE outcome'[q] = "timeout"
      BY <1>1
    <2>1. p \in Requests /\ p \notin Retry[e.id]
      BY <1>2, ProviderAssumption
    <2>2. outcome[p] # "idle"
      BY <1>1, <1>2, <2>1
    <2>3. outcome[q] = "timeout"
      BY <2>2, TakenFacts DEF SentOnce
    <2>4. q \notin Retry[e.id]
      BY <1>3, <2>3
    <2> QED
      BY <1>1, <2>3, <2>4
  <1>7. \A q \in Requests : outcome'[q] = "idle" => outcome[q] = "idle"
    BY <1>1
  <1>8. \A r \in Requests : (\A q \in Requests : r \notin Retry[q]) /\ outcome[r] = "idle" => outcome'[r] = "idle"
    BY <1>1, <1>2
  <1>9. CASE External!Dispatched(e, {}, <<>>) /\ Retry[e.id] = {}
    <2>1. Moved(e, {}, <<>>)
      BY <1>9, NothingMore
    <2>2. Of(queue', {"step"}) = Of(queue, {"step"}) /\ script' = script
      BY <2>1, MoveFacts, OfSame, TakenFacts
    <2>3. StepsOnce'
      BY <1>8, <2>2, StepsKept, TakenFacts
    <2>4. SentOnce'
      <3>1. Of(queue', {"deadline"}) = Of(queue, {"deadline"}) \ {e}
        BY <2>1, OfMoved, TakenFacts DEF Of, Queued
      <3>2. Alone(queue', {"deadline"})
        BY <3>1, TakenFacts DEF SentOnce, Alone, Of
      <3> QED
        BY <1>5, <1>6, <3>1, <3>2 DEF SentOnce
    <2>5. \A q \in Requests : outcome'[q] = "idle" <=> outcome[q] = "idle"
      BY <1>1, <1>2, <1>9
    <2> QED
      BY <1>1, <1>4, <2>1, <2>3, <2>4, <2>5, QuietMove, TakenFacts DEF WorkTypes, Token, Calling
  <1>10. ASSUME NEW r \in Retry[e.id], External!Send(e, r) PROVE ServiceInv'
    <2>1. r \in Requests /\ outcome[r] = "idle" /\ outcome'[r] = "waiting"
      BY <1>1, <1>3, <1>10
    <2>2. PICK list : Moved(e, {}, list) /\ Sends(list, r)
      BY <1>10, <2>1, SendMoves
    <2>3. Of(queue', {"step"}) = Of(queue, {"step"}) /\ script' = script
      BY <2>2, MoveFacts, OfSame, TakenFacts DEF Sends
    <2>4. StepsOnce'
      BY <1>8, <2>3, StepsKept, TakenFacts
    <2> QED
      BY <1>1, <1>4, <1>5, <1>6, <1>7, <1>10, <2>1, <2>4, SendStep
  <1> QED
    BY <1>9, <1>10 DEF External!Deadline

LEMMA ResponseStep ==
    ASSUME NEW e, Taken(e), e.type = "response", External!Response(e)
    PROVE  ServiceInv'
  <1> DEFINE gone == {d \in queue : d.type = "deadline" /\ d.id = e.id}
  <1>1. /\ External!Dispatched(e, gone, <<>>)
        /\ outcome' = [outcome EXCEPT ![e.id] = IF @ = "waiting" THEN answered[e.id] ELSE @]
        /\ UNCHANGED <<serviceStatus, behaviors, admissions, applied, counts, answered>>
    BY DEF External!Response
  <1>2. Moved(e, gone, <<>>) /\ \A g \in gone : g.type = "deadline"
    BY <1>1 DEF Moved, Taken
  <1>3. Of(queue', {"deadline"}) = {f \in Of(queue, {"deadline"}) : f.id # e.id}
    <2>1. Of(queue', {"deadline"}) = (Of(queue, {"deadline"}) \ (gone \cup {e})) \cup Of(Queued(e.time, seq, <<>>), {"deadline"})
      BY <1>2, OfMoved, TakenFacts
    <2> QED
      BY <2>1 DEF Of, Queued
  <1> HIDE DEF gone
  <1>4. e.id \in Requests
    BY TakenFacts
  <1>5. /\ outcome' \in [Requests -> Answers \cup {"idle", "waiting", "timeout"}]
        /\ \A q \in Requests : outcome'[q] = "idle" <=> outcome[q] = "idle"
        /\ \A q \in Requests : outcome[q] = "timeout" => outcome'[q] = "timeout"
        /\ \A q \in Requests : q # e.id => outcome'[q] = outcome[q]
    BY <1>1, <1>4, TakenFacts DEF BookTypes, Answers
  <1>6. Of(queue', {"step"}) = Of(queue, {"step"}) /\ script' = script
    BY <1>2, MoveFacts, OfSame, TakenFacts
  <1>7. StepsOnce'
    BY <1>5, <1>6, StepsKept, TakenFacts
  <1>8. SentOnce'
    <2>1. Alone(queue', {"deadline"})
      BY <1>3, TakenFacts DEF SentOnce, Alone, Of
    <2>2. \A f \in Of(queue', {"deadline"}) : outcome'[f.id] = "waiting"
      <3>1. \A f \in Of(queue, {"deadline"}) : f.id \in Requests
        BY TakenFacts DEF Of, WorkTypes
      <3> QED
        BY <1>3, <1>5, <3>1, TakenFacts DEF SentOnce
    <2>3. \A q \in Requests : \A p \in Retry[q] : outcome'[p] # "idle" => outcome'[q] = "timeout"
      BY <1>5, TakenFacts, ProviderAssumption DEF SentOnce
    <2> QED
      BY <2>1, <2>2, <2>3 DEF SentOnce
  <1> QED
    BY <1>1, <1>2, <1>5, <1>7, <1>8, QuietMove, TakenFacts DEF WorkTypes, Token, Calling

\* A handler that neither takes nor sends a token.
LEMMA BookMove ==
    ASSUME NEW e, NEW list, Taken(e), Moved(e, {}, list), e.type \notin Token \cup {"step", "deadline"},
           \A i \in DOMAIN list : list[i].type \notin Token \cup {"step", "deadline"},
           UNCHANGED <<behaviors, admissions, applied, answered, outcome>>, counts' \in Tallies,
           Booked(serviceStatus, queue, DOMAIN admissions, applied, counts, answered)'
    PROVE  ServiceInv'
  <1>1. /\ Of(queue', Token) = Of(queue, Token) /\ Of(queue', {"delivery"}) = Of(queue, {"delivery"})
        /\ Of(queue', {"step"}) = Of(queue, {"step"}) /\ Of(queue', {"deadline"}) = Of(queue, {"deadline"})
    <2>1. \A T \in {Token, {"delivery"}, {"step"}, {"deadline"}} :
             e.type \notin T /\ (\A g \in {} : g.type \notin T) /\ (\A i \in DOMAIN list : list[i].type \notin T)
      BY DEF Token
    <2> QED
      BY <2>1, OfSame, TakenFacts
  <1>2. BookTypes'
    BY MoveFinite, TakenFacts DEF BookTypes
  <1>3. WorkTypes'
    BY WorkTypesStep, TakenFacts DEF WorkTypes
  <1>4. StepsOnce'
    BY <1>1, MoveFacts, StepsKept, TakenFacts
  <1>5. SentOnce'
    BY <1>1, SentKept, TakenFacts
  <1>6. OneToken'
    BY <1>1, TokensKept, TakenFacts
  <1> QED
    BY <1>2, <1>3, <1>4, <1>5, <1>6 DEF ServiceInv, InHand

NotApplied(r) == \A i \in DOMAIN applied : applied[i] # r

\* The token of a request moves on, or has come to its end.
LEMMA TokenStep ==
    ASSUME NEW e, NEW list, Taken(e), Moved(e, {}, list), e.type \in Token,
           \A i \in DOMAIN list : list[i].type \notin {"step", "deadline", "delivery"},
           \A i \in DOMAIN list : list[i].type \in Token => list[i].id = e.id,
           \A i, j \in DOMAIN list : list[i].type \in Token /\ list[j].type \in Token => i = j,
           \A i \in DOMAIN list : list[i].type \in Token => answered' = answered /\ applied' = applied,
           UNCHANGED <<behaviors, outcome>>, BookTypes',
           \A r \in Requests : r # e.id => /\ answered'[r] = answered[r] /\ (NotApplied(r) => NotApplied(r)')
                                          /\ (r \in DOMAIN admissions' => r \in DOMAIN admissions),
           \A r \in DOMAIN admissions' : r \in Requests /\ admissions'[r].behavior \in Behavior,
           Booked(serviceStatus, queue, DOMAIN admissions, applied, counts, answered)'
    PROVE  ServiceInv'
  <1>0. /\ e.id \in Requests /\ e \in Of(queue, Token) /\ OneToken /\ Alone(queue, Token)
        /\ answered[e.id] = "none" /\ NotApplied(e.id) /\ outcome[e.id] # "idle"
    BY TakenFacts DEF OneToken, Of, Token, Taken, NotApplied
  <1>1. Of(queue', {"step"}) = Of(queue, {"step"}) /\ Of(queue', {"deadline"}) = Of(queue, {"deadline"})
    <2>1. \A T \in {{"step"}, {"deadline"}} :
             e.type \notin T /\ (\A g \in {} : g.type \notin T) /\ (\A i \in DOMAIN list : list[i].type \notin T)
      BY DEF Token
    <2> QED
      BY <2>1, OfSame, TakenFacts
  <1>3. WorkTypes'
    BY WorkTypesStep, TakenFacts DEF WorkTypes
  <1>4. StepsOnce'
    BY <1>1, MoveFacts, StepsKept, TakenFacts
  <1>5. SentOnce'
    BY <1>1, SentKept, TakenFacts
  <1>6. Alone(queue', Token)
    <2>1. \A i \in DOMAIN list : \A f \in queue : list[i].type \in Token /\ f.type \in Token /\ f.id = list[i].id
             => f = e \/ f \in {}
      BY <1>0 DEF Alone, Of
    <2>2. \A i, j \in DOMAIN list : list[i].type \in Token /\ list[j].type \in Token /\ list[i].id = list[j].id => i = j
      OBVIOUS
    <2> QED
      BY <1>0, <2>1, <2>2, AloneMoved, TakenFacts
  <1>7. ASSUME NEW f \in Of(queue', Token)
        PROVE  \/ f \in Of(queue, Token) /\ f.id # e.id
               \/ f.id = e.id /\ f.type # "delivery" /\ answered' = answered /\ applied' = applied
    <2>1. f \in queue' /\ f.type \in Token
      BY <1>7 DEF Of
    <2>2. CASE f \in queue /\ f # e
      BY <1>0, <2>1, <2>2 DEF Of, Alone
    <2>3. CASE \E i \in DOMAIN list : f.type = list[i].type /\ f.id = list[i].id
      BY <2>1, <2>3
    <2> QED
      BY <2>1, <2>2, <2>3, OldOrNew, TakenFacts
  <1>8. ASSUME NEW f \in Of(queue', Token)
        PROVE  outcome'[f.id] # "idle" /\ answered'[f.id] = "none" /\ NotApplied(f.id)'
    <2>1. CASE f \in Of(queue, Token) /\ f.id # e.id
      <3>1. f.id \in Requests
        BY <2>1, TakenFacts DEF Of, WorkTypes, Token
      <3>2. outcome[f.id] # "idle" /\ answered[f.id] = "none" /\ NotApplied(f.id)
        BY <1>0, <2>1 DEF OneToken, NotApplied
      <3> QED
        BY <2>1, <3>1, <3>2
    <2>2. CASE f.id = e.id /\ answered' = answered /\ applied' = applied
      <3>1. NotApplied(f.id)'
        BY <1>0, <2>2 DEF NotApplied
      <3> QED
        BY <1>0, <2>2, <3>1
    <2> QED
      BY <1>7, <1>8, <2>1, <2>2
  <1>9. ASSUME NEW f \in Of(queue', {"delivery"}) PROVE f.id \notin DOMAIN admissions'
    <2>1. f \in Of(queue', Token) /\ f.type = "delivery"
      BY <1>9 DEF Of, Token
    <2>2. f \in Of(queue, {"delivery"}) /\ f.id # e.id
      BY <1>7, <2>1 DEF Of
    <2>3. f.id \notin DOMAIN admissions /\ f.id \in Requests
      BY <1>0, <2>2, TakenFacts DEF OneToken, WorkTypes, Of
    <2> QED
      BY <2>2, <2>3
  <1>10. ASSUME NEW r \in Requests, outcome'[r] = "idle"
         PROVE  answered'[r] = "none" /\ r \notin DOMAIN admissions' /\ NotApplied(r)'
    <2>1. r # e.id
      BY <1>0, <1>10
    <2>2. answered[r] = "none" /\ r \notin DOMAIN admissions /\ NotApplied(r)
      BY <1>0, <1>10 DEF OneToken, NotApplied
    <2> QED
      BY <2>1, <2>2
  <1>11. OneToken'
    BY <1>6, <1>8, <1>9, <1>10 DEF OneToken, NotApplied
  <1> QED
    BY <1>3, <1>4, <1>5, <1>11 DEF ServiceInv, InHand

\* A run that fails keeps the books that do not wait for anything.
LEMMA FailStep ==
    ASSUME NEW e, Taken(e), e.type \notin Calling, External!Fail(e)
    PROVE  ServiceInv'
  <1>1. External!Dispatched(e, {}, <<>>) /\ serviceStatus' = "FAILED"
        /\ UNCHANGED <<availability, behaviors, admissions, applied, counts, answered, outcome>>
    BY DEF External!Fail
  <1>2. Moved(e, {}, <<>>)
    BY <1>1, NothingMore
  <1>3. Of(queue', Calling) = Of(queue, Calling)
    BY <1>2, OfSame, TakenFacts
  <1>4. BookTypes'
    BY <1>1, <1>2, MoveFinite, TakenFacts DEF BookTypes
  <1>5. Booked(serviceStatus, queue, DOMAIN admissions, applied, counts, answered)'
    BY <1>1, <1>3, TakenFacts DEF Booked
  <1> QED
    BY <1>1, <1>4, <1>5 DEF ServiceInv

\* A leg whose event is no token, nor one of a step or a deadline.
LEMMA LegMoved ==
    ASSUME NEW e, Taken(e), NEW type \in EventKinds, type # "step", NEW r \in Requests,
           NEW leg \in External!Leg(type, r), External!Dispatched(e, {}, leg)
    PROVE  Moved(e, {}, leg) /\ \A i \in DOMAIN leg : leg[i].type = type
  <1>1. CASE leg = <<>>
    BY <1>1, NothingMore
  <1>2. CASE leg # <<>>
    <2>1. PICK d \in Legs : leg = <<External!Event(d, type, r)>>
      BY <1>2 DEF External!Leg
    <2>2. d \in Nat
      BY ProviderAssumption
    <2>3. Moved(e, {}, leg)
      BY <2>1, <2>2, OneMoved
    <2> QED
      BY <2>1, <2>3 DEF External!Event
  <1> QED
    BY <1>1, <1>2

LEMMA OneMore ==
    ASSUME NEW S, NEW T, NEW x, IsFiniteSet(S), T = S \cup {x}, x \notin S
    PROVE  IsFiniteSet(T) /\ Cardinality(T) = Cardinality(S) + 1 /\ Cardinality(S) \in Nat
  BY FS_AddElement, FS_CardinalityType

LEMMA OneLess ==
    ASSUME NEW S, NEW T, NEW x, IsFiniteSet(S), T = S \ {x}, x \in S
    PROVE  IsFiniteSet(T) /\ Cardinality(S) = Cardinality(T) + 1 /\ Cardinality(T) \in Nat
  BY FS_RemoveElement, FS_CardinalityType, FS_Subset

LEMMA RejectStep ==
    ASSUME NEW e, Taken(e), e.type = "delivery", External!Reject(e)
    PROVE  ServiceInv'
  <1> DEFINE r == e.id
             no == External!Refusal(r)
  <1>1. PICK leg \in External!Leg("response", r) : External!Dispatched(e, {}, leg)
    BY DEF External!Reject
  <1>2. /\ counts' = [counts EXCEPT !.rejected = @ + 1] /\ answered' = [answered EXCEPT ![r] = no]
        /\ UNCHANGED <<serviceStatus, behaviors, admissions, applied, outcome>> /\ no # "none"
    BY DEF External!Reject
  <1>3. r \in Requests /\ answered[r] = "none" /\ BookTypes
        /\ Booked(serviceStatus, queue, DOMAIN admissions, applied, counts, answered)
    BY TakenFacts DEF OneToken, Of, Token, Taken
  <1>4. no \in Answers \ {"none", "ok"}
    BY <1>2 DEF External!Refusal, Answers
  <1>5. Moved(e, {}, leg) /\ \A i \in DOMAIN leg : leg[i].type = "response"
    BY <1>1, <1>3, LegMoved DEF EventKinds
  <1>6. /\ counts' \in Tallies /\ counts'.rejected = counts.rejected + 1 /\ counts'.effect = counts.effect
        /\ counts'.admitted = counts.admitted /\ counts'.suppressed = counts.suppressed
        /\ counts'.callbacks = counts.callbacks /\ counts'.finished = counts.finished
    BY <1>2, <1>3 DEF BookTypes, Tallies
  <1> HIDE DEF no
  <1>7. answered' \in [Requests -> Answers] /\ answered'[r] = no /\ \A q \in Requests : q # r => answered'[q] = answered[q]
    BY <1>2, <1>3, <1>4 DEF BookTypes
  <1>8. BookTypes'
    BY <1>2, <1>3, <1>5, <1>6, <1>7, MoveFinite, TakenFacts DEF BookTypes
  <1>9. /\ Of(queue', {"arrival", "complete"}) = Of(queue, {"arrival", "complete"})
        /\ Of(queue', {"complete"}) = Of(queue, {"complete"}) /\ Of(queue', Calling) = Of(queue, Calling)
    <2>1. \A T \in {{"arrival", "complete"}, {"complete"}, Calling} :
             e.type \notin T /\ (\A g \in {} : g.type \notin T) /\ (\A i \in DOMAIN leg : leg[i].type \notin T)
      BY <1>5 DEF Calling
    <2> QED
      BY <1>5, <2>1, OfSame, TakenFacts
  <1>10. {q \in Requests : answered'[q] = "ok"} = {q \in Requests : answered[q] = "ok"}
    BY <1>3, <1>4, <1>7
  <1>11. Cardinality({q \in Requests : answered'[q] \notin {"none", "ok"}})
           = Cardinality({q \in Requests : answered[q] \notin {"none", "ok"}}) + 1
    <2> DEFINE S == {q \in Requests : answered[q] \notin {"none", "ok"}}
               R == {q \in Requests : answered'[q] \notin {"none", "ok"}}
    <2>1. R = S \cup {r} /\ r \notin S
      BY <1>3, <1>4, <1>7
    <2>2. IsFiniteSet(S)
      BY ProviderAssumption, FS_Subset
    <2> HIDE DEF S, R
    <2>3. Cardinality(R) = Cardinality(S) + 1
      BY <2>1, <2>2, OneMore
    <2> QED
      BY <2>3 DEF S, R
  <1>12. Booked(serviceStatus, queue, DOMAIN admissions, applied, counts, answered)'
    BY <1>2, <1>3, <1>6, <1>9, <1>10, <1>11 DEF Booked
  <1>13. \A q \in Requests : q # r /\ NotApplied(q) => NotApplied(q)'
    BY <1>2 DEF NotApplied
  <1>14. \A q \in DOMAIN admissions' : q \in Requests /\ admissions'[q].behavior \in Behavior
    BY <1>2, TakenFacts DEF WorkTypes
  <1>15. \A i \in DOMAIN leg : leg[i].type \notin {"step", "deadline", "delivery"} /\ leg[i].type \notin Token
    BY <1>5 DEF Token
  <1> QED
    BY <1>2, <1>5, <1>7, <1>8, <1>12, <1>13, <1>14, <1>15, TokenStep DEF Token

LEMMA OneQueued ==
    \A t, n, d, type, id : Queued(t, n, <<External!Event(d, type, id)>>) = {[time |-> t + d, seq |-> n + 1, type |-> type, id |-> id]}
  BY DEF Queued, External!Event

LEMMA AdmitStep ==
    ASSUME NEW e, Taken(e), e.type = "delivery", External!Admit(e)
    PROVE  ServiceInv'
  <1> DEFINE r == e.id
             list == <<External!Event(0, "arrival", r)>>
             g == [time |-> e.time + 0, seq |-> seq + 1, type |-> "arrival", id |-> r]
  <1>1. /\ External!Dispatched(e, {}, list) /\ External!Refusal(r) = "none"
        /\ UNCHANGED <<serviceStatus, behaviors, applied, counts, answered, outcome>>
    BY DEF External!Admit
  <1>2. /\ DOMAIN admissions' = DOMAIN admissions \cup {r}
        /\ admissions'[r].behavior = behaviors[OperationOf[r]]
        /\ \A q \in DOMAIN admissions : q # r => admissions'[q] = admissions[q]
    BY DEF External!Admit
  <1>3. r \in Requests /\ BookTypes /\ behaviors \in [Operations -> Behavior]
        /\ Booked(serviceStatus, queue, DOMAIN admissions, applied, counts, answered)
    BY TakenFacts DEF WorkTypes
  <1>4. OperationOf[r] \in Operations
    BY <1>1 DEF External!Refusal
  <1>5. \A q \in DOMAIN admissions' : q \in Requests /\ admissions'[q].behavior \in Behavior
    BY <1>2, <1>3, <1>4, TakenFacts DEF WorkTypes
  <1>6. Moved(e, {}, list)
    BY <1>1, <1>3, OneMoved DEF EventKinds
  <1>7. Queued(e.time, seq, list) = {g}
    BY OneQueued
  <1>8. DOMAIN list = {1} /\ list[1].type = "arrival" /\ list[1].id = r
    BY DEF External!Event
  <1> HIDE DEF list
  <1>9. Of(queue', {"complete"}) = Of(queue, {"complete"}) /\ Of(queue', Calling) = Of(queue, Calling)
    <2>1. \A T \in {{"complete"}, Calling} :
             e.type \notin T /\ (\A f \in {} : f.type \notin T) /\ (\A i \in DOMAIN list : list[i].type \notin T)
      BY <1>8 DEF Calling
    <2> QED
      BY <1>6, <2>1, OfSame, TakenFacts
  <1>10. {f.id : f \in Of(queue', {"arrival", "complete"})} = {f.id : f \in Of(queue, {"arrival", "complete"})} \cup {r}
    <2>1. queue' = (queue \ ({} \cup {e})) \cup {g}
      BY <1>6, <1>7, MoveFacts, TakenFacts
    <2>2. g.id = r /\ g.type = "arrival"
      OBVIOUS
    <2> HIDE DEF g
    <2>3. Of(queue', {"arrival", "complete"}) = Of(queue, {"arrival", "complete"}) \cup {g}
      BY <2>1, <2>2 DEF Of
    <2> QED
      BY <2>2, <2>3
  <1>11. Booked(serviceStatus, queue, DOMAIN admissions, applied, counts, answered)'
    BY <1>1, <1>2, <1>3, <1>9, <1>10 DEF Booked
  <1>12. BookTypes'
    BY <1>1, <1>3, <1>6, MoveFinite, TakenFacts DEF BookTypes
  <1>13. \A q \in Requests : q # r /\ NotApplied(q) => NotApplied(q)'
    BY <1>1 DEF NotApplied
  <1> QED
    BY <1>1, <1>2, <1>5, <1>6, <1>8, <1>11, <1>12, <1>13, TokenStep DEF Token

LEMMA ArrivalStep ==
    ASSUME NEW e, Taken(e), e.type = "arrival", External!Arrival(e)
    PROVE  ServiceInv'
  <1> DEFINE r == e.id
             d == External!Delay(admissions[r])
             list == <<External!Event(d, "complete", r)>>
             g == [time |-> e.time + d, seq |-> seq + 1, type |-> "complete", id |-> r]
  <1>0. CASE External!Fail(e)
    BY <1>0, FailStep DEF Calling
  <1>1. CASE ~External!Fail(e)
    <2>1. /\ External!Dispatched(e, {}, list) /\ counts' = [counts EXCEPT !.admitted = @ + 1]
          /\ UNCHANGED <<serviceStatus, behaviors, admissions, applied, answered, outcome>>
      BY <1>1 DEF External!Arrival
    <2>2. r \in Requests /\ BookTypes /\ Booked(serviceStatus, queue, DOMAIN admissions, applied, counts, answered)
      BY TakenFacts
    <2>3. r \in DOMAIN admissions /\ e \in Of(queue, {"arrival", "complete"})
      BY <2>2 DEF Booked, Taken, Of
    <2>4. d \in Nat
      <3>1. admissions[r].behavior \in Behavior
        BY <2>3, TakenFacts DEF WorkTypes
      <3>2. admissions[r].behavior.latency \in Nat /\ admissions[r].behavior.degradedExtraLatency \in Nat
        BY <3>1 DEF Behavior
      <3> QED
        BY <3>2 DEF External!Delay
    <2> HIDE DEF d
    <2>5. Moved(e, {}, list)
      BY <2>1, <2>2, <2>4, OneMoved DEF EventKinds
    <2>6. Queued(e.time, seq, list) = {g}
      BY OneQueued
    <2>7. DOMAIN list = {1} /\ list[1].type = "complete" /\ list[1].id = r
      BY DEF External!Event
    <2> HIDE DEF list
    <2>8. Of(queue', Calling) = Of(queue, Calling)
      BY <2>5, <2>7, OfSame, TakenFacts DEF Calling
    <2>9. /\ g.id = r /\ g.type = "complete" /\ g \notin queue
          /\ queue' = (queue \ ({} \cup {e})) \cup {g}
      <3>1. g \notin queue
        BY <2>5, <2>6, MoveFacts, TakenFacts
      <3> QED
        BY <2>5, <2>6, <3>1, MoveFacts, TakenFacts
    <2> HIDE DEF g
    <2>10. {f.id : f \in Of(queue', {"arrival", "complete"})} = {f.id : f \in Of(queue, {"arrival", "complete"})}
      <3>1. Of(queue', {"arrival", "complete"}) = (Of(queue, {"arrival", "complete"}) \ {e}) \cup {g}
        BY <2>9 DEF Of
      <3> QED
        BY <2>3, <2>9, <3>1
    <2>11. Cardinality(Of(queue', {"complete"})) = Cardinality(Of(queue, {"complete"})) + 1
           /\ Cardinality(Of(queue, {"complete"})) \in Nat
      <3>1. Of(queue', {"complete"}) = Of(queue, {"complete"}) \cup {g} /\ g \notin Of(queue, {"complete"})
        BY <2>9 DEF Of
      <3>2. IsFiniteSet(Of(queue, {"complete"}))
        BY <2>2, FS_Subset DEF Of, BookTypes
      <3> QED
        BY <3>1, <3>2, OneMore
    <2>12. /\ counts' \in Tallies /\ counts'.rejected = counts.rejected /\ counts'.effect = counts.effect
           /\ counts'.admitted = counts.admitted + 1 /\ counts'.suppressed = counts.suppressed
           /\ counts'.callbacks = counts.callbacks /\ counts'.finished = counts.finished
           /\ counts.effect \in Nat
      BY <2>1, <2>2 DEF BookTypes, Tallies
    <2>13. Booked(serviceStatus, queue, DOMAIN admissions, applied, counts, answered)'
      <3>1. serviceStatus = "RUNNING" => counts.admitted = counts.effect + Cardinality(Of(queue, {"complete"}))
        BY <2>2 DEF Booked
      <3>2. serviceStatus' = "RUNNING" => counts'.admitted = counts'.effect + Cardinality(Of(queue', {"complete"}))
        BY <2>1, <2>11, <2>12, <3>1
      <3> QED
        BY <2>1, <2>2, <2>8, <2>10, <2>12, <3>2 DEF Booked
    <2>14. BookTypes'
      BY <2>1, <2>2, <2>5, <2>12, MoveFinite, TakenFacts DEF BookTypes
    <2>15. \A q \in Requests : q # r /\ NotApplied(q) => NotApplied(q)'
      BY <2>1 DEF NotApplied
    <2>16. \A q \in DOMAIN admissions' : q \in Requests /\ admissions'[q].behavior \in Behavior
      BY <2>1, TakenFacts DEF WorkTypes
    <2> QED
      BY <2>1, <2>5, <2>7, <2>13, <2>14, <2>15, <2>16, TokenStep DEF Token
  <1> QED
    BY <1>0, <1>1

LEMMA CallbackStep ==
    ASSUME NEW e, Taken(e), e.type = "callback", External!Callback(e)
    PROVE  ServiceInv'
  <1>1. PICK d \in Nat, type \in {"callbackReply", "callbackTimeout"} :
           External!Dispatched(e, {}, <<External!Event(d, type, e.id)>>)
    BY ProviderAssumption DEF External!Callback
  <1> DEFINE list == <<External!Event(d, type, e.id)>>
             g == [time |-> e.time + d, seq |-> seq + 1, type |-> type, id |-> e.id]
  <1>2. UNCHANGED <<serviceStatus, behaviors, admissions, applied, counts, answered, outcome>>
    BY DEF External!Callback
  <1>3. BookTypes /\ e.id \in Requests /\ Booked(serviceStatus, queue, DOMAIN admissions, applied, counts, answered)
    BY TakenFacts
  <1>4. Moved(e, {}, list)
    BY <1>1, <1>3, OneMoved DEF EventKinds
  <1>5. Queued(e.time, seq, list) = {g}
    BY OneQueued
  <1>6. DOMAIN list = {1} /\ list[1].type = type
    BY DEF External!Event
  <1> HIDE DEF list
  <1>7. /\ g.type = type /\ g \notin queue /\ queue' = (queue \ ({} \cup {e})) \cup {g}
    <2>1. g \notin queue
      BY <1>4, <1>5, MoveFacts, TakenFacts
    <2> QED
      BY <1>4, <1>5, <2>1, MoveFacts, TakenFacts
  <1> HIDE DEF g
  <1>8. /\ Of(queue', {"arrival", "complete"}) = Of(queue, {"arrival", "complete"})
        /\ Of(queue', {"complete"}) = Of(queue, {"complete"})
    BY <1>7 DEF Of
  <1>9. Cardinality(Of(queue', Calling)) = Cardinality(Of(queue, Calling))
    <2> DEFINE S == Of(queue, Calling) \ {e}
    <2>1. Of(queue', Calling) = S \cup {g} /\ g \notin S /\ Of(queue, Calling) = S \cup {e} /\ e \notin S
      BY <1>7 DEF Of, Calling, Taken
    <2>2. IsFiniteSet(S)
      BY <1>3, FS_Subset DEF Of, BookTypes
    <2> HIDE DEF S
    <2>3. Cardinality(Of(queue', Calling)) = Cardinality(S) + 1
      BY <2>1, <2>2, OneMore
    <2>4. Cardinality(Of(queue, Calling)) = Cardinality(S) + 1
      BY <2>1, <2>2, OneMore
    <2> QED
      BY <2>3, <2>4
  <1>10. Booked(serviceStatus, queue, DOMAIN admissions, applied, counts, answered)'
    BY <1>2, <1>3, <1>8, <1>9 DEF Booked
  <1>11. counts' \in Tallies
    BY <1>2, <1>3 DEF BookTypes
  <1> QED
    BY <1>2, <1>4, <1>6, <1>10, <1>11, BookMove DEF Token

\* The counters d are c after a callback is over, and after an effect with n callbacks.
Finishes(c, d) ==
    /\ d \in Tallies /\ d.rejected = c.rejected /\ d.effect = c.effect /\ d.admitted = c.admitted
    /\ d.suppressed = c.suppressed /\ d.callbacks = c.callbacks /\ d.finished = c.finished + 1 /\ c.finished \in Nat

Effects(c, d, n, s) ==
    /\ d \in Tallies /\ d.rejected = c.rejected /\ d.effect = c.effect + 1 /\ d.admitted = c.admitted
    /\ d.suppressed = c.suppressed + s /\ d.callbacks = c.callbacks + n /\ d.finished = c.finished
    /\ c.effect \in Nat /\ c.suppressed \in Nat /\ c.callbacks \in Nat /\ c.finished \in Nat /\ c.admitted \in Nat

LEMMA FinishTally ==
    ASSUME NEW c \in Tallies, NEW n \in Nat, NEW d, d = [c EXCEPT !.callbackTimeouts = @ + n, !.finished = @ + 1]
    PROVE  Finishes(c, d)
  <1>1. d = [c EXCEPT !.callbackTimeouts = c.callbackTimeouts + n, !.finished = c.finished + 1]
    BY DEF Tallies
  <1>2. c.callbackTimeouts + n \in Nat /\ c.finished + 1 \in Nat /\ c.finished \in Nat
    BY DEF Tallies
  <1> QED
    BY <1>1, <1>2 DEF Tallies, Finishes

LEMMA EffectTally ==
    ASSUME NEW c \in Tallies, NEW n \in Nat, NEW s \in Nat,
           NEW d, d = [c EXCEPT !.effect = @ + 1, !.callbacks = @ + n, !.suppressed = @ + s]
    PROVE  Effects(c, d, n, s)
  <1>1. d = [c EXCEPT !.effect = c.effect + 1, !.callbacks = c.callbacks + n, !.suppressed = c.suppressed + s]
    BY DEF Tallies
  <1>2. /\ c.effect + 1 \in Nat /\ c.callbacks + n \in Nat /\ c.suppressed + s \in Nat
        /\ c.effect \in Nat /\ c.suppressed \in Nat /\ c.callbacks \in Nat /\ c.finished \in Nat /\ c.admitted \in Nat
    BY DEF Tallies
  <1> QED
    BY <1>1, <1>2 DEF Tallies, Effects

LEMMA CallbackOverStep ==
    ASSUME NEW e, Taken(e), e.type \in {"callbackReply", "callbackTimeout"}, External!FinishCallback(e)
    PROVE  ServiceInv'
  <1>1. /\ External!Dispatched(e, {}, <<>>) /\ UNCHANGED <<serviceStatus, behaviors, admissions, applied, answered, outcome>>
        /\ counts' = [counts EXCEPT !.callbackTimeouts = @ + IF e.type = "callbackTimeout" THEN 1 ELSE 0, !.finished = @ + 1]
    BY DEF External!FinishCallback
  <1>2. BookTypes /\ Booked(serviceStatus, queue, DOMAIN admissions, applied, counts, answered)
    BY TakenFacts
  <1>3. Moved(e, {}, <<>>)
    BY <1>1, NothingMore
  <1>4. queue' = queue \ {e}
    BY <1>3, MoveFacts, TakenFacts DEF Queued
  <1>5. /\ Of(queue', {"arrival", "complete"}) = Of(queue, {"arrival", "complete"})
        /\ Of(queue', {"complete"}) = Of(queue, {"complete"})
    BY <1>4 DEF Of
  <1>6. Cardinality(Of(queue, Calling)) = Cardinality(Of(queue', Calling)) + 1 /\ Cardinality(Of(queue', Calling)) \in Nat
    <2>1. Of(queue', Calling) = Of(queue, Calling) \ {e} /\ e \in Of(queue, Calling)
      BY <1>4 DEF Of, Calling, Taken
    <2>2. IsFiniteSet(Of(queue, Calling))
      BY <1>2, FS_Subset DEF Of, BookTypes
    <2> QED
      BY <2>1, <2>2, OneLess
  <1>7. /\ counts' \in Tallies /\ counts'.rejected = counts.rejected /\ counts'.effect = counts.effect
        /\ counts'.admitted = counts.admitted /\ counts'.suppressed = counts.suppressed
        /\ counts'.callbacks = counts.callbacks /\ counts'.finished = counts.finished + 1 /\ counts.finished \in Nat
    <2> DEFINE n == IF e.type = "callbackTimeout" THEN 1 ELSE 0
    <2>1. n \in Nat /\ counts' = [counts EXCEPT !.callbackTimeouts = @ + n, !.finished = @ + 1]
      BY <1>1
    <2>2. counts \in Tallies
      BY <1>2 DEF BookTypes
    <2> HIDE DEF n
    <2>3. \A d : d = [counts EXCEPT !.callbackTimeouts = @ + n, !.finished = @ + 1] => Finishes(counts, d)
      BY <2>1, <2>2, FinishTally
    <2> QED
      BY <2>1, <2>3 DEF Finishes
  <1>8. counts'.callbacks = counts'.finished + Cardinality(Of(queue', Calling))
    BY <1>2, <1>6, <1>7 DEF Booked
  <1>9. Booked(serviceStatus, queue, DOMAIN admissions, applied, counts, answered)'
    BY <1>1, <1>2, <1>5, <1>7, <1>8 DEF Booked
  <1> QED
    BY <1>1, <1>3, <1>7, <1>9, BookMove DEF Token

\* The callbacks of a completion, and the leg of its reply if there is one.
AfterEffect(events, leg, n, r) ==
    /\ events \in Seq(Item) /\ Len(events) = n /\ events \o leg \in Seq(Item)
    /\ \A i \in DOMAIN events : (events \o leg)[i] = events[i] /\ events[i].type = "callback" /\ i \in DOMAIN (events \o leg)
    /\ \A i \in DOMAIN (events \o leg) : /\ (events \o leg)[i].type \in {"callback", "response"} /\ (events \o leg)[i].id = r
                                         /\ (events \o leg)[i].type = "callback" => i \in DOMAIN events

LEMMA Followed ==
    ASSUME NEW delays \in Seq(Nat), NEW r \in Requests, NEW leg \in {<<>>} \cup External!Leg("response", r), NEW events,
           events = [i \in DOMAIN delays |-> External!Event(delays[i], "callback", r)]
    PROVE  AfterEffect(events, leg, Len(delays), r)
  <1>1. DOMAIN delays = 1..Len(delays) /\ Len(delays) \in Nat
    OBVIOUS
  <1>2. \A i \in DOMAIN delays : delays[i] \in Nat
    OBVIOUS
  <1>3. \A i \in DOMAIN delays : /\ events[i] \in Item /\ events[i].type = "callback" /\ events[i].id = r
    BY <1>2 DEF External!Event, Item, EventKinds
  <1>4. events \in Seq(Item) /\ Len(events) = Len(delays)
    <2>1. events \in [1..Len(delays) -> Item]
      BY <1>1, <1>3
    <2> QED
      BY <1>1, <2>1
  <1>5. leg \in Seq(Item) /\ \A i \in 1..Len(leg) : leg[i].type = "response" /\ leg[i].id = r
    <2>1. CASE leg = <<>>
      BY <2>1
    <2>2. CASE leg # <<>>
      <3>1. PICK d \in Legs : leg = <<External!Event(d, "response", r)>>
        BY <2>2 DEF External!Leg
      <3>2. d \in Nat
        BY ProviderAssumption
      <3>3. External!Event(d, "response", r) \in Item
        BY <3>2 DEF External!Event, Item, EventKinds
      <3>4. External!Event(d, "response", r).type = "response" /\ External!Event(d, "response", r).id = r
        BY DEF External!Event
      <3>5. \A x \in Item : <<x>> \in Seq(Item) /\ Len(<<x>>) = 1 /\ <<x>>[1] = x
        OBVIOUS
      <3> QED
        BY <3>1, <3>3, <3>4, <3>5
    <2> QED
      BY <2>1, <2>2
  <1>6. events \o leg \in Seq(Item) /\ Len(events \o leg) = Len(events) + Len(leg) /\ Len(leg) \in Nat
    BY <1>4, <1>5
  <1>7. \A i \in 1..(Len(events) + Len(leg)) :
           (events \o leg)[i] = IF i <= Len(events) THEN events[i] ELSE leg[i - Len(events)]
    BY <1>4, <1>5
  <1>8. DOMAIN (events \o leg) = 1..(Len(events) + Len(leg)) /\ DOMAIN events = 1..Len(events)
    BY <1>4, <1>6
  <1>9. ASSUME NEW i \in DOMAIN (events \o leg)
        PROVE  /\ (events \o leg)[i].type \in {"callback", "response"} /\ (events \o leg)[i].id = r
               /\ (events \o leg)[i].type = "callback" => i \in DOMAIN events
    <2>1. CASE i <= Len(events)
      BY <1>1, <1>3, <1>4, <1>7, <1>8, <1>9, <2>1
    <2>2. CASE i > Len(events)
      <3>1. i - Len(events) \in 1..Len(leg)
        BY <1>1, <1>4, <1>6, <1>8, <1>9, <2>2
      <3>2. (events \o leg)[i] = leg[i - Len(events)]
        BY <1>1, <1>4, <1>7, <1>8, <1>9, <2>2
      <3> QED
        BY <1>5, <3>1, <3>2
    <2> QED
      BY <1>1, <1>4, <1>8, <1>9, <2>1, <2>2
  <1>10. ASSUME NEW i \in DOMAIN events PROVE (events \o leg)[i] = events[i] /\ i \in DOMAIN (events \o leg)
    BY <1>1, <1>4, <1>6, <1>7, <1>8, <1>10
  <1> QED
    BY <1>1, <1>3, <1>4, <1>6, <1>9, <1>10 DEF AfterEffect

LEMMA CompleteStep ==
    ASSUME NEW e, Taken(e), e.type = "complete", External!Complete(e)
    PROVE  ServiceInv'
  <1> DEFINE r == e.id
             drops == External!Drops(r)
  <1>0. CASE External!Fail(e)
    BY <1>0, FailStep DEF Calling
  <1>1. CASE ~External!Fail(e)
    <2>1. PICK delays \in Callbacks :
             /\ applied' = Append(applied, r) /\ admissions' = External!Released(r)
             /\ counts' = [counts EXCEPT !.effect = @ + 1, !.callbacks = @ + Len(delays),
                                         !.suppressed = @ + IF drops THEN 1 ELSE 0]
             /\ \E leg \in IF drops THEN {<<>>} ELSE External!Leg("response", r) :
                   External!Dispatched(e, {}, [i \in DOMAIN delays |-> External!Event(delays[i], "callback", r)] \o leg)
             /\ answered' = IF drops THEN answered ELSE [answered EXCEPT ![r] = "ok"]
             /\ UNCHANGED <<serviceStatus, availability, behaviors, outcome>>
      BY <1>1 DEF External!Complete
    <2> DEFINE events == [i \in DOMAIN delays |-> External!Event(delays[i], "callback", r)]
    <2>2. PICK leg \in {<<>>} \cup External!Leg("response", r) : External!Dispatched(e, {}, events \o leg)
      BY <2>1 DEF External!Leg
    <2>3. /\ r \in Requests /\ BookTypes /\ Booked(serviceStatus, queue, DOMAIN admissions, applied, counts, answered)
          /\ answered[r] = "none" /\ e \in Of(queue, {"complete"}) /\ Alone(queue, Token)
      BY TakenFacts DEF OneToken, Of, Token, Taken
    <2>4. delays \in Seq(Nat)
      BY ProviderAssumption
    <2> DEFINE list == events \o leg
    <2>5. /\ events \in Seq(Item) /\ Len(events) = Len(delays) /\ list \in Seq(Item)
          /\ \A i \in DOMAIN events : list[i] = events[i] /\ events[i].type = "callback" /\ i \in DOMAIN list
          /\ \A i \in DOMAIN list : /\ list[i].type \in {"callback", "response"} /\ list[i].id = r
                                    /\ list[i].type = "callback" => i \in DOMAIN events
      <3>1. \A es : es = events => AfterEffect(es, leg, Len(delays), r)
        BY <2>3, <2>4, Followed
      <3> HIDE DEF events
      <3>2. AfterEffect(events, leg, Len(delays), r)
        BY <3>1
      <3> QED
        BY <3>2 DEF AfterEffect
    <2>6. External!Dispatched(e, {}, list)
      BY <2>2
    <2>6a. \A i \in DOMAIN events : events[i].type = "callback"
      BY <2>5
    <2> HIDE DEF list, events
    <2>7. Moved(e, {}, list)
      <3>1. \A i \in DOMAIN list : Fits(list[i])
        BY <2>3, <2>5 DEF Fits
      <3> QED
        BY <2>5, <2>6, <3>1 DEF Moved, Taken
    <2>8. /\ Of(queue', {"arrival", "complete"}) = Of(queue, {"arrival", "complete"}) \ {e}
          /\ Of(queue', {"complete"}) = Of(queue, {"complete"}) \ {e}
      <3>1. \A f \in Queued(e.time, seq, list) : f.type \in {"callback", "response"}
        BY <2>5 DEF Queued
      <3>2. queue' = (queue \ ({} \cup {e})) \cup Queued(e.time, seq, list)
        BY <2>7, MoveFacts, TakenFacts
      <3> QED
        BY <3>1, <3>2 DEF Of
    <2>9. Cardinality(Of(queue', Calling)) = Cardinality(Of(queue, Calling)) + Len(delays)
          /\ Cardinality(Of(queue, Calling)) \in Nat /\ Len(delays) \in Nat
      <3> DEFINE S == Of(queue, Calling)
                 N == Queued(e.time, seq, events)
      <3>1. e.time \in Nat /\ seq \in Nat
        BY <2>7, TakenFacts DEF Moved, WorkTypes
      <3>2. IsFiniteSet(N) /\ Cardinality(N) = Len(delays)
        BY <2>5, <3>1, QueuedCount
      <3>3. Of(Queued(e.time, seq, list), Calling) = N
        <4>1. \A f \in N : f \in Queued(e.time, seq, list) /\ f.type = "callback"
          BY <2>5 DEF Queued
        <4>2. \A f \in Queued(e.time, seq, list) : f.type \in Calling => f \in N
          BY <2>5 DEF Queued, Calling
        <4> QED
          BY <4>1, <4>2 DEF Of, Calling
      <3>4. Of(queue', Calling) = S \cup N
        <4>1. Of(queue', Calling) = (S \ ({} \cup {e})) \cup Of(Queued(e.time, seq, list), Calling)
          BY <2>7, OfMoved, TakenFacts
        <4>2. e \notin S
          BY DEF Of, Calling
        <4> QED
          BY <3>3, <4>1, <4>2
      <3>5. S \cap N = {}
        <4>1. \A f \in Queued(e.time, seq, list) : f \notin queue
          BY <2>7, MoveFacts, TakenFacts
        <4>2. \A f \in N : f \in Queued(e.time, seq, list)
          BY <2>5 DEF Queued
        <4> QED
          BY <4>1, <4>2 DEF Of
      <3>6. IsFiniteSet(S) /\ Cardinality(S) \in Nat
        BY <2>3, FS_Subset, FS_CardinalityType DEF Of, BookTypes
      <3> HIDE DEF S, N
      <3>7. Cardinality(S \cup N) = Cardinality(S) + Len(delays)
        <4>1. Cardinality(S \cup N) = Cardinality(S) + Cardinality(N) - Cardinality(S \cap N)
          BY <3>2, <3>6, FS_Union
        <4>2. Cardinality(S \cap N) = 0
          BY <3>5, FS_EmptySet
        <4>3. Len(delays) \in Nat
          BY <2>4
        <4> QED
          BY <3>2, <3>6, <4>1, <4>2, <4>3
      <3>8. Len(delays) \in Nat
        BY <2>4
      <3> QED
        BY <3>4, <3>6, <3>7, <3>8 DEF S
    <2>10. {f.id : f \in Of(queue, {"arrival", "complete"}) \ {e}} = {f.id : f \in Of(queue, {"arrival", "complete"})} \ {r}
      <3>1. \A f \in Of(queue, {"arrival", "complete"}) : f.id = r => f = e
        BY <2>3 DEF Of, Token, Alone
      <3> QED
        BY <3>1
    <2>11. DOMAIN admissions' = DOMAIN admissions \ {r} /\ \A q \in DOMAIN admissions' : admissions'[q] = admissions[q]
      BY <2>1 DEF External!Released
    <2> DEFINE s == IF drops THEN 1 ELSE 0
    <2>12. /\ counts' \in Tallies /\ counts'.rejected = counts.rejected /\ counts'.effect = counts.effect + 1
           /\ counts'.admitted = counts.admitted /\ counts'.suppressed = counts.suppressed + s
           /\ counts'.callbacks = counts.callbacks + Len(delays) /\ counts'.finished = counts.finished
           /\ counts.effect \in Nat /\ counts.suppressed \in Nat /\ counts.callbacks \in Nat /\ counts.finished \in Nat
           /\ counts.admitted \in Nat /\ s \in Nat
      <3>1. s \in Nat /\ counts \in Tallies /\ Len(delays) \in Nat
        BY <2>3, <2>9 DEF BookTypes
      <3>2. counts' = [counts EXCEPT !.effect = @ + 1, !.callbacks = @ + Len(delays), !.suppressed = @ + s]
        BY <2>1
      <3> HIDE DEF s
      <3>3. \A d : d = [counts EXCEPT !.effect = @ + 1, !.callbacks = @ + Len(delays), !.suppressed = @ + s]
               => Effects(counts, d, Len(delays), s)
        BY <3>1, EffectTally
      <3> QED
        BY <3>1, <3>2, <3>3 DEF Effects
    <2>13. applied' \in Seq(Requests) /\ Len(applied') = Len(applied) + 1
           /\ \A q \in Requests : q # r /\ NotApplied(q) => NotApplied(q)'
      <3>1. applied \in Seq(Requests) /\ applied' = Append(applied, r)
        BY <2>1, <2>3 DEF BookTypes
      <3>2. /\ applied' \in Seq(Requests) /\ Len(applied') = Len(applied) + 1 /\ Len(applied) \in Nat
            /\ DOMAIN applied' = 1..(Len(applied) + 1) /\ DOMAIN applied = 1..Len(applied)
            /\ \A i \in 1..(Len(applied) + 1) : applied'[i] = IF i <= Len(applied) THEN applied[i] ELSE r
        BY <2>3, <3>1
      <3> QED
        BY <3>2 DEF NotApplied
    <2>14. answered' \in [Requests -> Answers] /\ answered'[r] = (IF drops THEN "none" ELSE "ok")
           /\ \A q \in Requests : q # r => answered'[q] = answered[q]
      <3>1. CASE drops
        BY <2>1, <2>3, <3>1 DEF BookTypes
      <3>2. CASE ~drops
        BY <2>1, <2>3, <3>2 DEF BookTypes, Answers
      <3> QED
        BY <3>1, <3>2
    <2>15. {q \in Requests : answered'[q] \notin {"none", "ok"}} = {q \in Requests : answered[q] \notin {"none", "ok"}}
      BY <2>3, <2>14
    <2>16. Cardinality({q \in Requests : answered[q] = "ok"}) + 1 = Cardinality({q \in Requests : answered'[q] = "ok"}) + s
           /\ Cardinality({q \in Requests : answered[q] = "ok"}) \in Nat /\ Cardinality({q \in Requests : answered'[q] = "ok"}) \in Nat
      <3> DEFINE A == {q \in Requests : answered[q] = "ok"}
                 B == {q \in Requests : answered'[q] = "ok"}
      <3>1. IsFiniteSet(A) /\ Cardinality(A) \in Nat
        BY ProviderAssumption, FS_Subset, FS_CardinalityType
      <3>2. CASE drops
        <4>1. A = B
          BY <2>3, <2>14, <3>2
        <4> QED
          BY <3>1, <3>2, <4>1
      <3>3. CASE ~drops
        <4>1. B = A \cup {r} /\ r \notin A
          BY <2>3, <2>14, <3>3
        <4> HIDE DEF A, B
        <4>2. Cardinality(B) = Cardinality(A) + 1
          BY <3>1, <4>1, OneMore
        <4> QED
          BY <3>1, <3>3, <4>2 DEF A, B
      <3> QED
        BY <3>2, <3>3
    <2> HIDE DEF s
    <2>17. Cardinality(Of(queue, {"complete"})) = Cardinality(Of(queue', {"complete"})) + 1 /\ Cardinality(Of(queue', {"complete"})) \in Nat
      <3>1. IsFiniteSet(Of(queue, {"complete"}))
        BY <2>3, FS_Subset DEF Of, BookTypes
      <3> QED
        BY <2>3, <2>8, <3>1, OneLess
    <2>18. Booked(serviceStatus, queue, DOMAIN admissions, applied, counts, answered)'
      <3>1. serviceStatus = "RUNNING" => DOMAIN admissions' = {f.id : f \in Of(queue', {"arrival", "complete"})}
        BY <2>3, <2>8, <2>10, <2>11 DEF Booked
      <3>2. serviceStatus = "RUNNING" => counts'.admitted = counts'.effect + Cardinality(Of(queue', {"complete"}))
        <4>1. counts.admitted = counts.effect + Cardinality(Of(queue, {"complete"}))
          BY <2>3 DEF Booked, Taken
        <4>2. counts'.admitted = counts'.effect + Cardinality(Of(queue', {"complete"}))
          <5> DEFINE m == Cardinality(Of(queue, {"complete"}))
                     n == Cardinality(Of(queue', {"complete"}))
          <5>1. m = n + 1 /\ n \in Nat /\ counts.admitted = counts.effect + m
            BY <2>17, <4>1
          <5> HIDE DEF m, n
          <5>2. counts'.admitted = counts'.effect + n
            BY <2>12, <5>1
          <5> QED
            BY <5>2 DEF n
        <4> QED
          BY <4>2
      <3>3. counts'.effect = Len(applied')
        BY <2>3, <2>12, <2>13 DEF Booked
      <3>4. counts'.effect = counts'.suppressed + Cardinality({q \in Requests : answered'[q] = "ok"})
        <4>1. counts.effect = counts.suppressed + Cardinality({q \in Requests : answered[q] = "ok"})
          BY <2>3 DEF Booked
        <4> QED
          BY <2>12, <2>16, <4>1
      <3>5. counts'.rejected = Cardinality({q \in Requests : answered'[q] \notin {"none", "ok"}})
        BY <2>3, <2>12, <2>15 DEF Booked
      <3>6. counts'.callbacks = counts'.finished + Cardinality(Of(queue', Calling))
        <4>1. counts.callbacks = counts.finished + Cardinality(Of(queue, Calling))
          BY <2>3 DEF Booked
        <4> QED
          BY <2>9, <2>12, <4>1
      <3> QED
        BY <2>1, <3>1, <3>2, <3>3, <3>4, <3>5, <3>6 DEF Booked
    <2>19. BookTypes'
      BY <2>1, <2>3, <2>7, <2>12, <2>13, <2>14, MoveFinite, TakenFacts DEF BookTypes
    <2>20. \A q \in DOMAIN admissions' : q \in Requests /\ admissions'[q].behavior \in Behavior
      BY <2>11, TakenFacts DEF WorkTypes
    <2>21. \A i \in DOMAIN list : list[i].type \notin {"step", "deadline", "delivery"} /\ list[i].type \notin Token
      BY <2>5 DEF Token
    <2> QED
      BY <2>1, <2>7, <2>11, <2>13, <2>14, <2>18, <2>19, <2>20, <2>21, TokenStep DEF Token
  <1> QED
    BY <1>0, <1>1

LEMMA ServiceInit ==
    ASSUME External!Init
    PROVE  ServiceInv
  <1> DEFINE first == {j \in DOMAIN script : j = 1 \/ script[j - 1].does # "relay"}
             at == [i \in first |-> [time |-> script[i].time, seq |-> i, type |-> "step", id |-> i]]
  <1>1. /\ serviceTime = 0 /\ script \in Scripts /\ seq = Len(script) /\ serviceStatus = "RUNNING"
        /\ queue = {[time |-> script[i].time, seq |-> i, type |-> "step", id |-> i] : i \in first}
        /\ behaviors = [o \in Operations |-> [latency |-> 0, degradedExtraLatency |-> 0, dropResponse |-> FALSE]]
        /\ admissions = <<>> /\ applied = <<>> /\ answered = [r \in Requests |-> "none"] /\ outcome = [r \in Requests |-> "idle"]
        /\ counts = [effect |-> 0, admitted |-> 0, rejected |-> 0, suppressed |-> 0, callbacks |-> 0, callbackTimeouts |-> 0, finished |-> 0]
    BY DEF External!Init
  <1>2. Len(script) \in Nat /\ DOMAIN script = 1..Len(script)
    BY <1>1, ProviderAssumption
  <1>3. DOMAIN admissions = {} /\ DOMAIN applied = {}
    BY <1>1
  <1>4. IsFiniteSet(queue)
    <2>1. IsFiniteSet(first)
      <3>1. IsFiniteSet(1..Len(script))
        BY <1>2, FS_Interval
      <3>2. first \subseteq 1..Len(script)
        BY <1>2
      <3> HIDE DEF first
      <3> QED
        BY <3>1, <3>2, FS_Subset
    <2>2. at \in [first -> queue]
      BY <1>1
    <2>3. \A q \in queue : \E i \in first : at[i] = q
      BY <1>1
    <2> HIDE DEF first, at
    <2> QED
      BY <2>1, <2>2, <2>3, Fun_IsSurj, FS_Surjection
  <1>5. \A e \in queue : \E i \in first : e.time = script[i].time /\ e.seq = i /\ e.type = "step" /\ e.id = i
                                         /\ e = [time |-> script[i].time, seq |-> i, type |-> "step", id |-> i]
    BY <1>1
  <1>6. \A T : "step" \notin T => Of(queue, T) = {}
    BY <1>5 DEF Of
  <1>7. WorkTypes
    <2>1. \A e \in queue : /\ e.time \in Nat /\ serviceTime <= e.time /\ e.seq \in Nat /\ e.seq <= seq /\ e.type \in EventKinds
                           /\ e.type = "step" /\ e.id \in DOMAIN script
      <3> SUFFICES ASSUME NEW e \in queue
                   PROVE  /\ e.time \in Nat /\ serviceTime <= e.time /\ e.seq \in Nat /\ e.seq <= seq /\ e.type \in EventKinds
                          /\ e.type = "step" /\ e.id \in DOMAIN script
        OBVIOUS
      <3>1. PICK i \in first : e.time = script[i].time /\ e.seq = i /\ e.type = "step" /\ e.id = i
        BY <1>5
      <3>2. i \in DOMAIN script /\ script[i].time \in Nat
        BY <1>1, ProviderAssumption
      <3>3. i \in Nat /\ i <= Len(script)
        BY <1>2, <3>2
      <3> QED
        BY <1>1, <3>1, <3>2, <3>3 DEF EventKinds
    <2>2. behaviors \in [Operations -> Behavior]
      BY <1>1 DEF Behavior
    <2> QED
      BY <1>1, <1>2, <1>3, <2>1, <2>2 DEF WorkTypes
  <1>8. StepsOnce
    <2>1. Alone(queue, {"step"})
      BY <1>5 DEF Alone
    <2>2. \A e \in Of(queue, {"step"}) : e.id \in DOMAIN script /\ (e.id = 1 \/ script[e.id - 1].does # "relay" \/ e.id - 1 \notin DOMAIN script)
      BY <1>5 DEF Of
    <2>3. \A i \in DOMAIN script : /\ script[i].does = "relay" => i + 1 \in DOMAIN script
                                   /\ script[i].does = "ask" => outcome[script[i].with] = "idle"
      BY <1>1, <1>7, AskedByStep
    <2> QED
      BY <2>1, <2>2, <2>3 DEF StepsOnce
  <1>9. SentOnce
    <2>1. Of(queue, {"deadline"}) = {}
      BY <1>6
    <2>2. \A q \in Requests : \A r \in Retry[q] : outcome[r] = "idle"
      BY <1>1, ProviderAssumption
    <2> QED
      BY <2>1, <2>2 DEF SentOnce, Alone, Of
  <1>10. OneToken
    <2>1. Of(queue, Token) = {} /\ Of(queue, {"delivery"}) = {}
      BY <1>6 DEF Token
    <2> QED
      BY <1>1, <1>3, <2>1 DEF OneToken, Alone, Of
  <1>11. BookTypes
    BY <1>1, <1>4 DEF BookTypes, Tallies, Answers
  <1>12. Booked(serviceStatus, queue, DOMAIN admissions, applied, counts, answered)
    <2>1. Of(queue, {"arrival", "complete"}) = {} /\ Of(queue, {"complete"}) = {} /\ Of(queue, Calling) = {}
      BY <1>6 DEF Calling
    <2>2. {r \in Requests : answered[r] = "ok"} = {} /\ {r \in Requests : answered[r] \notin {"none", "ok"}} = {}
      BY <1>1
    <2>3. Cardinality({}) = 0
      BY FS_EmptySet
    <2>4. Len(applied) = 0
      BY <1>1
    <2>5. /\ counts.effect = 0 /\ counts.admitted = 0 /\ counts.rejected = 0 /\ counts.suppressed = 0
          /\ counts.callbacks = 0 /\ counts.finished = 0
      BY <1>1
    <2>6. DOMAIN admissions = {f.id : f \in Of(queue, {"arrival", "complete"})}
      BY <1>3, <2>1
    <2> QED
      <3>1. counts.admitted = counts.effect + Cardinality(Of(queue, {"complete"}))
        BY <2>1, <2>3, <2>5
      <3>2. counts.effect = Len(applied)
        BY <2>4, <2>5
      <3>3. counts.effect = counts.suppressed + Cardinality({r \in Requests : answered[r] = "ok"})
        BY <2>2, <2>3, <2>5
      <3>4. counts.rejected = Cardinality({r \in Requests : answered[r] \notin {"none", "ok"}})
        BY <2>2, <2>3, <2>5
      <3>5. counts.callbacks = counts.finished + Cardinality(Of(queue, Calling))
        BY <2>1, <2>3, <2>5
      <3> QED
        BY <2>6, <3>1, <3>2, <3>3, <3>4, <3>5 DEF Booked
  <1> QED
    BY <1>7, <1>8, <1>9, <1>10, <1>11, <1>12 DEF ServiceInv, InHand

LEMMA ServiceStep ==
    ASSUME ServiceInv, External!Next
    PROVE  ServiceInv'
  <1>1. PICK e \in queue : External!IsFirst(e, queue) /\ External!Handle(e)
    BY DEF External!Next
  <1>2. Taken(e)
    BY <1>1 DEF Taken, External!Next
  <1>3. CASE e.type = "step" /\ External!AskFirst(e)
    BY <1>2, <1>3, AskStep
  <1>4. CASE e.type = "step" /\ (External!SetAvailability(e) \/ External!ConfigureBehavior(e))
    BY <1>2, <1>4, TermsStep
  <1>5. CASE e.type = "step" /\ External!Relay(e)
    BY <1>2, <1>5, RelayStep
  <1>6. CASE e.type = "step" /\ External!Misuse(e)
    BY <1>2, <1>6, FailStep DEF External!Misuse, Calling
  <1>7. CASE e.type = "delivery" /\ External!Reject(e)
    BY <1>2, <1>7, RejectStep
  <1>8. CASE e.type = "delivery" /\ External!Admit(e)
    BY <1>2, <1>8, AdmitStep
  <1>9. CASE e.type = "arrival" /\ External!Arrival(e)
    BY <1>2, <1>9, ArrivalStep
  <1>10. CASE e.type = "complete" /\ External!Complete(e)
    BY <1>2, <1>10, CompleteStep
  <1>11. CASE e.type = "callback" /\ External!Callback(e)
    BY <1>2, <1>11, CallbackStep
  <1>12. CASE e.type \in {"callbackReply", "callbackTimeout"} /\ External!FinishCallback(e)
    BY <1>2, <1>12, CallbackOverStep
  <1>13. CASE e.type = "response" /\ External!Response(e)
    BY <1>2, <1>13, ResponseStep
  <1>14. CASE e.type = "deadline" /\ External!Deadline(e)
    BY <1>2, <1>14, DeadlineStep
  <1> QED
    BY <1>1, <1>3, <1>4, <1>5, <1>6, <1>7, <1>8, <1>9, <1>10, <1>11, <1>12, <1>13, <1>14 DEF External!Handle

LEMMA ServiceStill == ServiceInv /\ UNCHANGED serviceVars => ServiceInv'
  <1> SUFFICES ASSUME ServiceInv, UNCHANGED serviceVars PROVE ServiceInv'
    OBVIOUS
  <1>1. /\ serviceTime' = serviceTime /\ seq' = seq /\ queue' = queue /\ script' = script /\ serviceStatus' = serviceStatus
        /\ behaviors' = behaviors /\ admissions' = admissions /\ applied' = applied /\ counts' = counts
        /\ answered' = answered /\ outcome' = outcome
    BY DEF serviceVars
  <1>2. BookTypes' /\ Booked(serviceStatus, queue, DOMAIN admissions, applied, counts, answered)'
    BY <1>1 DEF ServiceInv, BookTypes, Booked
  <1>3. CASE serviceStatus = "RUNNING"
    <2>1. WorkTypes /\ StepsOnce /\ SentOnce /\ OneToken
      BY <1>3 DEF ServiceInv, InHand
    <2>2. WorkTypes'
      BY <1>1, <2>1 DEF WorkTypes
    <2>3. StepsOnce'
      BY <1>1, <2>1 DEF StepsOnce
    <2>4. SentOnce'
      BY <1>1, <2>1 DEF SentOnce
    <2>5. OneToken'
      BY <1>1, <2>1 DEF OneToken
    <2> QED
      BY <1>2, <2>2, <2>3, <2>4, <2>5 DEF ServiceInv, InHand
  <1>4. CASE serviceStatus # "RUNNING"
    BY <1>1, <1>2, <1>4 DEF ServiceInv
  <1> QED
    BY <1>3, <1>4

-----------------------------------------------------------------------------
(* The terms of the instant of acceptance                                   *)

Offers == [r \in Requests |-> External!Terms(r)]

\* What has been accepted and not yet applied.
Working(e) == e \in queue /\ e.type \in {"arrival", "complete"}

Going == ServiceInv /\ serviceStatus = "RUNNING"

LEMMA OneWorks ==
    Going => \A e, f \in queue : e.type \in {"arrival", "complete"} /\ f.type \in {"arrival", "complete"} /\ e.id = f.id => e = f
  BY DEF Going, ServiceInv, InHand, OneToken, Alone, Token

LEMMA DueFacts ==
    Going => \A e \in queue : /\ e.type = "complete" => External!DueOf(e.id) = e.time
                              /\ e.type = "arrival" => External!DueOf(e.id) = e.time + External!Delay(admissions[e.id])
  <1> SUFFICES ASSUME Going, NEW e \in queue
               PROVE  /\ e.type = "complete" => External!DueOf(e.id) = e.time
                      /\ e.type = "arrival" => External!DueOf(e.id) = e.time + External!Delay(admissions[e.id])
    OBVIOUS
  <1>1. CASE e.type = "complete"
    <2>1. \A f \in External!Pending("complete") : f.id = e.id => f = e
      BY <1>1, OneWorks DEF External!Pending
    <2>2. e \in External!Pending("complete")
      BY <1>1 DEF External!Pending
    <2>3. (CHOOSE f \in External!Pending("complete") : f.id = e.id) = e
      BY <2>1, <2>2
    <2> QED
      BY <1>1, <2>2, <2>3 DEF External!DueOf
  <1>2. CASE e.type = "arrival"
    <2>1. \A f \in External!Pending("arrival") : f.id = e.id => f = e
      BY <1>2, OneWorks DEF External!Pending
    <2>2. e \in External!Pending("arrival")
      BY <1>2 DEF External!Pending
    <2>3. (CHOOSE f \in External!Pending("arrival") : f.id = e.id) = e
      BY <2>1, <2>2
    <2>4. ~\E f \in External!Pending("complete") : f.id = e.id
      BY <1>2, OneWorks DEF External!Pending
    <2> QED
      BY <1>2, <2>3, <2>4 DEF External!DueOf
  <1> QED
    BY <1>1, <1>2

LEMMA DueNext ==
    (Going => \A e \in queue : /\ e.type = "complete" => External!DueOf(e.id) = e.time
                               /\ e.type = "arrival" => External!DueOf(e.id) = e.time + External!Delay(admissions[e.id]))'
  BY DueFacts, PTL

LEMMA WorkFacts ==
    Going => /\ \A r \in DOMAIN admissions : External!Delay(admissions[r]) \in Nat
             /\ \A r \in DOMAIN admissions : \E f \in queue : f.type \in {"arrival", "complete"} /\ f.id = r
             /\ \A f \in queue : f.type \in {"arrival", "complete"} => f.id \in DOMAIN admissions
  <1> SUFFICES ASSUME Going
               PROVE  /\ \A r \in DOMAIN admissions : External!Delay(admissions[r]) \in Nat
                      /\ \A r \in DOMAIN admissions : \E f \in queue : f.type \in {"arrival", "complete"} /\ f.id = r
                      /\ \A f \in queue : f.type \in {"arrival", "complete"} => f.id \in DOMAIN admissions
    OBVIOUS
  <1>1. DOMAIN admissions = {f.id : f \in Of(queue, {"arrival", "complete"})}
    BY DEF Going, ServiceInv, Booked
  <1>2. ASSUME NEW r \in DOMAIN admissions PROVE External!Delay(admissions[r]) \in Nat
    <2>1. admissions[r].behavior \in Behavior
      BY DEF Going, ServiceInv, InHand, WorkTypes
    <2>2. admissions[r].behavior.latency \in Nat /\ admissions[r].behavior.degradedExtraLatency \in Nat
      BY <2>1 DEF Behavior
    <2> QED
      BY <2>2 DEF External!Delay
  <1> QED
    BY <1>1, <1>2 DEF Of

LEMMA PromisedFacts ==
    Going => /\ External!Promised = [r \in DOMAIN admissions |-> [due |-> External!DueOf(r), drop |-> External!Drops(r)]]
             /\ DOMAIN External!Promised = DOMAIN admissions
             /\ \A r \in DOMAIN admissions :
                   External!Promised[r].due = External!DueOf(r) /\ External!Promised[r].drop = External!Drops(r)
  BY DEF Going, External!Promised

LEMMA InTime ==
    ASSUME NEW e, Taken(e)
    PROVE  e.time >= serviceTime /\ e.time \in Nat /\ \A r \in DOMAIN External!Promised : e.time <= External!Promised[r].due
  <1>1. Going
    BY DEF Taken, Going
  <1>2. WorkTypes /\ e \in queue /\ External!IsFirst(e, queue)
    BY TakenFacts DEF Taken
  <1>3. e.time >= serviceTime /\ e.time \in Nat /\ serviceTime \in Nat
    BY <1>2 DEF WorkTypes
  <1>4. ASSUME NEW r \in DOMAIN admissions PROVE e.time <= External!DueOf(r)
    <2>1. PICK f \in queue : f.type \in {"arrival", "complete"} /\ f.id = r
      BY <1>1, WorkFacts
    <2>2. f.time \in Nat /\ e.time <= f.time
      BY <1>2 DEF WorkTypes, External!IsFirst, External!Earlier
    <2>3. External!Delay(admissions[r]) \in Nat
      BY <1>1, WorkFacts
    <2>4. External!DueOf(r) = f.time \/ External!DueOf(r) = f.time + External!Delay(admissions[r])
      BY <1>1, <2>1, DueFacts
    <2> QED
      BY <1>3, <2>2, <2>3, <2>4
  <1> QED
    BY <1>1, <1>3, <1>4, PromisedFacts

\* A request whose event stays where it is, is due when it was.
LEMMA DueKept ==
    ASSUME Going, Going', NEW r \in DOMAIN admissions, r \in DOMAIN admissions', admissions'[r] = admissions[r],
           \A f \in queue : f.type \in {"arrival", "complete"} /\ f.id = r => f \in queue'
    PROVE  External!DueOf(r)' = External!DueOf(r) /\ External!Drops(r)' = External!Drops(r)
  <1>1. PICK f \in queue : f.type \in {"arrival", "complete"} /\ f.id = r
    BY WorkFacts
  <1>2. f \in queue'
    BY <1>1
  <1>3. /\ f.type = "complete" => External!DueOf(f.id) = f.time
        /\ f.type = "arrival" => External!DueOf(f.id) = f.time + External!Delay(admissions[f.id])
    BY DueFacts
  <1>5. /\ f.type = "complete" => External!DueOf(r)' = f.time
        /\ f.type = "arrival" => External!DueOf(r)' = f.time + External!Delay(admissions'[r])
    BY <1>1, <1>2, DueNext
  <1>6. External!DueOf(r)' = External!DueOf(r)
    BY <1>1, <1>3, <1>5
  <1>7. External!Drops(r)' = External!Drops(r)
    BY DEF External!Drops
  <1> QED
    BY <1>6, <1>7

LEMMA PromisedNext ==
    Going' => External!Promised' = [r \in DOMAIN admissions' |-> [due |-> External!DueOf(r)', drop |-> External!Drops(r)']]
  <1>1. (Going => External!Promised = [r \in DOMAIN admissions |-> [due |-> External!DueOf(r), drop |-> External!Drops(r)]])'
    BY PromisedFacts, PTL
  <1> QED
    BY <1>1

LEMMA PromisedSame ==
    ASSUME Going, Going', admissions' = admissions,
           \A r \in DOMAIN admissions : External!DueOf(r)' = External!DueOf(r) /\ External!Drops(r)' = External!Drops(r)
    PROVE  External!Promised' = External!Promised
  <1>1. External!Promised' = [r \in DOMAIN admissions |-> [due |-> External!DueOf(r)', drop |-> External!Drops(r)']]
    BY PromisedNext
  <1>2. External!Promised = [r \in DOMAIN admissions |-> [due |-> External!DueOf(r), drop |-> External!Drops(r)]]
    BY PromisedFacts
  <1> QED
    BY <1>1, <1>2

\* The provider promises nothing and keeps its promises to be kept.
LEMMA QuietKeeps ==
    ASSUME NEW e, Taken(e), ServiceInv', NEW gone, NEW list, External!Dispatched(e, gone, list),
           e.type \notin {"arrival", "complete"}, \A g \in gone : g.type \notin {"arrival", "complete"},
           UNCHANGED <<serviceStatus, admissions>>
    PROVE  serviceTime' = e.time /\ External!Promised' = External!Promised /\ Going'
  <1>1. Going /\ Going'
    BY DEF Taken, Going
  <1>2. serviceTime' = e.time /\ \A f \in queue : f.type \in {"arrival", "complete"} => f \in queue'
    BY DEF External!Dispatched
  <1>3. \A r \in DOMAIN admissions : External!DueOf(r)' = External!DueOf(r) /\ External!Drops(r)' = External!Drops(r)
    BY <1>1, <1>2, DueKept
  <1> QED
    BY <1>1, <1>2, <1>3, PromisedSame

LEMMA Quietly ==
    ASSUME NEW e, Taken(e), serviceTime' = e.time, serviceStatus' = "RUNNING", External!Promised' = External!Promised,
           UNCHANGED <<applied, answered>>
    PROVE  External!Kept!Next
  BY InTime DEF Taken, External!Kept!Next

LEMMA QuietServes ==
    ASSUME NEW e, Taken(e), ServiceInv', NEW gone, NEW list, External!Dispatched(e, gone, list),
           e.type \notin {"arrival", "complete"}, \A g \in gone : g.type \notin {"arrival", "complete"},
           UNCHANGED <<serviceStatus, admissions, applied, answered>>
    PROVE  External!Kept!Next
  BY QuietKeeps, Quietly DEF Taken

LEMMA FailServes ==
    ASSUME NEW e, Taken(e), External!Fail(e)
    PROVE  External!Kept!Next
  <1>1. serviceTime' = e.time /\ serviceStatus' = "FAILED" /\ UNCHANGED <<availability, behaviors, applied, answered>>
    BY DEF External!Fail, External!Dispatched
  <1>2. External!Promised' = <<>>
    BY <1>1 DEF External!Promised
  <1>3. [r \in Requests |-> External!Terms(r)]' = [r \in Requests |-> External!Terms(r)]
    BY <1>1 DEF External!Terms, External!Refusal, External!Delay
  <1>4. External!Kept!Halt
    BY <1>1, <1>2, <1>3 DEF External!Kept!Halt
  <1> QED
    BY <1>1, <1>4, InTime DEF Taken, External!Kept!Next

\* The token of a request has not been answered, nor applied.
LEMMA Unanswered ==
    ASSUME NEW e, Taken(e), e.type = "delivery"
    PROVE  /\ e.id \in Requests /\ e.id \notin DOMAIN External!Promised /\ answered[e.id] = "none"
           /\ \A i \in DOMAIN applied : applied[i] # e.id
  <1>1. Going /\ OneToken /\ e.id \in Requests
    BY TakenFacts DEF Taken, Going
  <1>2. e \in Of(queue, Token) /\ e \in Of(queue, {"delivery"})
    BY DEF Taken, Of, Token
  <1> QED
    BY <1>1, <1>2, PromisedFacts DEF OneToken

LEMMA RejectServes ==
    ASSUME NEW e, Taken(e), ServiceInv', e.type = "delivery", External!Reject(e)
    PROVE  External!Kept!Next
  <1> DEFINE r == e.id
  <1>1. PICK leg : External!Dispatched(e, {}, leg)
    BY DEF External!Reject
  <1>2. /\ External!Refusal(r) # "none" /\ answered' = [answered EXCEPT ![r] = External!Refusal(r)]
        /\ UNCHANGED <<serviceStatus, availability, behaviors, admissions, applied>>
    BY DEF External!Reject
  <1>3. serviceTime' = e.time /\ External!Promised' = External!Promised
    BY <1>1, <1>2, QuietKeeps
  <1>4. Offers' = Offers
    BY <1>2 DEF Offers, External!Terms, External!Refusal, External!Delay
  <1>5. r \in Requests /\ Offers[r].refusal = External!Refusal(r)
    BY Unanswered DEF Offers, External!Terms
  <1>6. External!Kept!Refuse(r)
    BY <1>2, <1>3, <1>5 DEF External!Kept!Refuse, Offers
  <1>7. External!Kept!Arrive(r)
    BY <1>6, Unanswered DEF External!Kept!Arrive
  <1> QED
    BY <1>2, <1>3, <1>4, <1>5, <1>7, InTime DEF Taken, External!Kept!Next, Offers

LEMMA AdmitServes ==
    ASSUME NEW e, Taken(e), ServiceInv', e.type = "delivery", External!Admit(e)
    PROVE  External!Kept!Next
  <1> DEFINE r == e.id
             terms == [behavior |-> behaviors[OperationOf[r]], availability |-> availability]
             g == [time |-> e.time + 0, seq |-> seq + 1, type |-> "arrival", id |-> r]
  <1>1. /\ External!Refusal(r) = "none" /\ External!Dispatched(e, {}, <<External!Event(0, "arrival", r)>>)
        /\ UNCHANGED <<serviceStatus, availability, behaviors, applied, answered>>
    BY DEF External!Admit
  <1>2. /\ DOMAIN admissions' = DOMAIN admissions \cup {r} /\ admissions'[r] = terms
        /\ \A q \in DOMAIN admissions : q # r => admissions'[q] = admissions[q]
    BY DEF External!Admit
  <1>3. Going /\ Going' /\ e.time \in Nat /\ r \in Requests /\ r \notin DOMAIN admissions
    <2>1. Going /\ Going'
      BY <1>1 DEF Taken, Going
    <2> QED
      BY <2>1, InTime, Unanswered, PromisedFacts
  <1>4. /\ serviceTime' = e.time /\ \A f \in queue : f.type \in {"arrival", "complete"} => f \in queue'
        /\ g \in queue'
    <2>1. queue' = (queue \ ({} \cup {e})) \cup Queued(e.time, seq, <<External!Event(0, "arrival", r)>>) /\ serviceTime' = e.time
      BY <1>1 DEF External!Dispatched, Queued
    <2>2. Queued(e.time, seq, <<External!Event(0, "arrival", r)>>) = {g}
      BY OneQueued
    <2> QED
      BY <2>1, <2>2
  <1>5. /\ Offers' = Offers
        /\ Offers[r].refusal = "none" /\ Offers[r].delay = External!Delay(terms) /\ Offers[r].drop = terms.behavior.dropResponse
    <2>1. Offers' = Offers
      BY <1>1 DEF Offers, External!Terms, External!Refusal, External!Delay
    <2>2. Offers[r] = External!Terms(r)
      BY <1>3 DEF Offers
    <2>3. External!Terms(r).refusal = "none" /\ External!Terms(r).delay = External!Delay(terms)
          /\ External!Terms(r).drop = (External!Refusal(r) = "none" /\ terms.behavior.dropResponse)
      BY <1>1 DEF External!Terms
    <2>4. terms.behavior.dropResponse \in BOOLEAN
      <3>1. OperationOf[r] \in Operations
        BY <1>1 DEF External!Refusal
      <3>2. behaviors[OperationOf[r]] \in Behavior
        BY <3>1, TakenFacts DEF WorkTypes
      <3> QED
        BY <3>2 DEF Behavior
    <2> HIDE DEF terms
    <2>5. External!Terms(r).drop = terms.behavior.dropResponse
      BY <1>1, <2>3, <2>4
    <2> QED
      BY <2>1, <2>2, <2>3, <2>5
  <1>6. \A q \in DOMAIN admissions : External!DueOf(q)' = External!DueOf(q) /\ External!Drops(q)' = External!Drops(q)
    BY <1>2, <1>3, <1>4, DueKept
  <1>7. External!DueOf(r)' = e.time + External!Delay(terms) /\ External!Drops(r)' = terms.behavior.dropResponse
    <2>2. g.type = "arrival" /\ g.id = r /\ g.time = e.time
      BY <1>3
    <2> HIDE DEF g
    <2>3. External!DueOf(r)' = e.time + External!Delay(admissions'[r])
      BY <1>3, <1>4, <2>2, DueNext
    <2>4. External!Drops(r)' = admissions'[r].behavior.dropResponse
      BY DEF External!Drops
    <2> QED
      BY <1>2, <2>3, <2>4
  <1> HIDE DEF g, terms
  <1>8. External!Promised' = [q \in DOMAIN External!Promised \cup {r} |->
                                 IF q = r THEN [due |-> serviceTime' + Offers[r].delay, drop |-> Offers[r].drop]
                                          ELSE External!Promised[q]]
    <2>1. External!Promised' = [q \in DOMAIN admissions' |-> [due |-> External!DueOf(q)', drop |-> External!Drops(q)']]
      BY <1>3, PromisedNext
    <2>2. DOMAIN External!Promised = DOMAIN admissions
          /\ \A q \in DOMAIN admissions : External!Promised[q] = [due |-> External!DueOf(q), drop |-> External!Drops(q)]
      BY <1>3, PromisedFacts
    <2>3. \A q \in DOMAIN admissions' : [due |-> External!DueOf(q)', drop |-> External!Drops(q)']
             = IF q = r THEN [due |-> serviceTime' + Offers[r].delay, drop |-> Offers[r].drop] ELSE External!Promised[q]
      BY <1>2, <1>3, <1>4, <1>5, <1>6, <1>7, <2>2
    <2> QED
      BY <1>2, <2>1, <2>2, <2>3
  <1>9. External!Kept!Promise(r)
    BY <1>1, <1>5, <1>8 DEF External!Kept!Promise, Offers
  <1>10. External!Kept!Arrive(r)
    BY <1>9, Unanswered DEF External!Kept!Arrive
  <1> QED
    BY <1>1, <1>3, <1>4, <1>5, <1>10, InTime DEF Taken, External!Kept!Next, Offers

LEMMA ArrivalServes ==
    ASSUME NEW e, Taken(e), ServiceInv', e.type = "arrival", External!Arrival(e)
    PROVE  External!Kept!Next
  <1> DEFINE r == e.id
             d == External!Delay(admissions[r])
             g == [time |-> e.time + d, seq |-> seq + 1, type |-> "complete", id |-> r]
  <1>0. CASE External!Fail(e)
    BY <1>0, FailServes
  <1>1. CASE ~External!Fail(e)
    <2>1. /\ External!Dispatched(e, {}, <<External!Event(d, "complete", r)>>)
          /\ UNCHANGED <<serviceStatus, admissions, applied, answered>>
      BY <1>1 DEF External!Arrival
    <2>2. Going /\ Going' /\ e \in queue
      BY <2>1 DEF Taken, Going
    <2>3. r \in DOMAIN admissions /\ External!DueOf(r) = e.time + d
      BY <2>2, WorkFacts, DueFacts
    <2> HIDE DEF d
    <2>4. /\ serviceTime' = e.time /\ \A f \in queue : f # e => f \in queue'
          /\ g \in queue'
      <3>1. queue' = (queue \ ({} \cup {e})) \cup Queued(e.time, seq, <<External!Event(d, "complete", r)>>) /\ serviceTime' = e.time
        BY <2>1 DEF External!Dispatched, Queued
      <3>2. Queued(e.time, seq, <<External!Event(d, "complete", r)>>) = {g}
        BY OneQueued
      <3> QED
        BY <3>1, <3>2
    <2>5. g.type = "complete" /\ g.id = r /\ g.time = e.time + d
      OBVIOUS
    <2> HIDE DEF g
    <2>6. External!DueOf(r)' = External!DueOf(r)
      BY <2>2, <2>3, <2>4, <2>5, DueNext
    <2>7. External!Drops(r)' = External!Drops(r)
      BY <2>1 DEF External!Drops
    <2>8. ASSUME NEW q \in DOMAIN admissions, q # r PROVE External!DueOf(q)' = External!DueOf(q) /\ External!Drops(q)' = External!Drops(q)
      BY <2>1, <2>2, <2>4, <2>8, DueKept
    <2>9. External!Promised' = External!Promised
      BY <2>1, <2>2, <2>6, <2>7, <2>8, PromisedSame
    <2> QED
      BY <2>1, <2>4, <2>9, Quietly DEF Taken
  <1> QED
    BY <1>0, <1>1

LEMMA CompleteServes ==
    ASSUME NEW e, Taken(e), ServiceInv', e.type = "complete", External!Complete(e)
    PROVE  External!Kept!Next
  <1> DEFINE r == e.id
  <1>0. CASE External!Fail(e)
    BY <1>0, FailServes
  <1>1. CASE ~External!Fail(e)
    <2>1. /\ applied' = Append(applied, r) /\ admissions' = External!Released(r)
          /\ \E list : External!Dispatched(e, {}, list)
          /\ answered' = IF External!Drops(r) THEN answered ELSE [answered EXCEPT ![r] = "ok"]
          /\ UNCHANGED <<serviceStatus, availability, behaviors>>
      BY <1>1 DEF External!Complete
    <2>2. Going /\ Going' /\ e \in queue /\ r \in Requests
      BY <2>1, TakenFacts DEF Taken, Going
    <2>3. r \in DOMAIN admissions /\ External!DueOf(r) = e.time
      BY <2>2, WorkFacts, DueFacts
    <2>4. serviceTime' = e.time /\ \A f \in queue : f # e => f \in queue'
      BY <2>1 DEF External!Dispatched
    <2>5. DOMAIN admissions' = DOMAIN admissions \ {r} /\ \A q \in DOMAIN admissions' : admissions'[q] = admissions[q]
      BY <2>1 DEF External!Released
    <2>6. ASSUME NEW q \in DOMAIN admissions' PROVE External!DueOf(q)' = External!DueOf(q) /\ External!Drops(q)' = External!Drops(q)
      BY <2>2, <2>4, <2>5, <2>6, DueKept
    <2>7. /\ DOMAIN External!Promised = DOMAIN admissions
          /\ \A q \in DOMAIN admissions : External!Promised[q] = [due |-> External!DueOf(q), drop |-> External!Drops(q)]
      BY <2>2, PromisedFacts
    <2>8. External!Promised' = [q \in DOMAIN External!Promised \ {r} |-> External!Promised[q]]
      <3>1. External!Promised' = [q \in DOMAIN admissions' |-> [due |-> External!DueOf(q)', drop |-> External!Drops(q)']]
        BY <2>2, PromisedNext
      <3>2. \A q \in DOMAIN admissions' : [due |-> External!DueOf(q)', drop |-> External!Drops(q)'] = External!Promised[q]
        BY <2>5, <2>6, <2>7
      <3> QED
        BY <2>5, <2>7, <3>1, <3>2
    <2>9. External!Promised[r].due = e.time /\ External!Promised[r].drop = External!Drops(r)
      BY <2>3, <2>7
    <2>10. External!Kept!CarryOut(r)
      BY <2>1, <2>3, <2>4, <2>7, <2>8, <2>9 DEF External!Kept!CarryOut
    <2>11. Offers' = Offers
      BY <2>1 DEF Offers, External!Terms, External!Refusal, External!Delay
    <2> QED
      BY <2>1, <2>2, <2>4, <2>10, <2>11, InTime DEF Taken, External!Kept!Next, Offers
  <1> QED
    BY <1>0, <1>1

LEMMA ServesInit ==
    ASSUME External!Init
    PROVE  External!Kept!Init
  <1>1. /\ serviceTime = 0 /\ serviceStatus = "RUNNING" /\ admissions = <<>> /\ applied = <<>>
        /\ answered = [r \in Requests |-> "none"]
    BY DEF External!Init
  <1>2. External!Promised = <<>>
    <2>1. External!Promised = [r \in {} |-> [due |-> External!DueOf(r), drop |-> External!Drops(r)]]
      BY <1>1 DEF External!Promised
    <2>2. \A f : f = [r \in {} |-> [due |-> External!DueOf(r), drop |-> External!Drops(r)]] => f = <<>>
      OBVIOUS
    <2> QED
      BY <2>1, <2>2
  <1> QED
    BY <1>1, <1>2 DEF External!Kept!Init

LEMMA ServesStep ==
    ASSUME ServiceInv, ServiceInv', External!Next
    PROVE  External!Kept!Next
  <1>1. PICK e \in queue : External!IsFirst(e, queue) /\ External!Handle(e)
    BY DEF External!Next
  <1>2. Taken(e)
    BY <1>1 DEF Taken, External!Next
  <1>3. CASE e.type = "step" /\ External!Misuse(e)
    BY <1>2, <1>3, FailServes DEF External!Misuse
  <1>4. CASE e.type = "delivery" /\ External!Reject(e)
    BY <1>2, <1>4, RejectServes
  <1>5. CASE e.type = "delivery" /\ External!Admit(e)
    BY <1>2, <1>5, AdmitServes
  <1>6. CASE e.type = "arrival" /\ External!Arrival(e)
    BY <1>2, <1>6, ArrivalServes
  <1>7. CASE e.type = "complete" /\ External!Complete(e)
    BY <1>2, <1>7, CompleteServes
  <1>8. ASSUME NEW gone, NEW list, External!Dispatched(e, gone, list),
               e.type \notin {"arrival", "complete"}, \A g \in gone : g.type \notin {"arrival", "complete"},
               UNCHANGED <<serviceStatus, admissions, applied, answered>>
        PROVE  External!Kept!Next
    BY <1>2, <1>8, QuietServes
  <1>9. CASE e.type = "step" /\ External!AskFirst(e)
    <2>1. (\E list : External!Dispatched(e, {}, list)) /\ UNCHANGED <<serviceStatus, admissions, applied, answered>>
      BY <1>9 DEF External!AskFirst, External!Send
    <2> QED
      BY <1>8, <1>9, <2>1
  <1>10. CASE e.type = "step" /\ (External!SetAvailability(e) \/ External!ConfigureBehavior(e) \/ External!Relay(e))
    <2>1. (\E list : External!Dispatched(e, {}, list)) /\ UNCHANGED <<serviceStatus, admissions, applied, answered>>
      BY <1>10 DEF External!SetAvailability, External!ConfigureBehavior, External!Relay
    <2> QED
      BY <1>8, <1>10, <2>1
  <1>11. CASE e.type = "callback" /\ External!Callback(e)
    <2>1. (\E list : External!Dispatched(e, {}, list)) /\ UNCHANGED <<serviceStatus, admissions, applied, answered>>
      BY <1>11 DEF External!Callback
    <2> QED
      BY <1>8, <1>11, <2>1
  <1>12. CASE e.type \in {"callbackReply", "callbackTimeout"} /\ External!FinishCallback(e)
    <2>1. External!Dispatched(e, {}, <<>>) /\ UNCHANGED <<serviceStatus, admissions, applied, answered>>
      BY <1>12 DEF External!FinishCallback
    <2> QED
      BY <1>8, <1>12, <2>1
  <1>13. CASE e.type = "response" /\ External!Response(e)
    <2>1. /\ External!Dispatched(e, {d \in queue : d.type = "deadline" /\ d.id = e.id}, <<>>)
          /\ UNCHANGED <<serviceStatus, admissions, applied, answered>>
      BY <1>13 DEF External!Response
    <2> QED
      BY <1>8, <1>13, <2>1
  <1>14. CASE e.type = "deadline" /\ External!Deadline(e)
    <2>1. (\E list : External!Dispatched(e, {}, list)) /\ UNCHANGED <<serviceStatus, admissions, applied, answered>>
      BY <1>14 DEF External!Deadline, External!Send
    <2> QED
      BY <1>8, <1>14, <2>1
  <1> QED
    BY <1>1, <1>3, <1>4, <1>5, <1>6, <1>7, <1>9, <1>10, <1>11, <1>12, <1>13, <1>14 DEF External!Handle

-----------------------------------------------------------------------------
(* Fault decisions follow the probes                                        *)

Probe       == [point : Points, name : Names, subject : Subjects]
Choice      == [rules : SUBSET DOMAIN Rules, delays : SUBSET DOMAIN Rules, drop : BOOLEAN, copies : BOOLEAN, fail : BOOLEAN]
Evaluation  == [probe : Probe, time : Nat, drawn : SUBSET DOMAIN Rules, decision : Choice, port : Nat]

FaultTypes == faultTime \in Nat /\ engine \in Nat /\ log \in Seq(Evaluation)

\* The evaluations up to the k-th of L that rule i matches, and those it acts on.
MatchedBy(L, i, k) == {j \in 1..k : Faults!Matching(Rules[i], L[j].probe, L[j].time)}
ActedOn(L, i, k)   == {j \in 1..k : i \in L[j].decision.rules}

\* The counters of a rule are what is counted over the evaluations.
CountersExact == \A i \in DOMAIN Rules :
    /\ candidates[i] = Cardinality(MatchedBy(log, i, Len(log)))
    /\ applications[i] = Cardinality(ActedOn(log, i, Len(log)))

FaultsInv == FaultTypes /\ CountersExact /\ Faults!DecisionsFollowProbes

\* M begins with the first n elements of L.
Begins(M, L, n) == \A j \in 1..n : M[j] = L[j]

LEMMA OneMoreUpTo ==
    ASSUME NEW n \in Nat, NEW S, S \subseteq 1..n
    PROVE  Cardinality(S) \in Nat /\ Cardinality(S \cup {n + 1}) = Cardinality(S) + 1
  <1>1. IsFiniteSet(1..n)
    BY FS_Interval
  <1>2. IsFiniteSet(S)
    BY <1>1, FS_Subset
  <1>3. n + 1 \notin S
    OBVIOUS
  <1> QED
    BY <1>2, <1>3, FS_AddElement, FS_CardinalityType

LEMMA Unchanged ==
    ASSUME NEW n \in Nat, NEW L, NEW M, Begins(M, L, n), NEW i, NEW k \in 0..n
    PROVE  MatchedBy(M, i, k) = MatchedBy(L, i, k) /\ ActedOn(M, i, k) = ActedOn(L, i, k)
  <1>1. \A j \in 1..k : M[j] = L[j]
    BY DEF Begins
  <1> QED
    BY <1>1 DEF MatchedBy, ActedOn

LEMMA AllUnchanged ==
    \A n \in Nat : \A L, M : Begins(M, L, n) =>
        \A i : \A k \in 0..n : MatchedBy(M, i, k) = MatchedBy(L, i, k) /\ ActedOn(M, i, k) = ActedOn(L, i, k)
  BY Unchanged

\* What an evaluation e adds to what is counted.
LEMMA CountsAfter ==
    ASSUME NEW n \in Nat, NEW L, NEW M, Begins(M, L, n), NEW e, M[n + 1] = e, NEW i
    PROVE  /\ Cardinality(MatchedBy(M, i, n + 1)) = Cardinality(MatchedBy(L, i, n))
                  + IF Faults!Matching(Rules[i], e.probe, e.time) THEN 1 ELSE 0
           /\ Cardinality(ActedOn(M, i, n + 1)) = Cardinality(ActedOn(L, i, n)) + IF i \in e.decision.rules THEN 1 ELSE 0
  <1>1. MatchedBy(L, i, n) \subseteq 1..n /\ ActedOn(L, i, n) \subseteq 1..n
    BY DEF MatchedBy, ActedOn
  <1>2. MatchedBy(M, i, n + 1) = IF Faults!Matching(Rules[i], e.probe, e.time)
                                 THEN MatchedBy(L, i, n) \cup {n + 1} ELSE MatchedBy(L, i, n)
    <2> DEFINE P(j) == Faults!Matching(Rules[i], L[j].probe, L[j].time)
               Q(j) == Faults!Matching(Rules[i], M[j].probe, M[j].time)
    <2>1. (\A j \in 1..n : Q(j) <=> P(j)) /\ (Q(n + 1) <=> Faults!Matching(Rules[i], e.probe, e.time))
      BY DEF Begins
    <2>2. MatchedBy(M, i, n + 1) = {j \in 1..(n + 1) : Q(j)} /\ MatchedBy(L, i, n) = {j \in 1..n : P(j)}
      BY DEF MatchedBy
    <2> HIDE DEF P, Q
    <2>3. \A j : j \in 1..(n + 1) <=> j \in 1..n \/ j = n + 1
      OBVIOUS
    <2>4. CASE Q(n + 1)
      BY <2>1, <2>2, <2>3, <2>4
    <2>5. CASE ~Q(n + 1)
      BY <2>1, <2>2, <2>3, <2>5
    <2> QED
      BY <2>4, <2>5
  <1>3. ActedOn(M, i, n + 1) = IF i \in e.decision.rules THEN ActedOn(L, i, n) \cup {n + 1} ELSE ActedOn(L, i, n)
    <2> DEFINE P(j) == i \in L[j].decision.rules
               Q(j) == i \in M[j].decision.rules
    <2>1. (\A j \in 1..n : Q(j) <=> P(j)) /\ (Q(n + 1) <=> i \in e.decision.rules)
      BY DEF Begins
    <2>2. ActedOn(M, i, n + 1) = {j \in 1..(n + 1) : Q(j)} /\ ActedOn(L, i, n) = {j \in 1..n : P(j)}
      BY DEF ActedOn
    <2> HIDE DEF P, Q
    <2>3. \A j : j \in 1..(n + 1) <=> j \in 1..n \/ j = n + 1
      OBVIOUS
    <2>4. CASE Q(n + 1)
      BY <2>1, <2>2, <2>3, <2>4
    <2>5. CASE ~Q(n + 1)
      BY <2>1, <2>2, <2>3, <2>5
    <2> QED
      BY <2>4, <2>5
  <1>4. /\ Cardinality(MatchedBy(L, i, n)) \in Nat
        /\ Cardinality(MatchedBy(L, i, n) \cup {n + 1}) = Cardinality(MatchedBy(L, i, n)) + 1
    BY <1>1, OneMoreUpTo
  <1>5. /\ Cardinality(ActedOn(L, i, n)) \in Nat
        /\ Cardinality(ActedOn(L, i, n) \cup {n + 1}) = Cardinality(ActedOn(L, i, n)) + 1
    BY <1>1, OneMoreUpTo
  <1>6. Cardinality(MatchedBy(M, i, n + 1)) = Cardinality(MatchedBy(L, i, n))
                  + IF Faults!Matching(Rules[i], e.probe, e.time) THEN 1 ELSE 0
    BY <1>2, <1>4
  <1>7. Cardinality(ActedOn(M, i, n + 1)) = Cardinality(ActedOn(L, i, n)) + IF i \in e.decision.rules THEN 1 ELSE 0
    BY <1>3, <1>5
  <1> QED
    BY <1>6, <1>7

LEMMA NothingCounted == \A L, i : Cardinality(MatchedBy(L, i, 0)) = 0 /\ Cardinality(ActedOn(L, i, 0)) = 0
  <1> TAKE L, i
  <1>1. MatchedBy(L, i, 0) = {} /\ ActedOn(L, i, 0) = {}
    BY DEF MatchedBy, ActedOn
  <1> QED
    BY <1>1, FS_EmptySet

\* The evaluation d, the k-th of L in attempt g, is what the property says.
Follows(L, g, k, d) ==
    /\ d.port = g
    /\ \A i \in DOMAIN Rules :
          i \in d.decision.rules <=>
              /\ Faults!Matching(Rules[i], d.probe, d.time)
              /\ Rules[i].occurrence # 0 => Cardinality(MatchedBy(L, i, k)) = Rules[i].occurrence
              /\ Cardinality(ActedOn(L, i, k - 1)) < Rules[i].max
              /\ Faults!Selects(i, d.drawn)
    /\ d.decision.drop => ~d.decision.copies

LEMMA SameCardinality == \A S : Faults!Cardinality(S) = Cardinality(S)
  BY DEF Faults!Cardinality, Cardinality

LEMMA AllFollow == Faults!DecisionsFollowProbes <=> \A k \in DOMAIN log : Follows(log, engine, k, log[k])
  <1>1. \A i, k : Faults!Ordinal(i, k) = Cardinality(MatchedBy(log, i, k)) /\ Faults!Used(i, k) = Cardinality(ActedOn(log, i, k))
    BY SameCardinality DEF Faults!Ordinal, Faults!Used, MatchedBy, ActedOn
  <1> QED
    BY <1>1 DEF Faults!DecisionsFollowProbes, Follows

LEMMA AllFollowThen == Faults!DecisionsFollowProbes' <=> \A k \in DOMAIN log' : Follows(log', engine', k, log'[k])
  <1>1. \A i, k : /\ Faults!Ordinal(i, k)' = Cardinality(MatchedBy(log', i, k))
                  /\ Faults!Used(i, k)' = Cardinality(ActedOn(log', i, k))
    BY SameCardinality DEF Faults!Ordinal, Faults!Used, MatchedBy, ActedOn, Faults!Matching
  <1> QED
    BY <1>1 DEF Faults!DecisionsFollowProbes, Follows, Faults!Matching, Faults!Selects

Began == faultTime \in Nat /\ engine \in Nat /\ log = <<>> /\ candidates = Faults!Fresh /\ applications = Faults!Fresh

LEMMA FreshInv == Began => FaultsInv
  <1> SUFFICES ASSUME Began PROVE FaultsInv
    OBVIOUS
  <1>1. FaultTypes
    BY DEF FaultTypes, Began
  <1>2. CountersExact
    <2>1. Len(log) = 0
      BY DEF Began
    <2> QED
      BY <2>1, NothingCounted DEF CountersExact, Faults!Fresh, Began
  <1>3. Faults!DecisionsFollowProbes
    BY DEF Faults!DecisionsFollowProbes, Began
  <1> QED
    BY <1>1, <1>2, <1>3 DEF FaultsInv

LEMMA FaultsInit == ASSUME Faults!Init PROVE FaultsInv
  BY FreshInv DEF Faults!Init, Began

LEMMA EvaluateStep ==
    ASSUME FaultsInv, NEW port \in 0..engine, NEW probe \in Probe, Faults!Evaluate(port, probe)
    PROVE  FaultsInv'
  <1>1. PICK drawn \in SUBSET {i \in DOMAIN Rules : Rules[i].chance = "draw" /\ Faults!CouldSelect(i, probe)} :
           /\ candidates' = Faults!Counted(Faults!Selected(probe, drawn), probe)
           /\ applications' = [i \in DOMAIN Rules |-> applications[i] + IF i \in Faults!Selected(probe, drawn) THEN 1 ELSE 0]
           /\ log' = Append(log, [probe |-> probe, time |-> faultTime, drawn |-> drawn,
                                  decision |-> Faults!Decision(Faults!Selected(probe, drawn)), port |-> port])
    BY DEF Faults!Evaluate
  <1> DEFINE rules == Faults!Selected(probe, drawn)
             choice == Faults!Decision(rules)
             e == [probe |-> probe, time |-> faultTime, drawn |-> drawn, decision |-> choice, port |-> port]
             n == Len(log)
  <1>2. port = engine /\ UNCHANGED <<faultTime, engine>>
    BY DEF Faults!Evaluate, Faults!Current
  <1>3. rules \in SUBSET DOMAIN Rules
    BY DEF Faults!Selected
  <1>4. choice \in Choice /\ choice.rules = rules /\ (choice.drop => ~choice.copies)
    BY <1>3 DEF Faults!Decision, Faults!Has, Choice
  <1>5. /\ e \in Evaluation /\ e.probe = probe /\ e.time = faultTime /\ e.drawn = drawn /\ e.port = port /\ e.decision.rules = rules
        /\ (e.decision.drop => ~e.decision.copies)
    BY <1>4 DEF Evaluation, FaultsInv, FaultTypes
  <1>6. log' = Append(log, e)
    BY <1>1
  <1>6a. /\ n \in Nat /\ log' \in Seq(Evaluation) /\ Len(log') = n + 1 /\ log'[n + 1] = e
         /\ DOMAIN log' = 1..n + 1 /\ DOMAIN log = 1..n /\ \A k \in 1..n : log'[k] = log[k]
    BY <1>5, <1>6 DEF FaultsInv, FaultTypes
  <1>6b. Begins(log', log, n)
    BY <1>6a DEF Begins
  <1>7. \A i \in DOMAIN Rules :
           /\ candidates'[i] = candidates[i] + IF Faults!Matching(Rules[i], probe, faultTime) THEN 1 ELSE 0
           /\ applications'[i] = applications[i] + IF i \in rules THEN 1 ELSE 0
    BY <1>1 DEF Faults!Counted
  <1>8. \A i \in DOMAIN Rules :
           i \in rules <=> /\ Faults!Matching(Rules[i], probe, faultTime)
                           /\ Rules[i].occurrence # 0 => Rules[i].occurrence = candidates[i] + 1
                           /\ applications[i] < Rules[i].max
                           /\ Faults!Selects(i, drawn)
    BY DEF Faults!Selected, Faults!CouldSelect, Faults!Eligible
  <1> HIDE DEF rules, choice, e, n
  <1>9. ASSUME NEW i \in DOMAIN Rules
        PROVE  /\ Cardinality(MatchedBy(log', i, n + 1)) =
                      Cardinality(MatchedBy(log, i, n)) + IF Faults!Matching(Rules[i], probe, faultTime) THEN 1 ELSE 0
               /\ Cardinality(ActedOn(log', i, n + 1)) = Cardinality(ActedOn(log, i, n)) + IF i \in rules THEN 1 ELSE 0
    BY <1>5, <1>6a, <1>6b, CountsAfter
  <1>10. FaultTypes'
    BY <1>2, <1>6a DEF FaultsInv, FaultTypes
  <1>11. \A i \in DOMAIN Rules :
            candidates[i] = Cardinality(MatchedBy(log, i, n)) /\ applications[i] = Cardinality(ActedOn(log, i, n))
    BY DEF FaultsInv, CountersExact, n
  <1>12. CountersExact'
    BY <1>6a, <1>7, <1>9, <1>11 DEF CountersExact
  <1>12a. \A i : \A k \in 0..n : MatchedBy(log', i, k) = MatchedBy(log, i, k) /\ ActedOn(log', i, k) = ActedOn(log, i, k)
    <2>1. n \in Nat
      BY <1>6a
    <2>2. \A M : Begins(M, log, n) =>
             \A i : \A k \in 0..n : MatchedBy(M, i, k) = MatchedBy(log, i, k) /\ ActedOn(M, i, k) = ActedOn(log, i, k)
      BY <2>1, AllUnchanged
    <2> QED
      BY <1>6b, <2>2
  <1>13. ASSUME NEW k \in 1..n PROVE Follows(log', engine', k, log'[k])
    <2>1. Follows(log, engine, k, log[k])
      BY <1>6a, <1>13, AllFollow DEF FaultsInv
    <2>2. k \in 0..n /\ k - 1 \in 0..n
      BY <1>6a, <1>13
    <2>3. log'[k] = log[k] /\ engine' = engine
      BY <1>2, <1>6a, <1>13
    <2> QED
      BY <1>12a, <2>1, <2>2, <2>3 DEF Follows
  <1>14. Follows(log', engine', n + 1, log'[n + 1])
    <2>1. n + 1 - 1 = n /\ n \in 0..n
      BY <1>6a
    <2>2. ASSUME NEW i \in DOMAIN Rules
          PROVE  i \in rules <=> /\ Faults!Matching(Rules[i], probe, faultTime)
                                 /\ Rules[i].occurrence # 0 => Cardinality(MatchedBy(log', i, n + 1)) = Rules[i].occurrence
                                 /\ Cardinality(ActedOn(log', i, n)) < Rules[i].max
                                 /\ Faults!Selects(i, drawn)
      <3>1. Faults!Matching(Rules[i], probe, faultTime) => Cardinality(MatchedBy(log', i, n + 1)) = candidates[i] + 1
        BY <1>9, <1>11
      <3>2. Cardinality(ActedOn(log', i, n)) = applications[i]
        BY <1>12a, <1>11, <2>1
      <3> QED
        BY <1>8, <3>1, <3>2
    <2> QED
      BY <1>2, <1>5, <1>6a, <2>1, <2>2 DEF Follows
  <1>15. Faults!DecisionsFollowProbes'
    <2>1. ASSUME NEW k \in DOMAIN log' PROVE Follows(log', engine', k, log'[k])
      <3>1. k \in 1..n \/ k = n + 1
        BY <1>6a, <2>1
      <3> QED
        BY <1>13, <1>14, <3>1
    <2> QED
      BY <2>1, AllFollowThen
  <1> QED
    BY <1>10, <1>12, <1>15 DEF FaultsInv

\* A step that leaves the evaluations of this attempt alone.
LEMMA SameLog ==
    ASSUME FaultsInv, faultTime' \in Nat, UNCHANGED <<engine, candidates, applications, log>> PROVE FaultsInv'
  <1>1. FaultTypes'
    BY DEF FaultsInv, FaultTypes
  <1>2. CountersExact'
    BY DEF FaultsInv, CountersExact
  <1>3. Faults!DecisionsFollowProbes'
    BY AllFollow, AllFollowThen DEF FaultsInv
  <1> QED
    BY <1>1, <1>2, <1>3 DEF FaultsInv

LEMMA FaultsStep == FaultsInv /\ [Faults!Next]_faultVars => FaultsInv'
  <1> SUFFICES ASSUME FaultsInv, [Faults!Next]_faultVars PROVE FaultsInv'
    OBVIOUS
  <1>0. faultTime \in Nat /\ engine \in Nat
    BY DEF FaultsInv, FaultTypes
  <1>1. CASE UNCHANGED faultVars
    BY <1>0, <1>1, SameLog DEF faultVars
  <1>2. ASSUME NEW port \in 0..engine, NEW probe \in Probe, Faults!Evaluate(port, probe) PROVE FaultsInv'
    BY <1>2, EvaluateStep
  <1>3. ASSUME NEW port \in 0..engine, NEW fault \in Scheduled, Faults!Apply(port, fault) PROVE FaultsInv'
    BY <1>0, <1>3, SameLog DEF Faults!Apply
  <1>4. CASE Faults!Reset
    <2>1. Began'
      BY <1>0, <1>4 DEF Faults!Reset, Began, Faults!Fresh
    <2>2. Began' => FaultsInv'
      BY FreshInv, PTL
    <2> QED
      BY <2>1, <2>2
  <1>5. CASE Faults!Pass
    BY <1>0, <1>5, SameLog DEF Faults!Pass
  <1> QED
    BY <1>1, <1>2, <1>3, <1>4, <1>5 DEF Faults!Next, Probe

-----------------------------------------------------------------------------
(* What model code keeps is fenced                                          *)

Owners == Services \cup Clients
Codes  == {"STALE_CAPABILITY", "INVALID_OPERATION", "INVALID_CLIENT_ACTION", "INVALID_EVENT_TYPE",
           "HANDLER_FAILED", "INVALID_SERVICE_TRANSITION"}

\* What can be called: a context of its owner, a controller or a handle.
Callable(c) ==
    /\ c.kind \in {"service", "client", "controller", "handle"}
    /\ c.kind = "service" => c.owner \in Services
    /\ c.kind = "controller" => c.owner \in Clients /\ c.epoch \in 0..MaxScenario

KeepsakeTypes ==
    /\ failure \in Codes \cup {None}
    /\ misused \in BOOLEAN
    /\ stack # None => /\ stack.owner \in Owners /\ stack.scenario \in 0..MaxScenario
                       /\ stack.scenario # 0 => stack.owner \in Clients
    /\ DOMAIN process = Services
    /\ scenarios \in [Clients -> 0..MaxScenario]
    /\ \A c \in kept : Callable(c)
    /\ \A x \in held : x.owner \in Owners

KeepsakesInv == KeepsakeTypes /\ Keepsakes!Fenced

LEMMA AtRest ==
    ASSUME failure = None, stack = None, misused = FALSE, last = Keepsakes!Quiet, held = {}, \A c \in kept : Callable(c),
           DOMAIN process = Services, scenarios = [c \in Clients |-> 0]
    PROVE  KeepsakesInv
  <1>1. scenarios \in [Clients -> 0..MaxScenario]
    BY KeepsakesAssumption
  <1>2. KeepsakeTypes
    BY <1>1 DEF KeepsakeTypes
  <1>3. Keepsakes!Fenced
    BY DEF Keepsakes!Fenced, Keepsakes!ServedLive, Keepsakes!WorkLive, Keepsakes!MisuseSeals, Keepsakes!Called, Keepsakes!Quiet
  <1> QED
    BY <1>2, <1>3 DEF KeepsakesInv

LEMMA KeepsakesInit == ASSUME Keepsakes!Init PROVE KeepsakesInv
  BY AtRest DEF Keepsakes!Init

LEMMA GivenCallable == ASSUME KeepsakeTypes, NEW c \in kept \cup Keepsakes!Given PROVE Callable(c)
  BY DEF KeepsakeTypes, Callable, Keepsakes!Given, Keepsakes!Context, Keepsakes!Capability, Owners

\* A capability that passes its fence is of the run, process and component at work.
LEMMA FenceTells ==
    ASSUME KeepsakeTypes, NEW c, Callable(c)
    PROVE  /\ Keepsakes!Fence(c) \in Codes \cup {None}
           /\ Keepsakes!Fence(c) = None =>
                 /\ failure = None /\ c.run = run
                 /\ c.kind # "handle" => Keepsakes!ActiveOwner = c.owner
                 /\ c.kind = "service" => c.epoch = process[c.owner]
  <1> USE KeepsakesAssumption DEF Keepsakes!Check, Codes, Callable, KeepsakeTypes
  <1>1. CASE c.kind = "service"
    BY <1>1 DEF Keepsakes!Fence, Keepsakes!ServiceFence
  <1>2. CASE c.kind = "client"
    BY <1>2 DEF Keepsakes!Fence, Keepsakes!ClientFence
  <1>3. CASE c.kind = "controller"
    <2>1. Keepsakes!Fence(c) = Keepsakes!ControllerFence(c)
      BY <1>3 DEF Keepsakes!Fence
    <2>2. stack = [owner |-> c.owner, scenario |-> c.epoch] => Keepsakes!ActiveOwner = c.owner
      BY <1>3 DEF Keepsakes!ActiveOwner
    <2> QED
      BY <1>3, <2>1, <2>2 DEF Keepsakes!ControllerFence
  <1>4. CASE c.kind = "handle"
    BY <1>4 DEF Keepsakes!Fence
  <1> QED
    BY <1>1, <1>2, <1>3, <1>4

\* A refusal ends the run of whoever is at work.
LEMMA RefuseStep ==
    ASSUME KeepsakesInv, NEW c, Callable(c), NEW code \in Codes, Keepsakes!Refuse(c, code),
           UNCHANGED <<run, stack, lifecycle, process, scenarios>>
    PROVE  KeepsakesInv'
  <1>1. code # None /\ code # "done"
    BY KeepsakesAssumption DEF Codes
  <1>2. failure' \in Codes \cup {None} /\ (stack # None => failure' # None) /\ (failure # None => failure' # None)
       /\ (c.run = run => failure' # None)
    BY <1>1 DEF Keepsakes!Refuse, Keepsakes!Sealed, KeepsakesInv, KeepsakeTypes
  <1>3. last'.told # "done"
    BY <1>1, <1>2, KeepsakesAssumption DEF Keepsakes!Refuse, Codes
  <1>4. KeepsakeTypes'
    BY <1>2 DEF KeepsakesInv, KeepsakeTypes, Keepsakes!Refuse, Callable
  <1>5. Keepsakes!WorkLive'
    BY DEF KeepsakesInv, Keepsakes!Fenced, Keepsakes!WorkLive, Keepsakes!Refuse, Keepsakes!Epoch
  <1>6. Keepsakes!MisuseSeals'
    BY <1>2 DEF KeepsakesInv, Keepsakes!Fenced, Keepsakes!MisuseSeals, Keepsakes!Refuse
  <1> QED
    BY <1>3, <1>4, <1>5, <1>6 DEF KeepsakesInv, Keepsakes!Fenced, Keepsakes!ServedLive

\* A call that is served leaves what is kept and held in order.
LEMMA ServeStep ==
    ASSUME KeepsakesInv, NEW c, Callable(c), Keepsakes!Fence(c) = None, Keepsakes!Serve(c),
           UNCHANGED <<run, stack, lifecycle, process, scenarios>>,
           \A d \in kept' : Callable(d),
           \A x \in held' : x.owner \in Owners /\ x.run = run /\ x.epoch = Keepsakes!Epoch(x.owner)
    PROVE  KeepsakesInv'
  <1>1. KeepsakeTypes'
    BY DEF KeepsakesInv, KeepsakeTypes, Keepsakes!Serve, Callable
  <1>2. Keepsakes!WorkLive'
    BY DEF Keepsakes!WorkLive, Keepsakes!Epoch
  <1>3. Keepsakes!MisuseSeals'
    BY DEF KeepsakesInv, Keepsakes!Fenced, Keepsakes!MisuseSeals, Keepsakes!Serve
  <1>4. Keepsakes!ServedLive'
    BY FenceTells DEF KeepsakesInv, Keepsakes!ServedLive, Keepsakes!Serve, Keepsakes!ActiveOwner
  <1> QED
    BY <1>1, <1>2, <1>3, <1>4 DEF KeepsakesInv, Keepsakes!Fenced

LEMMA CallStep ==
    ASSUME KeepsakesInv, NEW c \in kept \cup Keepsakes!Given,
           Keepsakes!Use(c) \/ Keepsakes!Schedule(c) \/ Keepsakes!Cancel(c)
    PROVE  KeepsakesInv'
  <1>0. Callable(c)
    BY GivenCallable DEF KeepsakesInv
  <1>1. Keepsakes!Fence(c) \in Codes \cup {None}
    BY <1>0, FenceTells DEF KeepsakesInv
  <1>2. /\ \A d \in kept : Callable(d)
        /\ \A x \in held : x.owner \in Owners /\ x.run = run /\ x.epoch = Keepsakes!Epoch(x.owner)
    BY DEF KeepsakesInv, KeepsakeTypes, Keepsakes!Fenced, Keepsakes!WorkLive
  <1>3. CASE Keepsakes!Use(c)
    <2> USE <1>3 DEF Keepsakes!Use
    <2>1. CASE Keepsakes!Fence(c) # None /\ Keepsakes!Refuse(c, Keepsakes!Fence(c))
      BY <2>1, <1>0, <1>1, RefuseStep
    <2>2. CASE Keepsakes!Refuse(c, "HANDLER_FAILED")
      BY <2>2, <1>0, RefuseStep DEF Codes
    <2>3. CASE Keepsakes!Fence(c) = None /\ Keepsakes!Serve(c) /\ UNCHANGED <<kept, held>>
      <3>1. kept' = kept /\ held' = held
        BY <2>3
      <3> QED
        BY <2>3, <3>1, <1>0, <1>2, ServeStep
    <2> QED
      BY <2>1, <2>2, <2>3
  <1>4. CASE Keepsakes!Schedule(c)
    <2> USE <1>4 DEF Keepsakes!Schedule
    <2>1. CASE Keepsakes!Refuse(c, "INVALID_EVENT_TYPE")
      BY <2>1, <1>0, RefuseStep DEF Codes
    <2>2. CASE ~Keepsakes!Refuse(c, "INVALID_EVENT_TYPE")
      <3>1. c.kind = "service" /\ Keepsakes!Fence(c) = None /\ Keepsakes!Serve(c)
        BY <2>2
      <3>2. c.owner \in Services /\ c.epoch = process[c.owner]
        BY <3>1, <1>0, FenceTells DEF Callable, KeepsakesInv
      <3>3. Callable(Keepsakes!Capability("handle", c.owner, c.epoch))
        BY DEF Callable, Keepsakes!Capability
      <3>4. \A d \in kept' : Callable(d)
        BY <3>3, <1>2, <2>2 DEF Keepsakes!Kept
      <3>5. \A x \in held' : x.owner \in Owners /\ x.run = run /\ x.epoch = Keepsakes!Epoch(x.owner)
        BY <3>2, <1>2, <2>2 DEF Keepsakes!Capability, Keepsakes!Epoch, Owners
      <3> QED
        BY <3>1, <3>4, <3>5, <1>0, ServeStep
    <2> QED
      BY <2>1, <2>2
  <1>5. CASE Keepsakes!Cancel(c)
    <2> USE <1>5 DEF Keepsakes!Cancel
    <2>1. CASE Keepsakes!Fence(c) # None
      BY <2>1, <1>0, <1>1, RefuseStep
    <2>2. CASE Keepsakes!Fence(c) = None
      <3>1. kept' = kept /\ held' \subseteq held
        BY <2>2
      <3> QED
        BY <2>2, <3>1, <1>0, <1>2, ServeStep
    <2> QED
      BY <2>1, <2>2
  <1> QED
    BY <1>3, <1>4, <1>5

\* Nothing was called: what the other steps have to keep.
LEMMA QuietStep ==
    ASSUME KeepsakesInv, KeepsakeTypes', last' = Keepsakes!Quiet, misused' => misused /\ (failure # None => failure' # None),
           \A x \in held' : x.run = run' /\ x.epoch = Keepsakes!Epoch(x.owner)'
    PROVE  KeepsakesInv'
  <1>1. Keepsakes!ServedLive'
    BY DEF Keepsakes!ServedLive, Keepsakes!Called, Keepsakes!Quiet
  <1>2. Keepsakes!WorkLive'
    BY DEF Keepsakes!WorkLive
  <1>3. Keepsakes!MisuseSeals'
    BY DEF KeepsakesInv, Keepsakes!Fenced, Keepsakes!MisuseSeals
  <1> QED
    BY <1>1, <1>2, <1>3 DEF KeepsakesInv, Keepsakes!Fenced

LEMMA DispatchStep ==
    ASSUME KeepsakesInv,
           \/ \E o \in Keepsakes!Owners : Keepsakes!Handle(o)
           \/ \E x \in held : Keepsakes!Background(x) \/ Keepsakes!Advance(x)
           \/ \E c \in Clients : Keepsakes!Dispatch(c)
    PROVE  KeepsakesInv'
  <1>0. \A x \in held : x.owner \in Owners /\ x.run = run /\ x.epoch = Keepsakes!Epoch(x.owner)
    BY DEF KeepsakesInv, KeepsakeTypes, Keepsakes!Fenced, Keepsakes!WorkLive
  <1>1. /\ held' \subseteq held /\ last' = Keepsakes!Quiet
        /\ UNCHANGED <<run, failure, process, violated, kept, misused>>
    BY DEF Keepsakes!Handle, Keepsakes!Background, Keepsakes!Advance, Keepsakes!Dispatch
  <1>2. /\ scenarios' \in [Clients -> 0..MaxScenario]
        /\ stack' = stack \/ \E o \in Owners, n \in 0..MaxScenario :
              stack' = [owner |-> o, scenario |-> n] /\ (n # 0 => o \in Clients)
    <2>1. ASSUME NEW o \in Keepsakes!Owners, Keepsakes!Handle(o) PROVE <1>2
      BY <2>1, KeepsakesAssumption DEF Keepsakes!Handle, Keepsakes!Dispatching, Keepsakes!Owners, Owners, KeepsakesInv, KeepsakeTypes
    <2>2. ASSUME NEW x \in held, Keepsakes!Background(x) \/ Keepsakes!Advance(x) PROVE <1>2
      BY <2>2, <1>0, KeepsakesAssumption DEF Keepsakes!Background, Keepsakes!Advance, Keepsakes!Dispatching, KeepsakesInv, KeepsakeTypes
    <2>3. ASSUME NEW c \in Clients, Keepsakes!Dispatch(c) PROVE <1>2
      <3>1. scenarios[c] + 1 \in 0..MaxScenario
        BY <2>3, KeepsakesAssumption DEF Keepsakes!Dispatch, KeepsakesInv, KeepsakeTypes
      <3> QED
        BY <2>3, <3>1 DEF Keepsakes!Dispatch, Keepsakes!Dispatching, Owners, KeepsakesInv, KeepsakeTypes
    <2> QED
      BY <2>1, <2>2, <2>3
  <1>3. KeepsakeTypes'
    BY <1>0, <1>1, <1>2 DEF KeepsakesInv, KeepsakeTypes, Callable
  <1>4. \A x \in held' : x.run = run' /\ x.epoch = Keepsakes!Epoch(x.owner)'
    BY <1>0, <1>1 DEF Keepsakes!Epoch
  <1> QED
    BY <1>1, <1>3, <1>4, QuietStep

LEMMA TransitionStep ==
    ASSUME KeepsakesInv, NEW s \in Services, NEW state, Keepsakes!Transition(s, state)
    PROVE  KeepsakesInv'
  <1>0. \A x \in held : x.owner \in Owners /\ x.run = run /\ x.epoch = Keepsakes!Epoch(x.owner)
    BY DEF KeepsakesInv, KeepsakeTypes, Keepsakes!Fenced, Keepsakes!WorkLive
  <1>1. /\ held' \subseteq held /\ last' = Keepsakes!Quiet
        /\ UNCHANGED <<run, stack, scenarios, violated, kept, misused>>
        /\ failure' \in Codes \cup {None} /\ failure = None
        /\ DOMAIN process' = Services
    BY DEF Keepsakes!Transition, KeepsakesInv, KeepsakeTypes, Codes
  <1>2. KeepsakeTypes'
    BY <1>0, <1>1 DEF KeepsakesInv, KeepsakeTypes, Callable
  <1>3. process' = process \/ \A x \in held' : x.owner # s /\ \A o \in Services : o # s => process'[o] = process[o]
    BY DEF Keepsakes!Transition, KeepsakesInv, KeepsakeTypes
  <1>4. \A x \in held' : x.run = run' /\ x.epoch = Keepsakes!Epoch(x.owner)'
    BY <1>0, <1>1, <1>3 DEF Keepsakes!Epoch
  <1> QED
    BY <1>1, <1>2, <1>4, QuietStep

LEMMA FinishStep == ASSUME KeepsakesInv, Keepsakes!Finish PROVE KeepsakesInv'
  <1>0. \A x \in held : x.owner \in Owners /\ x.run = run /\ x.epoch = Keepsakes!Epoch(x.owner)
    BY DEF KeepsakesInv, KeepsakeTypes, Keepsakes!Fenced, Keepsakes!WorkLive
  <1>1. /\ last' = Keepsakes!Quiet /\ stack' = None /\ stack # None
        /\ UNCHANGED <<run, process, scenarios, violated, misused>>
        /\ failure' \in Codes \cup {None} /\ (failure # None => failure' # None)
    BY DEF Keepsakes!Finish, KeepsakesInv, KeepsakeTypes, Codes
  <1>2. \A c \in kept' : Callable(c)
    BY GivenCallable DEF Keepsakes!Finish, Keepsakes!Kept, KeepsakesInv
  <1>3. \A x \in held' : x.owner \in Owners /\ x.run = run /\ x.epoch = Keepsakes!Epoch(x.owner)
    <2>1. stack.owner \in Owners
      BY <1>1 DEF KeepsakesInv, KeepsakeTypes
    <2> QED
      BY <1>0, <2>1 DEF Keepsakes!Finish, Keepsakes!Capability
  <1>4. KeepsakeTypes'
    BY <1>1, <1>2, <1>3 DEF KeepsakesInv, KeepsakeTypes, Callable
  <1>5. \A x \in held' : x.run = run' /\ x.epoch = Keepsakes!Epoch(x.owner)'
    BY <1>1, <1>3 DEF Keepsakes!Epoch
  <1> QED
    BY <1>1, <1>4, <1>5, QuietStep

LEMMA ResetStep == ASSUME KeepsakesInv, Keepsakes!Reset PROVE KeepsakesInv'
  <1>1. /\ failure' = None /\ stack' = None /\ misused' = FALSE /\ last' = Keepsakes!Quiet /\ held' = {} /\ kept' = kept
        /\ DOMAIN process' = Services /\ scenarios' = [c \in Clients |-> 0]
    BY DEF Keepsakes!Reset
  <1>2. scenarios' \in [Clients -> 0..MaxScenario]
    BY <1>1, KeepsakesAssumption
  <1>3. KeepsakeTypes'
    BY <1>1, <1>2 DEF KeepsakesInv, KeepsakeTypes, Callable
  <1> QED
    BY <1>1, <1>3, QuietStep DEF KeepsakesInv

LEMMA KeepsakesStep == KeepsakesInv /\ [Keepsakes!Next]_capabilityVars => KeepsakesInv'
  <1> SUFFICES ASSUME KeepsakesInv, [Keepsakes!Next]_capabilityVars PROVE KeepsakesInv'
    OBVIOUS
  <1>1. CASE UNCHANGED capabilityVars
    BY <1>1 DEF capabilityVars, KeepsakesInv, KeepsakeTypes, Callable, Keepsakes!Fenced, Keepsakes!ServedLive,
      Keepsakes!WorkLive, Keepsakes!MisuseSeals, Keepsakes!Called, Keepsakes!Epoch, Keepsakes!ActiveOwner
  <1>2. CASE Keepsakes!Next
    BY <1>2, CallStep, DispatchStep, TransitionStep, FinishStep, ResetStep DEF Keepsakes!Next
  <1> QED
    BY <1>1, <1>2

-----------------------------------------------------------------------------
(* The history: what is told is a part of what is recorded                  *)

KernelTypes == {"created", "dispatched", "started", "completed", "simulation.completed", "event.failed", "failed"}
Notes == [type : STRING, source : STRING, target : STRING, entities : Seq(STRING)]
            \cup {Recorder!Kernel(type) : type \in KernelTypes}
Rows == {Recorder!RecordOf(o, n) : o \in Notes, n \in Nat \ {0}}
Audience == [kind : Kinds \cup {"quiet"}, active : BOOLEAN, from : Nat \ {0}]

\* A trail repeats the history r from the record with number n on.
Repeats(trail, r, n) ==
    /\ n + Len(trail) <= Len(r) + 1
    /\ \A i \in 1..Len(trail) : trail[i] = r[n + i - 1]

HistoryTypes ==
    /\ status \in {"READY", "PAUSED", "COMPLETED", "FAILED"}
    /\ records \in Seq(Rows) /\ Len(records) > 0 /\ \A i \in 1..Len(records) : records[i].seq = i
    /\ pending \in Seq(Rows) /\ batch \in Seq(Rows)
    /\ listeners \in Seq(Audience) /\ told \in Seq(Seq(Rows)) /\ Len(told) = Len(listeners)
    /\ next \in Nat \ {0} /\ delivering \in BOOLEAN /\ rejected \in BOOLEAN

\* What is to be told, or being told, is the end of the history; a flush takes
\* all there is to tell.
Flushing ==
    /\ delivering = (batch # <<>>)
    /\ delivering => pending = <<>>
    /\ Len(pending) < Len(records) + 1 /\ Repeats(pending, records, Len(records) - Len(pending) + 1)
    /\ Len(batch) < Len(records) + 1 /\ Repeats(batch, records, Len(records) - Len(batch) + 1)

\* The records that every listener was told.
ToldToAll == Len(records) - Len(pending) - Len(batch)

\* The last record a listener was told: while one is being told, those before
\* the next listener have had it.
Heard(x, trail, r, end) ==
    /\ Repeats(trail, r, x.from)
    /\ x.active => x.from + Len(trail) - 1 = end
LastTold(l) == IF delivering /\ l < next THEN ToldToAll + 1 ELSE ToldToAll
AllHeard == \A l \in 1..Len(listeners) : Heard(listeners[l], told[l], records, LastTold(l))

HistoryInv == HistoryTypes /\ Recorder!SealedHonestly /\ Flushing /\ AllHeard

LEMMA RowOf == \A o \in Notes, n \in Nat \ {0} :
    /\ Recorder!RecordOf(o, n) \in Rows
    /\ Recorder!RecordOf(o, n).seq = n /\ Recorder!RecordOf(o, n).type = o.type
  BY DEF Rows, Recorder!RecordOf

LEMMA NoteOf == \A type \in KernelTypes : Recorder!Kernel(type) \in Notes /\ Recorder!Kernel(type).type = type
  BY DEF Notes, Recorder!Kernel

LEMMA FirstRow == Recorder!Created \in Seq(Rows) /\ Len(Recorder!Created) = 1 /\ Recorder!Created[1].seq = 1
  <1>1. \A o \in Notes : Recorder!RecordOf(o, 1) \in Rows /\ Recorder!RecordOf(o, 1).seq = 1
    BY RowOf
  <1>2. Recorder!Kernel("created") \in Notes
    BY NoteOf DEF KernelTypes
  <1>3. Recorder!RecordOf(Recorder!Kernel("created"), 1) \in Rows /\ Recorder!RecordOf(Recorder!Kernel("created"), 1).seq = 1
    BY <1>1, <1>2
  <1> QED
    BY <1>3 DEF Recorder!Created

\* A trail that repeats a history is a part of it.
LEMMA RepeatsIsPart ==
    ASSUME NEW r \in Seq(Rows), NEW trail \in Seq(Rows), NEW n \in Nat \ {0}, Repeats(trail, r, n)
    PROVE  trail = SubSeq(r, n, n + Len(trail) - 1)
  <1> DEFINE m == n + Len(trail) - 1
             part_ == SubSeq(r, n, m)
  <1>1. /\ Len(trail) \in Nat /\ Len(r) \in Nat /\ m \in Int /\ m <= Len(r)
        /\ \A i \in n..m : r[i] \in Rows
    BY DEF Repeats
  <1>2. /\ part_ \in Seq(Rows)
        /\ Len(part_) = IF n <= m THEN m - n + 1 ELSE 0
        /\ \A i \in 1..m - n + 1 : part_[i] = r[n + i - 1]
    BY <1>1, SubSeqProperties
  <1> HIDE DEF part_
  <1>3. Len(part_) = Len(trail) /\ \A i \in 1..Len(trail) : part_[i] = trail[i]
    BY <1>1, <1>2 DEF Repeats
  <1>4. part_ = trail
    BY <1>2, <1>3
  <1> QED
    BY <1>4 DEF part_

\* What was told stays true of a longer history.
LEMMA RepeatsLonger ==
    ASSUME NEW r \in Seq(Rows), NEW more \in Seq(Rows), NEW trail \in Seq(Rows), NEW n \in Nat \ {0}, Repeats(trail, r, n)
    PROVE  Repeats(trail, r \o more, n)
  <1> DEFINE all == r \o more
  <1>1. Len(all) = Len(r) + Len(more) /\ \A i \in 1..Len(r) : all[i] = r[i]
    BY ConcatProperties
  <1>2. Len(r) \in Nat /\ Len(more) \in Nat /\ Len(trail) \in Nat
    OBVIOUS
  <1> HIDE DEF all
  <1>3. \A i \in 1..Len(trail) : n + i - 1 \in 1..Len(r)
    BY <1>2 DEF Repeats
  <1>4. n + Len(trail) <= Len(all) + 1
    BY <1>1, <1>2 DEF Repeats
  <1>5. \A i \in 1..Len(trail) : trail[i] = all[n + i - 1]
    BY <1>1, <1>3 DEF Repeats
  <1>6. Repeats(trail, all, n)
    BY <1>4, <1>5 DEF Repeats
  <1> QED
    BY <1>6 DEF all

LEMMA HistoryHolds ==
    HistoryInv => Recorder!ToldInOrder /\ Recorder!SealedHonestly
  <1> SUFFICES ASSUME HistoryInv, NEW l \in DOMAIN listeners
               PROVE  LET end == listeners[l].from + Len(told[l]) - 1 IN
                      /\ told[l] = SubSeq(records, listeners[l].from, end)
                      /\ listeners[l].active /\ ~delivering => end = Len(records) - Len(pending)
    BY DEF HistoryInv, Recorder!ToldInOrder
  <1>1. /\ listeners \in Seq(Audience) /\ told \in Seq(Seq(Rows)) /\ Len(told) = Len(listeners) /\ l \in 1..Len(listeners)
        /\ records \in Seq(Rows) /\ pending \in Seq(Rows)
    BY DEF HistoryInv, HistoryTypes
  <1>2. listeners[l] \in Audience /\ told[l] \in Seq(Rows)
    BY <1>1
  <1>3. listeners[l].from \in Nat \ {0}
    BY <1>2 DEF Audience
  <1>4. Heard(listeners[l], told[l], records, LastTold(l))
    BY <1>1 DEF HistoryInv, AllHeard
  <1>5. told[l] = SubSeq(records, listeners[l].from, listeners[l].from + Len(told[l]) - 1)
    BY <1>1, <1>2, <1>3, <1>4, RepeatsIsPart DEF Heard
  <1>6. ~delivering => LastTold(l) = Len(records) - Len(pending)
    <2>1. ~delivering => batch = <<>>
      BY DEF HistoryInv, Flushing
    <2>2. ~delivering => Len(batch) = 0
      BY <2>1
    <2> QED
      BY <1>1, <2>2 DEF LastTold, ToldToAll
  <1> QED
    BY <1>4, <1>5, <1>6 DEF Heard

-----------------------------------------------------------------------------
(* The history: a query finds what a reading of it would                    *)

LEMMA Least ==
    ASSUME NEW T \in SUBSET Nat, T # {}
    PROVE  \E x \in T : \A y \in T : x <= y
  <1> DEFINE R == OpToRel(<, Nat)
  <1>1. IsWellFoundedOn(R, Nat)
    BY NatLessThanWellFounded
  <1>2. \A x, y \in Nat : y < x => <<y, x>> \in R
    BY DEF OpToRel
  <1>3. T \subseteq Nat
    OBVIOUS
  <1> HIDE DEF R
  <1>4. PICK x \in T : \A y \in T : ~(<<y, x>> \in R)
    BY <1>1, <1>3, WFMin
  <1>5. \A y \in T : y \in Nat /\ x \in Nat /\ ~(y < x)
    BY <1>2, <1>4
  <1> QED
    BY <1>5

LEMMA Inductive ==
    ASSUME NEW T, 0 \in T, \A n \in Nat : n \in T => n + 1 \in T
    PROVE  Nat \subseteq T
  <1> SUFFICES ASSUME Nat \ T # {} PROVE FALSE
    OBVIOUS
  <1> DEFINE U == Nat \ T
  <1>1. U \in SUBSET Nat /\ U # {}
    OBVIOUS
  <1> HIDE DEF U
  <1>2. PICK x \in U : \A y \in U : x <= y
    BY <1>1, Least
  <1>3. x \in Nat /\ x \notin T
    BY DEF U
  <1>4. x # 0 /\ x - 1 \in Nat /\ (x - 1) + 1 = x /\ ~(x <= x - 1)
    BY <1>3
  <1>5. x - 1 \notin U
    BY <1>2, <1>4
  <1>6. x - 1 \in T
    BY <1>4, <1>5 DEF U
  <1> QED
    BY <1>3, <1>4, <1>6

\* What a query is gathered from: a piece for each record, empty or of one
\* record, in the order of their numbers.
Pieces(s) ==
    /\ s \in Seq(Seq(Rows))
    /\ \A i \in 1..Len(s) : Len(s[i]) < 2
    /\ \A i, j \in 1..Len(s) : i < j /\ Len(s[i]) = 1 /\ Len(s[j]) = 1 => s[i][1].seq < s[j][1].seq

\* The pieces up to n in their order.
Ascends(q) == \A i, j \in 1..Len(q) : i < j => q[i].seq < q[j].seq
Gathered(q, s, n) ==
    /\ q \in Seq(Rows) /\ Ascends(q)
    /\ \A k \in 1..Len(q) : \E i \in 1..n : Len(s[i]) = 1 /\ q[k] = s[i][1]
    /\ \A i \in 1..n : Len(s[i]) = 1 => \E k \in 1..Len(q) : q[k] = s[i][1]

LEMMA NumberOfRow == \A r \in Rows : r.seq \in Nat
  BY DEF Rows, Recorder!RecordOf

LEMMA GatheredNone == ASSUME NEW s PROVE Gathered(<<>>, s, 0)
  <1>1. Len(<<>>) = 0 /\ <<>> \in Seq(Rows) /\ 1..0 = {}
    OBVIOUS
  <1> QED BY <1>1 DEF Gathered, Ascends

LEMMA GatheredNext ==
  ASSUME NEW s, Pieces(s), NEW n \in Nat, n + 1 <= Len(s), NEW q, Gathered(q, s, n)
  PROVE Gathered(q \o s[n + 1], s, n + 1)
  <1>1. /\ s \in Seq(Seq(Rows)) /\ q \in Seq(Rows) /\ Len(q) \in Nat /\ Len(s) \in Nat /\ n + 1 \in 1..Len(s)
        /\ \A i \in 1..n : i \in 1..Len(s) /\ i < n + 1
        /\ \A i \in 1..(n + 1) : i \in 1..n \/ i = n + 1
    BY LenProperties DEF Pieces, Gathered
  <1>2. s[n + 1] \in Seq(Rows) /\ Len(s[n + 1]) \in Nat /\ Len(s[n + 1]) < 2
    BY <1>1, ElementOfSeq, LenProperties DEF Pieces
  <1>3. CASE Len(s[n + 1]) = 0
    <2>1. s[n + 1] = <<>>
      BY <1>2, <1>3, EmptySeq
    <2>2. q \o s[n + 1] = q
      BY <1>1, <2>1, ConcatEmptySeq
    <2>3. Len(s[n + 1]) # 1
      BY <1>3
    <2>4. \A k \in 1..Len(q) : \E i \in 1..(n + 1) : Len(s[i]) = 1 /\ q[k] = s[i][1]
      <3> SUFFICES ASSUME NEW k \in 1..Len(q) PROVE \E i \in 1..(n + 1) : Len(s[i]) = 1 /\ q[k] = s[i][1]
        OBVIOUS
      <3>1. PICK i \in 1..n : Len(s[i]) = 1 /\ q[k] = s[i][1]
        BY DEF Gathered
      <3> QED BY <3>1
    <2>5. \A i \in 1..(n + 1) : Len(s[i]) = 1 => \E k \in 1..Len(q) : q[k] = s[i][1]
      BY <1>1, <2>3 DEF Gathered
    <2>6. Ascends(q)
      BY DEF Gathered
    <2>7. Gathered(q, s, n + 1)
      BY <1>1, <2>4, <2>5, <2>6 DEF Gathered
    <2> QED BY <2>2, <2>7
  <1>4. CASE Len(s[n + 1]) = 1
    <2> DEFINE x == s[n + 1][1]
               p == q \o s[n + 1]
    <2>1. x \in Rows
      BY <1>2, <1>4, ElementOfSeq
    <2>2. p \in Seq(Rows) /\ Len(p) = Len(q) + 1 /\ (\A k \in 1..Len(q) : p[k] = q[k]) /\ p[Len(q) + 1] = x
      <3>1. /\ p \in Seq(Rows) /\ Len(p) = Len(q) + Len(s[n + 1])
            /\ \A k \in 1..(Len(q) + Len(s[n + 1])) : p[k] = IF k <= Len(q) THEN q[k] ELSE s[n + 1][k - Len(q)]
        BY <1>1, <1>2, ConcatProperties
      <3>2. Len(p) = Len(q) + 1 /\ \A k \in 1..(Len(q) + 1) : p[k] = IF k <= Len(q) THEN q[k] ELSE s[n + 1][k - Len(q)]
        BY <1>4, <3>1
      <3>3. p[Len(q) + 1] = s[n + 1][1]
        <4>1. Len(q) + 1 \in 1..(Len(q) + 1) /\ ~(Len(q) + 1 <= Len(q)) /\ (Len(q) + 1) - Len(q) = 1
          BY <1>1
        <4> HIDE DEF p
        <4> QED BY <3>2, <4>1
      <3>4. \A k \in 1..Len(q) : p[k] = q[k]
        <4> HIDE DEF p
        <4> QED BY <1>1, <3>2
      <3> QED BY <3>1, <3>2, <3>3, <3>4
    <2>3. \A k \in 1..Len(p) : k \in 1..Len(q) \/ k = Len(q) + 1
      <3>1. Len(p) = Len(q) + 1 /\ Len(q) \in Nat
        BY <1>1, <2>2
      <3>2. \A m \in Nat : \A k \in 1..(m + 1) : k \in 1..m \/ k = m + 1
        OBVIOUS
      <3> HIDE DEF p
      <3> QED BY <3>1, <3>2
    <2>4. \A k \in 1..Len(q) : q[k].seq < x.seq
      <3> SUFFICES ASSUME NEW k \in 1..Len(q) PROVE q[k].seq < x.seq
        OBVIOUS
      <3>1. PICK i \in 1..n : Len(s[i]) = 1 /\ q[k] = s[i][1]
        BY DEF Gathered
      <3> QED BY <1>1, <1>4, <3>1 DEF Pieces
    <2> HIDE DEF p, x
    <2>5. Ascends(p)
      <3> SUFFICES ASSUME NEW i \in 1..Len(p), NEW j \in 1..Len(p), i < j PROVE p[i].seq < p[j].seq
        BY DEF Ascends
      <3>1. i \in 1..Len(q)
        BY <1>1, <2>2
      <3>2. CASE j \in 1..Len(q)
        BY <2>2, <3>1, <3>2 DEF Gathered, Ascends
      <3>3. CASE j = Len(q) + 1
        BY <2>2, <2>4, <3>1, <3>3
      <3> QED BY <2>3, <3>2, <3>3
    <2>6. \A k \in 1..Len(p) : \E i \in 1..(n + 1) : Len(s[i]) = 1 /\ p[k] = s[i][1]
      <3> SUFFICES ASSUME NEW k \in 1..Len(p) PROVE \E i \in 1..(n + 1) : Len(s[i]) = 1 /\ p[k] = s[i][1]
        OBVIOUS
      <3>1. CASE k \in 1..Len(q)
        <4>1. PICK i \in 1..n : Len(s[i]) = 1 /\ q[k] = s[i][1]
          BY <3>1 DEF Gathered
        <4> QED BY <2>2, <3>1, <4>1
      <3>2. CASE k = Len(q) + 1
        BY <1>4, <2>2, <3>2 DEF x
      <3> QED BY <2>3, <3>1, <3>2
    <2>7. \A i \in 1..(n + 1) : Len(s[i]) = 1 => \E k \in 1..Len(p) : p[k] = s[i][1]
      <3> SUFFICES ASSUME NEW i \in 1..(n + 1), Len(s[i]) = 1 PROVE \E k \in 1..Len(p) : p[k] = s[i][1]
        OBVIOUS
      <3>1. CASE i \in 1..n
        <4>1. PICK k \in 1..Len(q) : q[k] = s[i][1]
          BY <3>1 DEF Gathered
        <4>2. k \in 1..Len(p)
          BY <1>1, <2>2
        <4> QED BY <2>2, <4>1, <4>2
      <3>2. CASE i = n + 1
        <4>1. Len(q) + 1 \in 1..Len(p)
          BY <1>1, <2>2
        <4> QED BY <2>2, <3>2, <4>1 DEF x
      <3> QED BY <1>1, <3>1, <3>2
    <2> QED BY <2>2, <2>5, <2>6, <2>7 DEF Gathered, p
  <1>5. Len(s[n + 1]) = 0 \/ Len(s[n + 1]) = 1
    <2>1. \A k \in Nat : k < 2 => k = 0 \/ k = 1
      OBVIOUS
    <2> QED BY <1>2, <2>1
  <1> QED BY <1>3, <1>4, <1>5

\* The function of InOrder is there, and has what was gathered.
Gathers(g, s, n) == g = [m \in 0..n |-> IF m = 0 THEN <<>> ELSE g[m - 1] \o s[m]]

LEMMA GatheringStep ==
  ASSUME NEW s, NEW n \in Nat, NEW g, Gathers(g, s, n)
  PROVE \E h : Gathers(h, s, n + 1)
  <1> DEFINE x == g[n] \o s[n + 1]
             h == [m \in 0..(n + 1) |-> IF m = n + 1 THEN x ELSE g[m]]
  <1>1. \A m \in 0..n : g[m] = IF m = 0 THEN <<>> ELSE g[m - 1] \o s[m]
    BY DEF Gathers
  <1>2. \A m \in 0..n : h[m] = g[m]
    OBVIOUS
  <1>3. h[n + 1] = x
    OBVIOUS
  <1>4. h[n + 1] = h[n] \o s[n + 1]
    BY <1>2, <1>3
  <1>5. \A m \in 0..n : m # 0 => m - 1 \in 0..n
    OBVIOUS
  <1>6. \A m \in 0..(n + 1) : h[m] = IF m = 0 THEN <<>> ELSE h[m - 1] \o s[m]
    <2> SUFFICES ASSUME NEW m \in 0..(n + 1) PROVE h[m] = IF m = 0 THEN <<>> ELSE h[m - 1] \o s[m]
      OBVIOUS
    <2> HIDE DEF h
    <2>1. CASE m \in 0..n
      BY <1>1, <1>2, <1>5, <2>1
    <2>2. CASE m = n + 1
      <3>1. m - 1 = n /\ m # 0
        BY <2>2
      <3> QED BY <1>4, <2>2, <3>1
    <2> QED BY <2>1, <2>2
  <1>7. h = [m \in 0..(n + 1) |-> h[m]]
    OBVIOUS
  <1> HIDE DEF h
  <1>8. Gathers(h, s, n + 1)
    BY <1>6, <1>7 DEF Gathers
  <1> QED BY <1>8

LEMMA GatheringThere == ASSUME NEW s, NEW n \in Nat PROVE \E g : Gathers(g, s, n)
  <1> DEFINE T == {k \in Nat : \E g : Gathers(g, s, k)}
  <1>1. 0 \in T
    <2> DEFINE g == [m \in 0..0 |-> <<>>]
    <2>1. g = [m \in 0..0 |-> IF m = 0 THEN <<>> ELSE g[m - 1] \o s[m]]
      OBVIOUS
    <2> HIDE DEF g
    <2> QED BY <2>1 DEF Gathers
  <1>2. \A k \in Nat : k \in T => k + 1 \in T
    BY GatheringStep
  <1> HIDE DEF T
  <1>3. Nat \subseteq T
    BY <1>1, <1>2, Inductive
  <1> QED BY <1>3 DEF T

LEMMA InOrderGathers == ASSUME NEW s, Pieces(s) PROVE Gathered(Recorder!InOrder(s), s, Len(s))
  <1> DEFINE f == CHOOSE f : f = [n \in 0..Len(s) |-> IF n = 0 THEN <<>> ELSE f[n - 1] \o s[n]]
             T == {n \in Nat : n <= Len(s) => Gathered(f[n], s, n)}
  <1>1. Len(s) \in Nat
    BY LenProperties DEF Pieces
  <1>2. f = [n \in 0..Len(s) |-> IF n = 0 THEN <<>> ELSE f[n - 1] \o s[n]]
    BY <1>1, GatheringThere DEF Gathers
  <1>3. Recorder!InOrder(s) = f[Len(s)]
    BY DEF Recorder!InOrder
  <1> HIDE DEF f
  <1>4. 0 \in T
    <2>1. f[0] = <<>>
      BY <1>1, <1>2
    <2> QED BY <2>1, GatheredNone
  <1>5. \A n \in Nat : n \in T => n + 1 \in T
    <2> SUFFICES ASSUME NEW n \in Nat, n \in T, n + 1 <= Len(s) PROVE Gathered(f[n + 1], s, n + 1)
      OBVIOUS
    <2>1. Gathered(f[n], s, n)
      BY <1>1
    <2>2. f[n + 1] = f[n] \o s[n + 1]
      <3>1. n + 1 \in 0..Len(s) /\ n + 1 # 0 /\ (n + 1) - 1 = n
        BY <1>1
      <3> QED BY <1>2, <3>1
    <2> QED BY <2>1, <2>2, GatheredNext
  <1> HIDE DEF T
  <1>6. Len(s) \in T
    BY <1>1, <1>4, <1>5, Inductive
  <1> QED BY <1>1, <1>3, <1>6 DEF T

\* What a query is made of: the records of some places of a list, in its order.
Selection(q, all, I) ==
    /\ q \in Seq(Rows) /\ Ascends(q)
    /\ \A k \in 1..Len(q) : \E i \in I : q[k] = all[i]
    /\ \A i \in I : \E k \in 1..Len(q) : q[k] = all[i]
Sifted(s, all, I) == s = [i \in 1..Len(all) |-> IF i \in I THEN <<all[i]>> ELSE <<>>]

LEMMA SiftedSelects ==
  ASSUME NEW all \in Seq(Rows), Ascends(all), NEW I \in SUBSET (1..Len(all)), NEW s, Sifted(s, all, I)
  PROVE Selection(Recorder!InOrder(s), all, I)
  <1>1. Len(all) \in Nat /\ \A i \in 1..Len(all) : all[i] \in Rows
    BY ElementOfSeq
  <1>2. DOMAIN s = 1..Len(all) /\ \A i \in 1..Len(all) : s[i] = IF i \in I THEN <<all[i]>> ELSE <<>>
    BY DEF Sifted
  <1>3. \A i \in 1..Len(all) : s[i] \in Seq(Rows) /\ Len(s[i]) = (IF i \in I THEN 1 ELSE 0) /\ (i \in I => s[i][1] = all[i])
    <2> SUFFICES ASSUME NEW i \in 1..Len(all)
                 PROVE s[i] \in Seq(Rows) /\ Len(s[i]) = (IF i \in I THEN 1 ELSE 0) /\ (i \in I => s[i][1] = all[i])
      OBVIOUS
    <2>1. CASE i \in I
      <3>1. s[i] = <<all[i]>> /\ all[i] \in Rows
        BY <1>1, <1>2, <2>1
      <3> QED BY <2>1, <3>1
    <2>2. CASE i \notin I
      <3>1. s[i] = <<>> /\ <<>> \in Seq(Rows) /\ Len(<<>>) = 0
        BY <1>2, <2>2
      <3> QED BY <2>2, <3>1
    <2> QED BY <2>1, <2>2
  <1>4. s \in Seq(Seq(Rows)) /\ Len(s) = Len(all)
    <2>1. s \in [1..Len(all) -> Seq(Rows)]
      <3>1. s = [i \in 1..Len(all) |-> s[i]]
        BY <1>2 DEF Sifted
      <3> QED BY <1>3, <3>1, Zenon
    <2>2. s \in Seq(Seq(Rows))
      BY <1>1, <2>1, SeqDef
    <2> QED BY <1>1, <1>2, <2>2, LenProperties
  <1>5. Pieces(s)
    <2>1. \A i \in 1..Len(s) : Len(s[i]) < 2
      BY <1>3, <1>4
    <2>2. \A i, j \in 1..Len(s) : i < j /\ Len(s[i]) = 1 /\ Len(s[j]) = 1 => s[i][1].seq < s[j][1].seq
      <3> SUFFICES ASSUME NEW i \in 1..Len(s), NEW j \in 1..Len(s), i < j, Len(s[i]) = 1, Len(s[j]) = 1
                   PROVE s[i][1].seq < s[j][1].seq
        OBVIOUS
      <3>1. i \in I /\ j \in I
        <4>1. i \in 1..Len(all) /\ j \in 1..Len(all) /\ (IF i \in I THEN 1 ELSE 0) = 1 /\ (IF j \in I THEN 1 ELSE 0) = 1
          BY <1>3, <1>4
        <4> QED BY <4>1
      <3>2. s[i][1] = all[i] /\ s[j][1] = all[j]
        BY <1>3, <1>4, <3>1
      <3> QED BY <1>4, <3>2 DEF Ascends
    <2> QED BY <1>4, <2>1, <2>2 DEF Pieces
  <1> DEFINE q == Recorder!InOrder(s)
  <1>6. Gathered(q, s, Len(s))
    BY <1>5, InOrderGathers
  <1> HIDE DEF q
  <1>7. \A k \in 1..Len(q) : \E i \in I : q[k] = all[i]
    <2> SUFFICES ASSUME NEW k \in 1..Len(q) PROVE \E i \in I : q[k] = all[i]
      OBVIOUS
    <2>1. PICK i \in 1..Len(s) : Len(s[i]) = 1 /\ q[k] = s[i][1]
      BY <1>6 DEF Gathered
    <2>2. i \in I
      BY <1>3, <1>4, <2>1
    <2> QED BY <1>3, <1>4, <2>1, <2>2
  <1>8. \A i \in I : \E k \in 1..Len(q) : q[k] = all[i]
    <2> SUFFICES ASSUME NEW i \in I PROVE \E k \in 1..Len(q) : q[k] = all[i]
      OBVIOUS
    <2>1. i \in 1..Len(s) /\ Len(s[i]) = 1 /\ s[i][1] = all[i]
      BY <1>3, <1>4
    <2> QED BY <1>6, <2>1 DEF Gathered
  <1>9. q \in Seq(Rows) /\ Ascends(q)
    BY <1>6 DEF Gathered
  <1>10. Selection(q, all, I)
    BY <1>7, <1>8, <1>9 DEF Selection
  <1> QED BY <1>10 DEF q

\* The records as they are in a history.
Told(rs) == rs \in Seq(Rows) /\ \A i \in 1..Len(rs) : rs[i].seq = i

LEMMA ToldAscends == ASSUME NEW rs, Told(rs) PROVE Ascends(rs)
  BY DEF Told, Ascends

\* While each record names a component and an entity once, an index has one
\* entry of a record, or none.
Once(rs) == \A i \in 1..Len(rs) : rs[i].source # rs[i].target /\ Recorder!IsInjective(rs[i].entities)

LEMMA ComponentOnce ==
  ASSUME NEW r, NEW c, r.source # r.target
  PROVE Recorder!ComponentEntries(r, c) = IF c \in {r.source, r.target} THEN <<r>> ELSE <<>>
  <1>1. <<r>> \in Seq({r}) /\ <<>> \in Seq({r})
    OBVIOUS
  <1>2. <<r>> \o <<>> = <<r>> /\ <<>> \o <<r>> = <<r>> /\ <<>> \o <<>> = <<>>
    BY <1>1, ConcatEmptySeq
  <1>3. CASE r.source = c
    BY <1>2, <1>3 DEF Recorder!ComponentEntries
  <1>4. CASE r.target = c
    BY <1>2, <1>4 DEF Recorder!ComponentEntries
  <1>5. CASE c \notin {r.source, r.target}
    BY <1>2, <1>5 DEF Recorder!ComponentEntries
  <1> QED BY <1>3, <1>4, <1>5

LEMMA RecorderCardinality == \A S : Recorder!Cardinality(S) = Cardinality(S)
  BY DEF Recorder!Cardinality, Cardinality

LEMMA EntityOnce ==
  ASSUME NEW r, NEW e, Recorder!IsInjective(r.entities)
  PROVE Recorder!EntityEntries(r, e) = IF \E i \in DOMAIN r.entities : r.entities[i] = e THEN <<r>> ELSE <<>>
  <1> DEFINE named == {i \in DOMAIN r.entities : r.entities[i] = e}
  <1>0. Recorder!EntityEntries(r, e) = [k \in 1..Cardinality(named) |-> r]
    BY RecorderCardinality DEF Recorder!EntityEntries
  <1>1. \A i, j \in named : i = j
    BY DEF Recorder!IsInjective
  <1>2. CASE named = {}
    <2>1. Cardinality(named) = 0
      BY <1>2, FS_EmptySet
    <2>2. Recorder!EntityEntries(r, e) = [k \in 1..0 |-> r]
      BY <1>0, <2>1
    <2>3. [k \in 1..0 |-> r] = <<>>
      OBVIOUS
    <2> QED BY <1>2, <2>2, <2>3
  <1>3. CASE named # {}
    <2>1. PICK i \in named : TRUE
      BY <1>3
    <2>2. named = {i}
      BY <1>1, <2>1
    <2>3. Cardinality(named) = 1
      BY <2>2, FS_Singleton
    <2>4. Recorder!EntityEntries(r, e) = [k \in 1..1 |-> r]
      BY <1>0, <2>3
    <2>5. [k \in 1..1 |-> r] = <<r>>
      OBVIOUS
    <2>6. \E j \in DOMAIN r.entities : r.entities[j] = e
      BY <2>1
    <2> QED BY <2>4, <2>5, <2>6
  <1> QED BY <1>2, <1>3

\* The function an index or a query is put in order from.
LEMMA TypeSifted ==
  ASSUME Told(records), NEW t
  PROVE Selection(Recorder!ByType(t), records, {i \in 1..Len(records) : records[i].type = t})
  <1> DEFINE I == {i \in 1..Len(records) : records[i].type = t}
             s == [i \in DOMAIN records |-> Recorder!TypeEntries(records[i], t)]
  <1>1. records \in Seq(Rows) /\ DOMAIN records = 1..Len(records) /\ Ascends(records)
    BY ToldAscends, LenProperties DEF Told
  <1>2. s = [i \in 1..Len(records) |-> IF i \in I THEN <<records[i]>> ELSE <<>>]
    BY <1>1 DEF Recorder!TypeEntries
  <1>3. Sifted(s, records, I) /\ I \in SUBSET (1..Len(records))
    BY <1>2 DEF Sifted
  <1>4. Recorder!ByType(t) = Recorder!InOrder(s)
    BY DEF Recorder!ByType
  <1> HIDE DEF s, I
  <1>5. Selection(Recorder!InOrder(s), records, I)
    BY <1>1, <1>3, SiftedSelects
  <1> QED BY <1>4, <1>5 DEF I

LEMMA ComponentSifted ==
  ASSUME Told(records), Once(records), NEW c
  PROVE Selection(Recorder!ByComponent(c), records, {i \in 1..Len(records) : c \in {records[i].source, records[i].target}})
  <1> DEFINE I == {i \in 1..Len(records) : c \in {records[i].source, records[i].target}}
             s == [i \in DOMAIN records |-> Recorder!ComponentEntries(records[i], c)]
  <1>1. records \in Seq(Rows) /\ DOMAIN records = 1..Len(records) /\ Ascends(records)
    BY ToldAscends, LenProperties DEF Told
  <1>2. \A i \in 1..Len(records) : Recorder!ComponentEntries(records[i], c) = IF i \in I THEN <<records[i]>> ELSE <<>>
    BY ComponentOnce DEF Once
  <1>3. s = [i \in 1..Len(records) |-> IF i \in I THEN <<records[i]>> ELSE <<>>]
    <2> HIDE DEF I
    <2> QED BY <1>1, <1>2
  <1>4. Sifted(s, records, I) /\ I \in SUBSET (1..Len(records))
    BY <1>3 DEF Sifted
  <1>5. Recorder!ByComponent(c) = Recorder!InOrder(s)
    BY DEF Recorder!ByComponent
  <1> HIDE DEF s, I
  <1>6. Selection(Recorder!InOrder(s), records, I)
    BY <1>1, <1>4, SiftedSelects
  <1> QED BY <1>5, <1>6 DEF I

LEMMA EntitySifted ==
  ASSUME Told(records), Once(records), NEW e
  PROVE Selection(Recorder!ByEntity(e), records, {i \in 1..Len(records) : \E k \in DOMAIN records[i].entities : records[i].entities[k] = e})
  <1> DEFINE I == {i \in 1..Len(records) : \E k \in DOMAIN records[i].entities : records[i].entities[k] = e}
             s == [i \in DOMAIN records |-> Recorder!EntityEntries(records[i], e)]
  <1>1. records \in Seq(Rows) /\ DOMAIN records = 1..Len(records) /\ Ascends(records)
    BY ToldAscends, LenProperties DEF Told
  <1>2. \A i \in 1..Len(records) : Recorder!EntityEntries(records[i], e) = IF i \in I THEN <<records[i]>> ELSE <<>>
    BY EntityOnce DEF Once
  <1>3. s = [i \in 1..Len(records) |-> IF i \in I THEN <<records[i]>> ELSE <<>>]
    <2> HIDE DEF I
    <2> QED BY <1>1, <1>2
  <1>4. Sifted(s, records, I) /\ I \in SUBSET (1..Len(records))
    BY <1>3 DEF Sifted
  <1>5. Recorder!ByEntity(e) = Recorder!InOrder(s)
    BY DEF Recorder!ByEntity
  <1> HIDE DEF s, I
  <1>6. Selection(Recorder!InOrder(s), records, I)
    BY <1>1, <1>4, SiftedSelects
  <1> QED BY <1>5, <1>6 DEF I

\* All records are a selection of themselves.
LEMMA AllSelected == ASSUME Told(records) PROVE Selection(records, records, 1..Len(records))
  BY ToldAscends DEF Told, Selection

\* Whichever list a query reads, it has every record that matches.
LEMMA CandidatesSelected ==
  ASSUME Told(records), Once(records), NEW f
  PROVE \E I \in SUBSET (1..Len(records)) :
            /\ Selection(Recorder!Candidates(f), records, I)
            /\ \A i \in 1..Len(records) : Recorder!Matches(records[i], f) => i \in I
  <1>1. CASE Recorder!Indexed(f) = <<>>
    BY <1>1, AllSelected DEF Recorder!Candidates
  <1>2. CASE Recorder!Indexed(f) # <<>>
    <2>1. Recorder!Candidates(f) = Recorder!Indexed(f)
      BY <1>2 DEF Recorder!Candidates
    <2>2. CASE f.type # "any"
      <3> DEFINE I == {i \in 1..Len(records) : records[i].type = f.type}
      <3>1. Selection(Recorder!Indexed(f), records, I)
        BY <2>2, TypeSifted DEF Recorder!Indexed
      <3>2. \A i \in 1..Len(records) : Recorder!Matches(records[i], f) => i \in I
        BY <2>2 DEF Recorder!Matches
      <3> QED BY <2>1, <3>1, <3>2
    <2>3. CASE f.type = "any" /\ f.component # "any"
      <3> DEFINE I == {i \in 1..Len(records) : f.component \in {records[i].source, records[i].target}}
      <3>1. Selection(Recorder!Indexed(f), records, I)
        BY <2>3, ComponentSifted DEF Recorder!Indexed
      <3>2. \A i \in 1..Len(records) : Recorder!Matches(records[i], f) => i \in I
        BY <2>3 DEF Recorder!Matches
      <3> QED BY <2>1, <3>1, <3>2
    <2>4. CASE f.type = "any" /\ f.component = "any" /\ f.entity # "any"
      <3> DEFINE I == {i \in 1..Len(records) : \E k \in DOMAIN records[i].entities : records[i].entities[k] = f.entity}
      <3>1. Selection(Recorder!Indexed(f), records, I)
        BY <2>4, EntitySifted DEF Recorder!Indexed
      <3>2. \A i \in 1..Len(records) : Recorder!Matches(records[i], f) => i \in I
        BY <2>4 DEF Recorder!Matches
      <3> QED BY <2>1, <3>1, <3>2
    <2>5. CASE f.type = "any" /\ f.component = "any" /\ f.entity = "any"
      BY <1>2, <2>5 DEF Recorder!Indexed
    <2> QED BY <2>2, <2>3, <2>4, <2>5
  <1> QED BY <1>1, <1>2

\* What a query finds: the records that match, in their order.
Finds(found, f) ==
    /\ found \in Seq(Rows) /\ Ascends(found)
    /\ \A r : (\E k \in 1..Len(found) : found[k] = r) <=> (\E i \in 1..Len(records) : records[i] = r /\ Recorder!Matches(r, f))

LEMMA QueryFinds ==
  ASSUME Told(records), Once(records), NEW f, NEW found, found = Recorder!Query(f)
  PROVE Finds(found, f)
  <1> DEFINE all == Recorder!Candidates(f)
             K == {k \in 1..Len(all) : Recorder!Matches(all[k], f)}
             s == [k \in DOMAIN all |-> Recorder!Kept(all[k], f)]
  <1>1. PICK I \in SUBSET (1..Len(records)) :
            /\ Selection(all, records, I)
            /\ \A i \in 1..Len(records) : Recorder!Matches(records[i], f) => i \in I
    BY CandidatesSelected
  <1>2. /\ all \in Seq(Rows) /\ Ascends(all)
        /\ \A k \in 1..Len(all) : \E i \in I : all[k] = records[i]
        /\ \A i \in I : \E k \in 1..Len(all) : all[k] = records[i]
    BY <1>1 DEF Selection
  <1>3. found = Recorder!InOrder(s)
    BY DEF Recorder!Query
  <1> HIDE DEF all
  <1>4. DOMAIN all = 1..Len(all)
    BY <1>2, LenProperties
  <1>5. s = [k \in 1..Len(all) |-> IF k \in K THEN <<all[k]>> ELSE <<>>]
    BY <1>4 DEF Recorder!Kept
  <1>6. Sifted(s, all, K) /\ K \in SUBSET (1..Len(all))
    BY <1>5 DEF Sifted
  <1> HIDE DEF s
  <1>7. Selection(found, all, K)
    <2> HIDE DEF K
    <2> QED BY <1>2, <1>3, <1>6, SiftedSelects
  <1>8. /\ found \in Seq(Rows) /\ Ascends(found)
        /\ \A k \in 1..Len(found) : \E i \in K : found[k] = all[i]
        /\ \A i \in K : \E k \in 1..Len(found) : found[k] = all[i]
    BY <1>7 DEF Selection
  <1>9. ASSUME NEW r, NEW k \in 1..Len(found), found[k] = r
        PROVE \E i \in 1..Len(records) : records[i] = r /\ Recorder!Matches(r, f)
    <2>1. PICK j \in K : found[k] = all[j]
      BY <1>8
    <2>2. PICK i \in I : all[j] = records[i]
      BY <1>2, <2>1
    <2> QED BY <1>9, <2>1, <2>2
  <1>10. ASSUME NEW r, NEW i \in 1..Len(records), records[i] = r, Recorder!Matches(r, f)
         PROVE \E k \in 1..Len(found) : found[k] = r
    <2>1. PICK j \in 1..Len(all) : all[j] = records[i]
      BY <1>1, <1>2, <1>10
    <2>2. j \in K
      BY <1>10, <2>1
    <2> QED BY <1>8, <1>10, <2>1, <2>2
  <1> QED BY <1>8, <1>9, <1>10 DEF Finds

LEMMA QueriesLinear == ASSUME HistoryTypes PROVE Recorder!QueryIsLinear
  <1>1. Told(records)
    BY DEF HistoryTypes, Told
  <1>2. DOMAIN records = 1..Len(records)
    BY <1>1, LenProperties DEF Told
  <1> SUFFICES ASSUME \A r \in Recorder!ToSet(records) : r.source # r.target /\ Recorder!IsInjective(r.entities),
                      NEW f \in Recorder!Filters, NEW found, found = Recorder!Query(f)
               PROVE /\ Recorder!ToSet(found) = {r \in Recorder!ToSet(records) : Recorder!Matches(r, f)}
                     /\ \A i, j \in DOMAIN found : i < j => found[i].seq < found[j].seq
    BY DEF Recorder!QueryIsLinear
  <1>3. Once(records)
    BY <1>2 DEF Once, Recorder!ToSet
  <1>4. /\ found \in Seq(Rows) /\ Ascends(found)
        /\ \A r : (\E k \in 1..Len(found) : found[k] = r) <=> (\E i \in 1..Len(records) : records[i] = r /\ Recorder!Matches(r, f))
    <2>1. Finds(found, f)
      BY <1>1, <1>3, QueryFinds
    <2> QED BY <2>1 DEF Finds
  <1>5. DOMAIN found = 1..Len(found)
    BY <1>4, LenProperties
  <1>6. \A r : r \in Recorder!ToSet(found) <=> \E k \in 1..Len(found) : found[k] = r
    BY <1>5 DEF Recorder!ToSet
  <1>7. \A r : r \in Recorder!ToSet(records) <=> \E i \in 1..Len(records) : records[i] = r
    BY <1>2 DEF Recorder!ToSet
  <1>8. Recorder!ToSet(found) = {r \in Recorder!ToSet(records) : Recorder!Matches(r, f)}
    BY <1>4, <1>6, <1>7
  <1> QED BY <1>4, <1>5, <1>8 DEF Ascends

-----------------------------------------------------------------------------
(* The history: what a step leaves told                                      *)

\* What an event adds to the history is what fits of what it has to record; that
\* is nothing while listeners are being told.
Fitted(more, all) ==
    /\ more \in Seq(Rows)
    /\ Len(more) = IF Len(all) < Recorder!Room THEN Len(all) ELSE Recorder!Room
    /\ Len(records) + Len(more) <= Limit
    /\ delivering => more = <<>>
    /\ \A i \in 1..Len(more) : more[i].seq = Len(records) + i /\ more[i].type = all[i].type

LEMMA NumberedFits ==
    ASSUME HistoryInv, NEW all \in Seq(Notes)
    PROVE  Fitted(Recorder!Numbered(Recorder!Fitting(all)), all)
  <1> DEFINE k == IF Len(all) < Recorder!Room THEN Len(all) ELSE Recorder!Room
             fit == SubSeq(all, 1, k)
             more == Recorder!Numbered(fit)
  <1>1. Len(all) \in Nat /\ Len(records) \in Nat /\ Limit \in Nat /\ Len(records) <= Limit
    BY HistoryAssumption DEF HistoryInv, HistoryTypes, Recorder!SealedHonestly
  <1>2. Recorder!Room \in Nat /\ (delivering => Recorder!Room = 0) /\ Len(records) + Recorder!Room <= Limit
    BY <1>1 DEF Recorder!Room
  <1>4. k \in Nat /\ k <= Len(all) /\ (delivering => k = 0) /\ Len(records) + k <= Limit
    BY <1>1, <1>2
  <1>5. fit \in Seq(Notes) /\ Len(fit) = k /\ \A i \in 1..k : fit[i] = all[i]
    <2>1. \A i \in 1..k : all[i] \in Notes
      BY <1>1, <1>4
    <2>2. k \in Int /\ 1 \in Int
      BY <1>4
    <2> HIDE DEF k
    <2>3. /\ SubSeq(all, 1, k) \in Seq(Notes)
          /\ Len(SubSeq(all, 1, k)) = IF 1 <= k THEN k - 1 + 1 ELSE 0
          /\ \A i \in 1..k - 1 + 1 : SubSeq(all, 1, k)[i] = all[1 + i - 1]
      BY <2>1, <2>2, SubSeqProperties
    <2>4. \A i \in 1..k : 1 + i - 1 = i
      BY <2>2
    <2> HIDE DEF fit
    <2> QED
      BY <1>4, <2>3, <2>4 DEF fit
  <1>6. Recorder!Fitting(all) = fit
    BY DEF Recorder!Fitting
  <1>8. Len(fit) = IF Len(all) < Recorder!Room THEN Len(all) ELSE Recorder!Room
    BY <1>5
  <1> HIDE DEF fit, k
  <1>7. more \in Seq(Rows) /\ Len(more) = k /\ \A i \in 1..k : more[i].seq = Len(records) + i /\ more[i].type = all[i].type
    <2>1. DOMAIN fit = 1..k
      BY <1>4, <1>5
    <2>2. \A i \in 1..k : /\ Recorder!RecordOf(fit[i], Len(records) + i) \in Rows
                          /\ Recorder!RecordOf(fit[i], Len(records) + i).seq = Len(records) + i
                          /\ Recorder!RecordOf(fit[i], Len(records) + i).type = all[i].type
      <3> SUFFICES ASSUME NEW i \in 1..k
                   PROVE  /\ Recorder!RecordOf(fit[i], Len(records) + i) \in Rows
                          /\ Recorder!RecordOf(fit[i], Len(records) + i).seq = Len(records) + i
                          /\ Recorder!RecordOf(fit[i], Len(records) + i).type = all[i].type
        OBVIOUS
      <3>1. fit[i] \in Notes /\ fit[i] = all[i]
        BY <1>4, <1>5
      <3>2. Len(records) + i \in Nat \ {0}
        BY <1>1, <1>4
      <3> QED
        BY <3>1, <3>2, RowOf
    <2>3. more = [i \in 1..k |-> Recorder!RecordOf(fit[i], Len(records) + i)]
      BY <2>1 DEF Recorder!Numbered
    <2> HIDE DEF more
    <2> QED
      BY <1>4, <2>2, <2>3
  <1> HIDE DEF more
  <1>9. delivering => more = <<>>
    BY <1>4, <1>7
  <1>10. Fitted(more, all)
    BY <1>4, <1>5, <1>7, <1>8, <1>9 DEF Fitted
  <1> QED
    BY <1>6, <1>10 DEF more

LEMMA OneOrTheOther == \A b \in BOOLEAN : (<<b>> = <<TRUE>> => b) /\ (~b => <<b>> = <<FALSE>>) /\ <<b>> # <<>>
  OBVIOUS

LEMMA FailingNotes ==
    /\ Recorder!Failing \in Seq(Notes) /\ Len(Recorder!Failing) = 2
    /\ Recorder!Failing[1].type = "event.failed" /\ Recorder!Failing[2].type = "failed"
  <1>1. /\ Recorder!Kernel("event.failed") \in Notes /\ Recorder!Kernel("failed") \in Notes
        /\ Recorder!Kernel("event.failed").type = "event.failed" /\ Recorder!Kernel("failed").type = "failed"
    BY NoteOf DEF KernelTypes
  <1> QED
    BY <1>1 DEF Recorder!Failing

\* A run that records all it has to, and does not fail, stays open; any other
\* event ends and seals it.
LEMMA RecordedSeals ==
    ASSUME HistoryInv, status # "FAILED", NEW inputs \in Seq(Notes), NEW fails, fails \in {<<>>, Recorder!Failing},
           Recorder!Recorded(inputs, fails)
    PROVE  Recorder!SealedHonestly' /\ rejected' \in BOOLEAN /\ status' \in {"READY", "PAUSED", "COMPLETED", "FAILED"}
  <1> DEFINE all == inputs \o fails
             more == Recorder!Numbered(Recorder!Fitting(all))
  <1>1. fails \in Seq(Notes) /\ (fails = <<>> => Len(fails) = 0) /\ (fails # <<>> => fails = Recorder!Failing /\ Len(fails) = 2)
    <2>1. CASE fails = <<>>
      <3>1. <<>> \in Seq(Notes) /\ Len(<<>>) = 0
        OBVIOUS
      <3> QED
        BY <2>1, <3>1
    <2>2. CASE fails = Recorder!Failing
      <3>1. fails # <<>>
        BY <2>2, FailingNotes
      <3> QED
        BY <2>2, <3>1, FailingNotes
    <2> QED
      BY <2>1, <2>2
  <1>2. all \in Seq(Notes) /\ Len(all) = Len(inputs) + Len(fails) /\ \A i \in 1..Len(fails) : all[Len(inputs) + i] = fails[i]
    BY <1>1, ConcatProperties
  <1>3. Fitted(more, all)
    BY <1>2, NumberedFits
  <1>4. sealed = <<>> /\ rejected = FALSE
    <2>1. sealed = <<>>
      BY DEF HistoryInv, Recorder!SealedHonestly
    <2>2. rejected => sealed = <<FALSE>>
      BY DEF HistoryInv, Recorder!SealedHonestly
    <2>3. rejected \in BOOLEAN
      BY DEF HistoryInv, HistoryTypes
    <2> QED
      BY <2>1, <2>2, <2>3, OneOrTheOther
  <1>5. /\ records' = records \o more
        /\ rejected' = (rejected \/ Len(more) < Len(all))
        /\ IF fails = <<>> /\ Len(more) = Len(inputs)
           THEN status' = (IF left' = 0 THEN "COMPLETED" ELSE "PAUSED") /\ UNCHANGED sealed
           ELSE status' = "FAILED" /\ sealed' = <<Recorder!Complete(inputs, fails)>>
    BY DEF Recorder!Recorded
  <1>6. Recorder!Complete(inputs, fails) = (Len(all) <= Recorder!Room)
    BY DEF Recorder!Complete
  <1>7. Len(inputs) \in Nat /\ Len(fails) \in Nat /\ Len(all) \in Nat /\ Len(records) \in Nat /\ Len(more) \in Nat /\ Recorder!Room \in Int
        /\ records \in Seq(Rows) /\ more \in Seq(Rows)
    <2>1. records \in Seq(Rows) /\ more \in Seq(Rows)
      BY <1>3 DEF HistoryInv, HistoryTypes, Fitted
    <2>2. Len(records) \in Nat /\ Len(inputs) \in Nat /\ Len(fails) \in Nat
      BY <1>1, <2>1
    <2>3. Len(all) \in Nat
      BY <1>2
    <2>4. Recorder!Room \in Int
      BY <2>2, HistoryAssumption DEF Recorder!Room
    <2> HIDE DEF more
    <2>5. Len(more) \in Nat
      BY <2>1
    <2> QED
      BY <2>1, <2>2, <2>3, <2>4, <2>5
  <1> HIDE DEF all, more
  <1>8. Len(records') = Len(records) + Len(more) /\ \A i \in 1..Len(more) : records'[Len(records) + i] = more[i]
    BY <1>5, <1>7, ConcatProperties
  <1>9. Len(records') <= Limit
    BY <1>3, <1>8 DEF Fitted
  <1>10. rejected' = (Len(more) < Len(all))
    BY <1>4, <1>5
  <1>11. CASE fails = <<>> /\ Len(more) = Len(inputs)
    <2>1. Len(more) = Len(all)
      BY <1>1, <1>2, <1>7, <1>11
    <2>2. status' # "FAILED" /\ status' \in {"PAUSED", "COMPLETED"} /\ sealed' = <<>>
      BY <1>4, <1>5, <1>11
    <2>3. ~rejected' /\ rejected' \in BOOLEAN
      <3>1. ~(Len(more) < Len(all))
        BY <1>7, <2>1
      <3>2. ~rejected'
        BY <1>10, <3>1
      <3>3. rejected' \in BOOLEAN
        BY <1>10
      <3> QED
        BY <3>2, <3>3
    <2>4. sealed' # <<TRUE>>
      BY <2>2, OneOrTheOther
    <2> QED
      BY <1>9, <2>2, <2>3, <2>4 DEF Recorder!SealedHonestly
  <1>12. CASE ~(fails = <<>> /\ Len(more) = Len(inputs))
    <2>1. status' = "FAILED" /\ sealed' = <<(Len(all) <= Recorder!Room)>>
      BY <1>5, <1>6, <1>12
    <2>2. sealed' # <<>> /\ (Len(all) > Recorder!Room => sealed' = <<FALSE>>) /\ (sealed' = <<TRUE>> => Len(all) <= Recorder!Room)
      <3>1. (Len(all) <= Recorder!Room) \in BOOLEAN /\ (Len(all) > Recorder!Room <=> ~(Len(all) <= Recorder!Room))
        BY <1>7
      <3> QED
        BY <2>1, <3>1, OneOrTheOther, Zenon
    <2>3. Len(more) < Len(all) => Len(all) > Recorder!Room
      BY <1>3, <1>7 DEF Fitted
    <2>4. Len(all) <= Recorder!Room => Len(more) = Len(all)
      BY <1>3, <1>7 DEF Fitted
    <2>5. rejected' => sealed' = <<FALSE>>
      BY <1>10, <2>2, <2>3
    <2>6. rejected' \in BOOLEAN
      BY <1>10
    <2>7. ASSUME Len(all) <= Recorder!Room
          PROVE  records'[Len(records')].type = "failed" /\ records'[Len(records') - 1].type = "event.failed"
      <3>1. fails # <<>>
        BY <1>1, <1>2, <1>7, <1>12, <2>4, <2>7
      <3>2. fails = Recorder!Failing /\ Len(fails) = 2
        BY <1>1, <3>1
      <3>3. Len(more) = Len(inputs) + 2 /\ Len(records') = Len(records) + Len(more)
        BY <1>2, <1>8, <2>4, <2>7, <3>2
      <3>4. all[Len(inputs) + 1].type = "event.failed" /\ all[Len(inputs) + 2].type = "failed"
        BY <1>2, <3>2, FailingNotes
      <3>5. more[Len(inputs) + 1].type = "event.failed" /\ more[Len(inputs) + 2].type = "failed"
        <4>1. \A i \in 1..Len(more) : more[i].type = all[i].type
          BY <1>3 DEF Fitted
        <4>2. Len(inputs) + 1 \in 1..Len(more) /\ Len(inputs) + 2 \in 1..Len(more)
          BY <1>7, <3>3
        <4> QED
          BY <3>4, <4>1, <4>2
      <3>6. records'[Len(records) + (Len(inputs) + 1)] = more[Len(inputs) + 1] /\ records'[Len(records) + (Len(inputs) + 2)] = more[Len(inputs) + 2]
        BY <1>7, <1>8, <3>3
      <3>7. Len(records) + (Len(inputs) + 1) = Len(records') - 1 /\ Len(records) + (Len(inputs) + 2) = Len(records')
        BY <1>7, <3>3
      <3> QED
        BY <3>5, <3>6, <3>7
    <2>8. sealed' = <<TRUE>> => records'[Len(records')].type = "failed" /\ records'[Len(records') - 1].type = "event.failed"
      BY <2>2, <2>7
    <2>9. (sealed' # <<>>) = (status' = "FAILED")
      BY <2>1, <2>2
    <2> QED
      BY <1>9, <2>1, <2>5, <2>6, <2>8, <2>9 DEF Recorder!SealedHonestly
  <1> QED
    BY <1>11, <1>12

LEMMA WiderSeq == ASSUME NEW S, NEW T, S \subseteq T PROVE \A s \in Seq(S) : s \in Seq(T)
  OBVIOUS

LEMMA BurstNotes == \A own \in Bursts : own \in Seq(Notes)
  <1> DEFINE plain == [type : STRING, source : STRING, target : STRING, entities : Seq(STRING)]
  <1>1. Bursts \subseteq Seq(plain)
    BY HistoryAssumption
  <1>2. plain \subseteq Notes
    BY DEF Notes
  <1> HIDE DEF plain
  <1> QED
    BY <1>1, <1>2, WiderSeq

LEMMA NoteSeqs ==
    /\ <<>> \in Seq(Notes)
    /\ <<Recorder!Kernel("dispatched"), Recorder!Kernel("started")>> \in Seq(Notes)
    /\ <<Recorder!Kernel("completed")>> \in Seq(Notes) /\ <<Recorder!Kernel("simulation.completed")>> \in Seq(Notes)
  <1>1. /\ Recorder!Kernel("dispatched") \in Notes /\ Recorder!Kernel("started") \in Notes
        /\ Recorder!Kernel("completed") \in Notes /\ Recorder!Kernel("simulation.completed") \in Notes
    BY NoteOf DEF KernelTypes
  <1> QED
    BY <1>1

\* What a dispatch leaves of the history: the end of it that is new, and a seal
\* that is honest.
Dispatched(more) ==
    /\ more \in Seq(Rows) /\ (delivering => more = <<>>)
    /\ records' = records \o more
    /\ \A i \in 1..Len(more) : more[i].seq = Len(records) + i
    /\ Recorder!SealedHonestly'
    /\ rejected' \in BOOLEAN /\ status' \in {"READY", "PAUSED", "COMPLETED", "FAILED"}

LEMMA DispatchAdds ==
    ASSUME HistoryInv, Recorder!Dispatch
    PROVE  \E more : Dispatched(more)
  <1>1. PICK own \in Bursts, ok \in BOOLEAN :
          Recorder!Recorded(<<Recorder!Kernel("dispatched"), Recorder!Kernel("started")>> \o own
                     \o (IF ok THEN <<Recorder!Kernel("completed")>> ELSE <<>>)
                     \o (IF ok /\ left = 1 THEN <<Recorder!Kernel("simulation.completed")>> ELSE <<>>),
                   IF ok THEN <<>> ELSE Recorder!Failing)
    BY DEF Recorder!Dispatch
  <1> DEFINE first == <<Recorder!Kernel("dispatched"), Recorder!Kernel("started")>>
             done == IF ok THEN <<Recorder!Kernel("completed")>> ELSE <<>>
             over == IF ok /\ left = 1 THEN <<Recorder!Kernel("simulation.completed")>> ELSE <<>>
             inputs == first \o own \o done \o over
             fails == IF ok THEN <<>> ELSE Recorder!Failing
  <1>2. first \in Seq(Notes) /\ own \in Seq(Notes) /\ done \in Seq(Notes) /\ over \in Seq(Notes)
    BY NoteSeqs, BurstNotes
  <1>3. Recorder!Recorded(inputs, fails)
    BY <1>1
  <1>4. fails \in {<<>>, Recorder!Failing}
    OBVIOUS
  <1> HIDE DEF first, done, over, fails
  <1>5. inputs \in Seq(Notes)
    BY <1>2, ConcatProperties
  <1> HIDE DEF inputs
  <1>6. status # "FAILED"
    BY DEF Recorder!Dispatch, Recorder!CanDispatch
  <1>7. Recorder!SealedHonestly' /\ rejected' \in BOOLEAN /\ status' \in {"READY", "PAUSED", "COMPLETED", "FAILED"}
    BY <1>3, <1>4, <1>5, <1>6, RecordedSeals
  <1>8. fails \in Seq(Notes) /\ inputs \o fails \in Seq(Notes)
    BY <1>4, <1>5, NoteSeqs, FailingNotes, ConcatProperties
  <1>9. Fitted(Recorder!Numbered(Recorder!Fitting(inputs \o fails)), inputs \o fails)
    BY <1>8, NumberedFits
  <1>10. records' = records \o Recorder!Numbered(Recorder!Fitting(inputs \o fails))
    BY <1>3 DEF Recorder!Recorded
  <1>11. Dispatched(Recorder!Numbered(Recorder!Fitting(inputs \o fails)))
    BY <1>7, <1>9, <1>10 DEF Dispatched, Fitted
  <1> QED
    BY <1>11

\* Records follow each other without a gap.
LEMMA NumberedOn ==
    ASSUME HistoryInv, NEW more, Dispatched(more)
    PROVE  /\ records' \in Seq(Rows) /\ Len(records') = Len(records) + Len(more) /\ Len(more) \in Nat
           /\ \A i \in 1..Len(records) : records'[i] = records[i]
           /\ \A i \in 1..Len(more) : records'[Len(records) + i] = more[i]
           /\ Len(records') > 0 /\ \A i \in 1..Len(records') : records'[i].seq = i
  <1>1. records \in Seq(Rows) /\ more \in Seq(Rows) /\ records' = records \o more /\ Len(records) > 0 /\ Len(records) \in Nat /\ Len(more) \in Nat
        /\ \A i \in 1..Len(records) : records[i].seq = i
    BY DEF HistoryInv, HistoryTypes, Dispatched
  <1>2. /\ records' \in Seq(Rows) /\ Len(records') = Len(records) + Len(more)
        /\ \A i \in 1..Len(records) + Len(more) : records'[i] = IF i <= Len(records) THEN records[i] ELSE more[i - Len(records)]
    BY <1>1, ConcatProperties
  <1>3. \A i \in 1..Len(records) : records'[i] = records[i]
    BY <1>1, <1>2
  <1>4. \A i \in 1..Len(more) : records'[Len(records) + i] = more[i]
    <2> SUFFICES ASSUME NEW i \in 1..Len(more) PROVE records'[Len(records) + i] = more[i]
      OBVIOUS
    <2>1. Len(records) + i \in 1..Len(records) + Len(more) /\ ~(Len(records) + i <= Len(records)) /\ Len(records) + i - Len(records) = i
      BY <1>1
    <2> QED
      BY <1>2, <2>1
  <1>5. ASSUME NEW i \in 1..Len(records') PROVE records'[i].seq = i
    <2>1. CASE i <= Len(records)
      BY <1>1, <1>2, <1>3, <1>5, <2>1
    <2>2. CASE i > Len(records)
      <3> DEFINE j == i - Len(records)
      <3>1. j \in 1..Len(more) /\ Len(records) + j = i
        BY <1>1, <1>2, <1>5, <2>2
      <3>2. more[j].seq = Len(records) + j /\ records'[Len(records) + j] = more[j]
        BY <1>4, <3>1 DEF Dispatched
      <3> HIDE DEF j
      <3> QED
        BY <3>1, <3>2
    <2> QED
      BY <1>1, <1>2, <1>5, <2>1, <2>2
  <1> QED
    BY <1>1, <1>2, <1>3, <1>4, <1>5

\* Where a flush stands.
LEMMA Standing ==
    ASSUME HistoryInv
    PROVE  /\ Len(records) \in Nat /\ Len(pending) \in Nat /\ Len(batch) \in Nat
           /\ ToldToAll \in Nat /\ ToldToAll <= Len(records)
           /\ delivering <=> Len(batch) > 0
           /\ delivering => Len(pending) = 0 /\ ToldToAll = Len(records) - Len(batch)
           /\ ~delivering => ToldToAll = Len(records) - Len(pending)
           /\ \A i \in 1..Len(batch) : batch[i] = records[Len(records) - Len(batch) + i]
           /\ \A i \in 1..Len(pending) : pending[i] = records[Len(records) - Len(pending) + i]
  <1>1. /\ records \in Seq(Rows) /\ pending \in Seq(Rows) /\ batch \in Seq(Rows)
        /\ Len(records) \in Nat /\ Len(pending) \in Nat /\ Len(batch) \in Nat
    BY DEF HistoryInv, HistoryTypes
  <1>2. /\ delivering <=> batch # <<>>
        /\ delivering => pending = <<>>
        /\ Len(pending) <= Len(records) /\ Len(batch) <= Len(records)
    <2>1. delivering = (batch # <<>>) /\ (delivering => pending = <<>>)
      BY DEF HistoryInv, Flushing
    <2>2. delivering \in BOOLEAN
      BY DEF HistoryInv, HistoryTypes
    <2>3. delivering <=> batch # <<>>
      BY <2>1, <2>2
    <2>4. Len(pending) < Len(records) + 1 /\ Len(batch) < Len(records) + 1
      BY DEF HistoryInv, Flushing
    <2>5. Len(pending) <= Len(records) /\ Len(batch) <= Len(records)
      BY <1>1, <2>4
    <2> QED
      BY <2>1, <2>3, <2>5
  <1>3. (batch # <<>> <=> Len(batch) > 0) /\ (pending = <<>> => Len(pending) = 0)
    BY <1>1
  <1>4. \A i \in 1..Len(batch) : batch[i] = records[Len(records) - Len(batch) + i]
    <2>1. \A i \in 1..Len(batch) : batch[i] = records[Len(records) - Len(batch) + 1 + i - 1]
      BY DEF HistoryInv, Flushing, Repeats
    <2>2. \A i \in 1..Len(batch) : Len(records) - Len(batch) + 1 + i - 1 = Len(records) - Len(batch) + i
      BY <1>1
    <2> QED
      BY <2>1, <2>2
  <1>5. \A i \in 1..Len(pending) : pending[i] = records[Len(records) - Len(pending) + i]
    <2>1. \A i \in 1..Len(pending) : pending[i] = records[Len(records) - Len(pending) + 1 + i - 1]
      BY DEF HistoryInv, Flushing, Repeats
    <2>2. \A i \in 1..Len(pending) : Len(records) - Len(pending) + 1 + i - 1 = Len(records) - Len(pending) + i
      BY <1>1
    <2> QED
      BY <2>1, <2>2
  <1> QED
    BY <1>1, <1>2, <1>3, <1>4, <1>5 DEF ToldToAll

\* A new listener starts where the flush stands.
LEMMA FromIs == ASSUME HistoryInv PROVE Recorder!From = ToldToAll + 1
  <1>1. \A i \in 1..Len(records) : records[i].seq = i
    BY DEF HistoryInv, HistoryTypes
  <1>2. CASE delivering
    <2>1. 1 \in 1..Len(batch) /\ Len(records) - Len(batch) + 1 \in 1..Len(records) /\ ToldToAll = Len(records) - Len(batch)
      BY <1>2, Standing
    <2>2. batch[1].seq = Len(records) - Len(batch) + 1
      BY <1>1, <2>1, Standing
    <2> QED
      BY <1>2, <2>1, <2>2 DEF Recorder!From
  <1>3. CASE ~delivering /\ pending # <<>>
    <2>1. Len(pending) > 0
      BY <1>3 DEF HistoryInv, HistoryTypes
    <2>2. 1 \in 1..Len(pending) /\ Len(records) - Len(pending) + 1 \in 1..Len(records) /\ ToldToAll = Len(records) - Len(pending)
      BY <1>3, <2>1, Standing
    <2>3. pending[1].seq = Len(records) - Len(pending) + 1
      BY <1>1, <2>2, Standing
    <2> QED
      BY <1>3, <2>2, <2>3 DEF Recorder!From
  <1>4. CASE ~delivering /\ pending = <<>>
    <2>1. Len(pending) = 0
      BY <1>4
    <2>2. ToldToAll = Len(records)
      BY <1>4, <2>1, Standing
    <2> QED
      BY <1>4, <2>2 DEF Recorder!From
  <1> QED
    BY <1>2, <1>3, <1>4

\* The listeners afterwards: those there were, perhaps dismissed, and perhaps a
\* new one.
Heirs(ls) ==
    /\ ls \in Seq(Audience)
    /\ Len(ls) \in {Len(listeners), Len(listeners) + 1}
    /\ \A i \in 1..Len(listeners) : ls[i].from = listeners[i].from /\ (ls[i].active => listeners[i].active)
    /\ \A i \in 1..Len(ls) : i = Len(listeners) + 1 => ls[i].from = ToldToAll + 1

LEMMA JoinedHeirs ==
    ASSUME HistoryInv, NEW kind \in Kinds \cup {"quiet"}
    PROVE  Heirs(Recorder!Joined(kind)) /\ Len(Recorder!Joined(kind)) = Len(listeners) + 1
  <1> DEFINE new == [kind |-> kind, active |-> TRUE, from |-> Recorder!From]
             ls == Append(listeners, new)
  <1>1. Recorder!From = ToldToAll + 1 /\ ToldToAll \in Nat
    BY FromIs, Standing
  <1>2. new \in Audience /\ new.from = ToldToAll + 1
    BY <1>1 DEF Audience
  <1>3. listeners \in Seq(Audience)
    BY DEF HistoryInv, HistoryTypes
  <1> HIDE DEF new
  <1>4. /\ ls \in Seq(Audience) /\ Len(ls) = Len(listeners) + 1 /\ Len(listeners) \in Nat
        /\ \A i \in 1..Len(listeners) : ls[i] = listeners[i]
        /\ ls[Len(listeners) + 1] = new
    BY <1>2, <1>3, AppendProperties
  <1> HIDE DEF ls
  <1>5. Heirs(ls)
    BY <1>2, <1>4 DEF Heirs
  <1> QED
    BY <1>4, <1>5 DEF Recorder!Joined, ls, new

LEMMA LeftHeirs ==
    ASSUME HistoryInv, NEW l \in 1..Len(listeners)
    PROVE  Heirs([listeners EXCEPT ![l].active = FALSE]) /\ Len([listeners EXCEPT ![l].active = FALSE]) = Len(listeners)
  <1> DEFINE ls == [listeners EXCEPT ![l].active = FALSE]
  <1>1. listeners \in Seq(Audience) /\ Len(listeners) \in Nat
    BY DEF HistoryInv, HistoryTypes
  <1>2. listeners \in [1..Len(listeners) -> Audience]
    BY <1>1
  <1>3. \A i \in 1..Len(listeners) : ls[i] = IF i = l THEN [listeners[l] EXCEPT !.active = FALSE] ELSE listeners[i]
    BY <1>2
  <1>4. ls \in [1..Len(listeners) -> Audience]
    <2>1. [listeners[l] EXCEPT !.active = FALSE] \in Audience
      BY <1>2 DEF Audience
    <2> QED
      BY <1>2, <2>1
  <1>5. [listeners[l] EXCEPT !.active = FALSE].from = listeners[l].from /\ ~[listeners[l] EXCEPT !.active = FALSE].active
    BY <1>2 DEF Audience
  <1> HIDE DEF ls
  <1>6. ls \in Seq(Audience) /\ Len(ls) = Len(listeners)
    BY <1>1, <1>4
  <1>7. \A i \in 1..Len(listeners) : ls[i].from = listeners[i].from /\ (ls[i].active => listeners[i].active)
    BY <1>3, <1>5
  <1>8. Heirs(ls)
    BY <1>1, <1>6, <1>7 DEF Heirs
  <1> QED
    BY <1>6, <1>8 DEF ls

LEMMA DismissedHeirs ==
    ASSUME HistoryInv, NEW l \in 1..Len(listeners), NEW ls,
           ls = [k \in DOMAIN listeners |-> [listeners[k] EXCEPT !.active = k = l /\ @]]
    PROVE  Heirs(ls)
  <1>1. listeners \in Seq(Audience) /\ Len(listeners) \in Nat /\ DOMAIN listeners = 1..Len(listeners)
    BY DEF HistoryInv, HistoryTypes
  <1>2. listeners \in [1..Len(listeners) -> Audience]
    BY <1>1
  <1>3. \A k \in 1..Len(listeners) : ls[k] = [listeners[k] EXCEPT !.active = k = l /\ @]
    BY <1>1
  <1>4. ASSUME NEW k \in 1..Len(listeners)
        PROVE  ls[k] \in Audience /\ ls[k].from = listeners[k].from /\ (ls[k].active => listeners[k].active)
    <2>1. listeners[k] \in Audience
      BY <1>2
    <2>2. ls[k] = [listeners[k] EXCEPT !.active = (k = l /\ listeners[k].active)]
      BY <1>3, <2>1 DEF Audience
    <2>3. (k = l /\ listeners[k].active) \in BOOLEAN
      OBVIOUS
    <2> QED
      BY <2>1, <2>2, <2>3 DEF Audience
  <1>5. ls \in [1..Len(listeners) -> Audience]
    BY <1>1, <1>4
  <1>6. ls \in Seq(Audience) /\ Len(ls) = Len(listeners)
    BY <1>1, <1>5
  <1> QED
    BY <1>1, <1>4, <1>6 DEF Heirs

LEMMA SameHeirs == HistoryInv => Heirs(listeners)
  BY DEF HistoryInv, HistoryTypes, Heirs

LEMMA ReactHeirs == ASSUME HistoryInv, NEW l \in 1..Len(listeners) PROVE Heirs(Recorder!React(l))
  BY JoinedHeirs, LeftHeirs, DismissedHeirs, SameHeirs DEF Recorder!React

\* A history as it begins.
Fresh ==
    /\ status = "READY" /\ records = Recorder!Created /\ (pending = <<>> \/ pending = records) /\ batch = <<>>
    /\ sealed = <<>> /\ rejected = FALSE /\ next = 1 /\ delivering = FALSE
    /\ listeners = <<>> /\ told = <<>>

LEMMA FreshHolds == Fresh => HistoryInv
  <1> SUFFICES ASSUME Fresh PROVE HistoryInv
    OBVIOUS
  <1>1. records = Recorder!Created /\ (pending = <<>> \/ pending = records) /\ batch = <<>> /\ listeners = <<>> /\ told = <<>>
    BY DEF Fresh
  <1>2. records \in Seq(Rows) /\ Len(records) = 1 /\ records[1].seq = 1
    BY <1>1, FirstRow
  <1>3. HistoryTypes
    <2>1. status = "READY" /\ next = 1 /\ delivering = FALSE /\ rejected = FALSE
      BY DEF Fresh
    <2>2. batch \in Seq(Rows) /\ listeners \in Seq(Audience) /\ told \in Seq(Seq(Rows)) /\ Len(told) = Len(listeners)
      BY <1>1
    <2>3. Len(records) > 0
      BY <1>2
    <2>4. \A i \in 1..Len(records) : records[i].seq = i
      <3>1. \A i \in 1..Len(records) : i = 1
        BY <1>2
      <3> QED
        BY <1>2, <3>1
    <2>5. next \in Nat \ {0}
      BY <2>1
    <2>6. status \in {"READY", "PAUSED", "COMPLETED", "FAILED"} /\ pending \in Seq(Rows)
      <3>1. <<>> \in Seq(Rows)
        OBVIOUS
      <3> QED
        BY <1>1, <1>2, <2>1, <3>1
    <2>7. delivering \in BOOLEAN /\ rejected \in BOOLEAN
      BY <2>1, Zenon
    <2> QED
      BY <1>2, <2>2, <2>3, <2>4, <2>5, <2>6, <2>7 DEF HistoryTypes
  <1>4. Recorder!SealedHonestly
    BY <1>2, HistoryAssumption DEF Fresh, Recorder!SealedHonestly
  <1>5. Flushing
    <2>1. Len(batch) = 0 /\ delivering = FALSE /\ (batch # <<>>) = FALSE
      BY <1>1 DEF Fresh
    <2>2. Repeats(batch, records, Len(records) - Len(batch) + 1)
      BY <1>2, <2>1 DEF Repeats
    <2>3. Len(pending) < Len(records) + 1 /\ Repeats(pending, records, Len(records) - Len(pending) + 1)
      <3>1. CASE pending = <<>>
        <4>1. Len(pending) = 0
          BY <3>1
        <4> QED
          BY <1>2, <4>1 DEF Repeats
      <3>2. CASE pending = records
        <4>1. \A i \in 1..1 : pending[i] = records[1 + i - 1]
          BY <3>2
        <4>2. Len(pending) = 1
          BY <1>2, <3>2
        <4>3. Repeats(pending, records, 1)
          BY <1>2, <4>1, <4>2 DEF Repeats
        <4>4. Len(records) - Len(pending) + 1 = 1 /\ Len(pending) < Len(records) + 1
          BY <1>2, <4>2
        <4> QED
          BY <4>3, <4>4
      <3> QED
        BY <1>1, <3>1, <3>2
    <2>4. delivering = (batch # <<>>) /\ (delivering => pending = <<>>)
      BY <2>1, Zenon
    <2>5. Len(batch) < Len(records) + 1
      BY <1>2, <2>1
    <2> QED
      BY <2>2, <2>3, <2>4, <2>5 DEF Flushing
  <1>6. AllHeard
    BY <1>1 DEF AllHeard
  <1> QED
    BY <1>3, <1>4, <1>5, <1>6 DEF HistoryInv

LEMMA HistoryInit == Recorder!Init => HistoryInv
  <1> SUFFICES ASSUME Recorder!Init PROVE Fresh
    BY FreshHolds
  <1>1. records = Recorder!Created /\ pending = Recorder!Created
    BY DEF Recorder!Init
  <1> QED
    BY <1>1 DEF Recorder!Init, Fresh

LEMMA RecorderReset == ASSUME HistoryInv, Recorder!Reset PROVE HistoryInv'
  <1>1. Fresh'
    BY DEF Recorder!Reset, Fresh
  <1>2. (Fresh => HistoryInv)'
    BY FreshHolds, PTL
  <1> QED
    BY <1>1, <1>2

\* What each listener follows, one by one.
LEMMA HeardBy ==
    ASSUME HistoryInv, NEW l \in 1..Len(listeners)
    PROVE  /\ listeners[l] \in Audience /\ listeners[l].from \in Nat \ {0}
           /\ told[l] \in Seq(Rows) /\ Len(told[l]) \in Nat
           /\ Heard(listeners[l], told[l], records, LastTold(l))
  <1>1. listeners \in Seq(Audience) /\ told \in Seq(Seq(Rows)) /\ Len(told) = Len(listeners)
    BY DEF HistoryInv, HistoryTypes
  <1>2. listeners[l] \in Audience /\ told[l] \in Seq(Rows)
    BY <1>1
  <1>3. listeners[l].from \in Nat \ {0} /\ Len(told[l]) \in Nat
    BY <1>2 DEF Audience
  <1> QED
    BY <1>2, <1>3 DEF HistoryInv, AllHeard

LEMMA RecorderSkip == ASSUME HistoryInv, Recorder!Skip PROVE HistoryInv'
  <1>1. /\ delivering /\ next <= Len(listeners) /\ ~listeners[next].active /\ next' = next + 1
        /\ UNCHANGED <<left, status, records, sealed, rejected, pending, batch, delivering, listeners, told>>
    BY DEF Recorder!Skip
  <1>2. next \in Nat \ {0} /\ Len(listeners) \in Nat
    BY DEF HistoryInv, HistoryTypes
  <1>3. HistoryTypes'
    <2>1. next' \in Nat \ {0}
      BY <1>1, <1>2
    <2> QED
      BY <1>1, <2>1 DEF HistoryInv, HistoryTypes
  <1>4. Recorder!SealedHonestly'
    BY <1>1 DEF HistoryInv, Recorder!SealedHonestly
  <1>5. Flushing'
    BY <1>1 DEF HistoryInv, Flushing
  <1>6. ToldToAll' = ToldToAll
    BY <1>1 DEF ToldToAll
  <1>7. ASSUME NEW l \in 1..Len(listeners) PROVE Heard(listeners[l], told[l], records, LastTold(l)')
    <2>1. Heard(listeners[l], told[l], records, LastTold(l))
      BY <1>7, HeardBy
    <2>2. l # next => LastTold(l)' = LastTold(l)
      BY <1>1, <1>2, <1>6 DEF LastTold
    <2> QED
      BY <1>1, <2>1, <2>2 DEF Heard
  <1>8. AllHeard'
    BY <1>1, <1>7 DEF AllHeard
  <1> QED
    BY <1>3, <1>4, <1>5, <1>8 DEF HistoryInv

LEMMA RecorderNextRecord == ASSUME HistoryInv, Recorder!NextRecord PROVE HistoryInv'
  <1>1. /\ delivering /\ next > Len(listeners) /\ batch' = Tail(batch) /\ next' = 1 /\ delivering' = (batch' # <<>>)
        /\ UNCHANGED <<left, status, records, sealed, rejected, pending, listeners, told>>
    BY DEF Recorder!NextRecord
  <1>2. /\ batch \in Seq(Rows) /\ batch # <<>> /\ records \in Seq(Rows) /\ pending = <<>>
        /\ next \in Nat \ {0} /\ Len(listeners) \in Nat
    <2>1. batch \in Seq(Rows) /\ records \in Seq(Rows) /\ next \in Nat \ {0} /\ Len(listeners) \in Nat
      BY DEF HistoryInv, HistoryTypes
    <2>2. Len(batch) > 0
      BY <1>1, Standing
    <2>3. batch # <<>>
      BY <2>2
    <2>4. pending = <<>>
      BY <1>1 DEF HistoryInv, Flushing
    <2> QED
      BY <2>1, <2>3, <2>4
  <1>3. batch' \in Seq(Rows) /\ Len(batch') = Len(batch) - 1 /\ \A i \in 1..Len(batch') : batch'[i] = batch[i + 1]
    BY <1>1, <1>2, HeadTailProperties
  <1>4. HistoryTypes'
    <2>1. next' \in Nat \ {0}
      BY <1>1
    <2>2. delivering' \in BOOLEAN
      BY <1>1
    <2> QED
      BY <1>1, <1>3, <2>1, <2>2 DEF HistoryInv, HistoryTypes
  <1>5. Recorder!SealedHonestly'
    BY <1>1 DEF HistoryInv, Recorder!SealedHonestly
  <1>6. Flushing'
    <2>1. /\ Len(records) \in Nat /\ Len(batch) \in Nat /\ Len(batch) > 0 /\ Len(batch) <= Len(records)
          /\ \A i \in 1..Len(batch) : batch[i] = records[Len(records) - Len(batch) + i]
      BY <1>1, Standing
    <2>2. Len(records) - Len(batch') + 1 + Len(batch') <= Len(records) + 1 /\ Len(batch') < Len(records) + 1
      BY <1>3, <2>1
    <2>3. ASSUME NEW i \in 1..Len(batch') PROVE batch'[i] = records[Len(records) - Len(batch') + 1 + i - 1]
      <3>1. i + 1 \in 1..Len(batch) /\ Len(records) - Len(batch) + (i + 1) = Len(records) - Len(batch') + 1 + i - 1
        BY <1>3, <2>1, <2>3
      <3> QED
        BY <1>3, <2>1, <2>3, <3>1
    <2>4. Repeats(batch', records, Len(records) - Len(batch') + 1)
      BY <2>2, <2>3 DEF Repeats
    <2>5. delivering' = (batch' # <<>>) /\ (delivering' => pending' = <<>>)
      BY <1>1, <1>2
    <2>6. Len(pending) < Len(records) + 1 /\ Repeats(pending, records, Len(records) - Len(pending) + 1)
      BY DEF HistoryInv, Flushing
    <2> QED
      BY <1>1, <2>2, <2>4, <2>5, <2>6 DEF Flushing
  <1>7. ToldToAll' = ToldToAll + 1
    BY <1>1, <1>3, Standing DEF ToldToAll
  <1>8. ASSUME NEW l \in 1..Len(listeners) PROVE Heard(listeners[l], told[l], records, LastTold(l)')
    <2>1. Heard(listeners[l], told[l], records, LastTold(l))
      BY <1>8, HeardBy
    <2>2. LastTold(l) = ToldToAll + 1
      BY <1>1, <1>2, <1>8 DEF LastTold
    <2>3. LastTold(l)' = ToldToAll + 1
      BY <1>1, <1>7, <1>8 DEF LastTold
    <2> QED
      BY <2>1, <2>2, <2>3
  <1>9. AllHeard'
    BY <1>1, <1>8 DEF AllHeard
  <1> QED
    BY <1>4, <1>5, <1>6, <1>9 DEF HistoryInv

LEMMA RecorderUnsubscribe == ASSUME HistoryInv, Recorder!Unsubscribe PROVE HistoryInv'
  <1>1. PICK l \in DOMAIN listeners : listeners' = [listeners EXCEPT ![l].active = FALSE]
    BY DEF Recorder!Unsubscribe
  <1>2. UNCHANGED <<left, status, records, sealed, rejected, pending, batch, next, delivering, told>>
    BY DEF Recorder!Unsubscribe
  <1>3. l \in 1..Len(listeners)
    BY DEF HistoryInv, HistoryTypes
  <1>4. Heirs(listeners') /\ Len(listeners') = Len(listeners)
    BY <1>1, <1>3, LeftHeirs
  <1>5. HistoryTypes'
    BY <1>2, <1>4 DEF HistoryInv, HistoryTypes, Heirs
  <1>6. Recorder!SealedHonestly'
    BY <1>2 DEF HistoryInv, Recorder!SealedHonestly
  <1>7. Flushing'
    BY <1>2 DEF HistoryInv, Flushing
  <1>8. ASSUME NEW k \in 1..Len(listeners') PROVE Heard(listeners'[k], told'[k], records', LastTold(k)')
    <2>1. Heard(listeners[k], told[k], records, LastTold(k))
      BY <1>4, <1>8, HeardBy
    <2>2. listeners'[k].from = listeners[k].from /\ (listeners'[k].active => listeners[k].active)
      BY <1>4, <1>8 DEF Heirs
    <2>3. LastTold(k)' = LastTold(k)
      BY <1>2 DEF LastTold, ToldToAll
    <2> QED
      BY <1>2, <2>1, <2>2, <2>3 DEF Heard
  <1>9. AllHeard'
    BY <1>8 DEF AllHeard
  <1> QED
    BY <1>5, <1>6, <1>7, <1>9 DEF HistoryInv

LEMMA RecorderSubscribe == ASSUME HistoryInv, Recorder!Subscribe PROVE HistoryInv'
  <1>1. PICK kind \in Kinds : listeners' = Recorder!Joined(kind)
    BY DEF Recorder!Subscribe
  <1>2. /\ ~delivering /\ told' = Append(told, <<>>)
        /\ UNCHANGED <<status, records, sealed, rejected, pending, batch, next, delivering>>
    BY DEF Recorder!Subscribe
  <1>3. Heirs(listeners') /\ Len(listeners') = Len(listeners) + 1
    BY <1>1, JoinedHeirs
  <1>4. told \in Seq(Seq(Rows)) /\ Len(told) = Len(listeners) /\ Len(listeners) \in Nat
    BY DEF HistoryInv, HistoryTypes
  <1>5. <<>> \in Seq(Rows)
    OBVIOUS
  <1>6. /\ told' \in Seq(Seq(Rows)) /\ Len(told') = Len(told) + 1
        /\ \A i \in 1..Len(told) : told'[i] = told[i]
        /\ told'[Len(told) + 1] = <<>>
    BY <1>2, <1>4, <1>5, AppendProperties
  <1>7. HistoryTypes'
    BY <1>2, <1>3, <1>4, <1>6 DEF HistoryInv, HistoryTypes, Heirs
  <1>8. Recorder!SealedHonestly'
    BY <1>2 DEF HistoryInv, Recorder!SealedHonestly
  <1>9. Flushing'
    BY <1>2 DEF HistoryInv, Flushing
  <1>10. ASSUME NEW k \in 1..Len(listeners') PROVE Heard(listeners'[k], told'[k], records', LastTold(k)')
    <2>1. LastTold(k)' = ToldToAll /\ LastTold(k) = ToldToAll
      BY <1>2 DEF LastTold, ToldToAll
    <2>2. CASE k \in 1..Len(listeners)
      <3>1. Heard(listeners[k], told[k], records, LastTold(k))
        BY <2>2, HeardBy
      <3>2. listeners'[k].from = listeners[k].from /\ (listeners'[k].active => listeners[k].active)
        BY <1>3, <2>2 DEF Heirs
      <3>3. told'[k] = told[k]
        BY <1>4, <1>6, <2>2
      <3> QED
        BY <1>2, <2>1, <3>1, <3>2, <3>3 DEF Heard
    <2>3. CASE k = Len(listeners) + 1
      <3>1. listeners'[k].from = ToldToAll + 1
        BY <1>3, <1>10, <2>3 DEF Heirs
      <3>2. told'[k] = <<>> /\ Len(told'[k]) = 0
        BY <1>4, <1>6, <2>3
      <3>3. ToldToAll \in Nat /\ ToldToAll <= Len(records) /\ Len(records) \in Nat
        BY Standing
      <3>4. Repeats(told'[k], records, ToldToAll + 1)
        BY <3>2, <3>3 DEF Repeats
      <3>5. ToldToAll + 1 + Len(told'[k]) - 1 = ToldToAll
        BY <3>2, <3>3
      <3> QED
        BY <1>2, <2>1, <3>1, <3>4, <3>5 DEF Heard
    <2> QED
      BY <1>3, <1>4, <1>10, <2>2, <2>3
  <1>11. AllHeard'
    BY <1>10 DEF AllHeard
  <1> QED
    BY <1>7, <1>8, <1>9, <1>11 DEF HistoryInv

\* What waits after a dispatch is the end of the history.
LEMMA WaitingRepeats ==
    ASSUME HistoryInv, ~delivering, NEW more, Dispatched(more)
    PROVE  /\ Recorder!Waiting \in Seq(Rows) /\ Len(Recorder!Waiting) = Len(pending) + Len(more)
           /\ Len(Recorder!Waiting) < Len(records') + 1
           /\ Repeats(Recorder!Waiting, records', Len(records') - Len(Recorder!Waiting) + 1)
  <1> DEFINE w == pending \o more
  <1>1. /\ records' \in Seq(Rows) /\ Len(records') = Len(records) + Len(more) /\ Len(more) \in Nat
        /\ \A i \in 1..Len(records) : records'[i] = records[i]
        /\ \A i \in 1..Len(more) : records'[Len(records) + i] = more[i]
    BY NumberedOn
  <1>2. /\ Len(records) \in Nat /\ Len(pending) \in Nat /\ Len(pending) <= Len(records)
        /\ \A i \in 1..Len(pending) : pending[i] = records[Len(records) - Len(pending) + i]
    BY Standing
  <1>3. more \in Seq(Rows) /\ pending \in Seq(Rows)
    BY DEF HistoryInv, HistoryTypes, Dispatched
  <1>4. SubSeq(records', Len(records) + 1, Len(records')) = more
    <2>1. \A i \in 1..Len(more) : Len(records) + 1 + i - 1 = Len(records) + i
      BY <1>1, <1>2
    <2>2. Repeats(more, records', Len(records) + 1)
      BY <1>1, <1>2, <2>1 DEF Repeats
    <2>3. more = SubSeq(records', Len(records) + 1, Len(records) + 1 + Len(more) - 1)
      BY <1>1, <1>2, <1>3, <2>2, RepeatsIsPart
    <2>4. Len(records) + 1 + Len(more) - 1 = Len(records')
      BY <1>1, <1>2
    <2> QED
      BY <2>3, <2>4
  <1>5. /\ w \in Seq(Rows) /\ Len(w) = Len(pending) + Len(more)
        /\ \A i \in 1..Len(pending) + Len(more) : w[i] = IF i <= Len(pending) THEN pending[i] ELSE more[i - Len(pending)]
    BY <1>3, ConcatProperties
  <1>6. Recorder!Waiting = w
    BY <1>4 DEF Recorder!Waiting
  <1> DEFINE n == Len(records') - Len(w) + 1
  <1> HIDE DEF w
  <1>7. n = Len(records) - Len(pending) + 1 /\ n + Len(w) <= Len(records') + 1 /\ Len(w) < Len(records') + 1
    BY <1>1, <1>2, <1>5
  <1> HIDE DEF n
  <1>8. ASSUME NEW i \in 1..Len(w) PROVE w[i] = records'[n + i - 1]
    <2>1. CASE i <= Len(pending)
      <3>1. i \in 1..Len(pending) /\ n + i - 1 = Len(records) - Len(pending) + i /\ n + i - 1 \in 1..Len(records)
        BY <1>2, <1>7, <1>8, <2>1
      <3>2. w[i] = pending[i]
        BY <1>5, <1>8, <2>1
      <3> QED
        BY <1>1, <1>2, <3>1, <3>2
    <2>2. CASE i > Len(pending)
      <3> DEFINE j == i - Len(pending)
      <3>1. j \in 1..Len(more) /\ n + i - 1 = Len(records) + j
        BY <1>1, <1>2, <1>5, <1>7, <1>8, <2>2
      <3>2. w[i] = more[j]
        BY <1>2, <1>5, <1>8, <2>2
      <3> HIDE DEF j
      <3> QED
        BY <1>1, <3>1, <3>2
    <2> QED
      BY <1>2, <1>8, <2>1, <2>2
  <1>9. Repeats(w, records', n)
    BY <1>7, <1>8 DEF Repeats
  <1> QED
    BY <1>5, <1>6, <1>7, <1>9 DEF n

\* A dispatch outside a flush, or none, tells nobody anything.
LEMMA NobodyTold ==
    ASSUME HistoryInv, ~delivering, UNCHANGED <<listeners, told>>, ToldToAll' = ToldToAll, ~delivering' \/ next' = 1,
           records' = records \/ \E more : Dispatched(more)
    PROVE  AllHeard'
  <1>1. ASSUME NEW k \in 1..Len(listeners) PROVE Heard(listeners[k], told[k], records', LastTold(k)')
    <2>1. Heard(listeners[k], told[k], records, LastTold(k)) /\ listeners[k].from \in Nat \ {0} /\ told[k] \in Seq(Rows)
      BY <1>1, HeardBy
    <2>2. LastTold(k) = ToldToAll
      BY DEF LastTold
    <2>3. LastTold(k)' = ToldToAll
      <3>1. ~(delivering' /\ k < next')
        BY <1>1 DEF HistoryInv, HistoryTypes
      <3> QED
        BY <3>1 DEF LastTold
    <2>4. Repeats(told[k], records', listeners[k].from)
      <3>1. CASE records' = records
        BY <2>1, <3>1 DEF Heard
      <3>2. ASSUME NEW more, Dispatched(more) PROVE Repeats(told[k], records', listeners[k].from)
        <4>1. more \in Seq(Rows) /\ records \in Seq(Rows) /\ records' = records \o more
          BY <3>2 DEF HistoryInv, HistoryTypes, Dispatched
        <4> QED
          BY <2>1, <4>1, RepeatsLonger DEF Heard
      <3> QED
        BY <3>1, <3>2
    <2> QED
      BY <2>1, <2>2, <2>3, <2>4 DEF Heard
  <1> QED
    BY <1>1 DEF AllHeard

LEMMA RecorderStep == ASSUME HistoryInv, Recorder!Step PROVE HistoryInv'
  <1>1. /\ ~delivering /\ Recorder!Dispatch /\ batch' = Recorder!Waiting
        /\ pending' = <<>> /\ next' = 1 /\ delivering' = (batch' # <<>>)
        /\ UNCHANGED <<listeners, told>>
    BY DEF Recorder!Step, Recorder!Flush
  <1>2. PICK more : Dispatched(more)
    BY <1>1, DispatchAdds
  <1>3. /\ records' \in Seq(Rows) /\ Len(records') = Len(records) + Len(more) /\ Len(more) \in Nat
        /\ Len(records') > 0 /\ \A i \in 1..Len(records') : records'[i].seq = i
    BY <1>2, NumberedOn
  <1>4. Len(records) \in Nat /\ Len(pending) \in Nat /\ ToldToAll = Len(records) - Len(pending)
    BY <1>1, Standing
  <1>5. /\ batch' \in Seq(Rows) /\ Len(batch') = Len(pending) + Len(more) /\ Len(batch') < Len(records') + 1
        /\ Repeats(batch', records', Len(records') - Len(batch') + 1)
    BY <1>1, <1>2, WaitingRepeats
  <1>6. HistoryTypes'
    <2>1. next' \in Nat \ {0} /\ pending' \in Seq(Rows)
      BY <1>1
    <2>2. delivering' \in BOOLEAN
      BY <1>1
    <2>3. listeners' \in Seq(Audience) /\ told' \in Seq(Seq(Rows)) /\ Len(told') = Len(listeners')
      BY <1>1 DEF HistoryInv, HistoryTypes
    <2>4. rejected' \in BOOLEAN /\ status' \in {"READY", "PAUSED", "COMPLETED", "FAILED"}
      BY <1>2 DEF Dispatched
    <2> QED
      BY <1>3, <1>5, <2>1, <2>2, <2>3, <2>4 DEF HistoryTypes
  <1>7. Recorder!SealedHonestly'
    BY <1>2 DEF Dispatched
  <1>8. Flushing'
    <2>1. Len(pending') = 0
      BY <1>1
    <2>2. Len(pending') < Len(records') + 1 /\ Repeats(pending', records', Len(records') - Len(pending') + 1)
      BY <1>3, <1>4, <2>1 DEF Repeats
    <2>3. delivering' = (batch' # <<>>) /\ (delivering' => pending' = <<>>)
      BY <1>1
    <2> QED
      BY <1>5, <2>2, <2>3 DEF Flushing
  <1>9. ToldToAll' = ToldToAll
    <2>1. Len(pending') = 0
      BY <1>1
    <2>2. ToldToAll' = Len(records') - Len(pending') - Len(batch')
      BY DEF ToldToAll
    <2>3. ToldToAll' = (Len(records) + Len(more)) - 0 - (Len(pending) + Len(more))
      BY <1>3, <1>5, <2>1, <2>2
    <2> QED
      BY <1>3, <1>4, <2>3
  <1>10. AllHeard'
    BY <1>1, <1>2, <1>9, NobodyTold
  <1> QED
    BY <1>6, <1>7, <1>8, <1>10 DEF HistoryInv

LEMMA RecorderTurn == ASSUME HistoryInv, Recorder!Turn PROVE HistoryInv'
  <1>1. /\ ~delivering /\ Recorder!Dispatch /\ pending' = Recorder!Waiting
        /\ UNCHANGED <<batch, next, delivering, listeners, told>>
    BY DEF Recorder!Turn
  <1>2. PICK more : Dispatched(more)
    BY <1>1, DispatchAdds
  <1>3. /\ records' \in Seq(Rows) /\ Len(records') = Len(records) + Len(more) /\ Len(more) \in Nat
        /\ Len(records') > 0 /\ \A i \in 1..Len(records') : records'[i].seq = i
    BY <1>2, NumberedOn
  <1>4. /\ Len(records) \in Nat /\ Len(pending) \in Nat /\ Len(batch) = 0 /\ batch \in Seq(Rows)
        /\ ToldToAll = Len(records) - Len(pending)
    <2>1. /\ Len(records) \in Nat /\ Len(pending) \in Nat /\ Len(batch) \in Nat /\ ~(Len(batch) > 0)
          /\ ToldToAll = Len(records) - Len(pending)
      BY <1>1, Standing
    <2> QED
      BY <2>1 DEF HistoryInv, HistoryTypes
  <1>5. /\ pending' \in Seq(Rows) /\ Len(pending') = Len(pending) + Len(more) /\ Len(pending') < Len(records') + 1
        /\ Repeats(pending', records', Len(records') - Len(pending') + 1)
    BY <1>1, <1>2, WaitingRepeats
  <1>6. HistoryTypes'
    <2>1. /\ batch' \in Seq(Rows) /\ next' \in Nat \ {0} /\ delivering' \in BOOLEAN
          /\ listeners' \in Seq(Audience) /\ told' \in Seq(Seq(Rows)) /\ Len(told') = Len(listeners')
      BY <1>1 DEF HistoryInv, HistoryTypes
    <2>2. rejected' \in BOOLEAN /\ status' \in {"READY", "PAUSED", "COMPLETED", "FAILED"}
      BY <1>2 DEF Dispatched
    <2> QED
      BY <1>3, <1>5, <2>1, <2>2 DEF HistoryTypes
  <1>7. Recorder!SealedHonestly'
    BY <1>2 DEF Dispatched
  <1>8. Flushing'
    <2>1. Len(batch') = 0
      BY <1>1, <1>4
    <2>2. Len(batch') < Len(records') + 1 /\ Repeats(batch', records', Len(records') - Len(batch') + 1)
      BY <1>3, <1>4, <2>1 DEF Repeats
    <2>3. delivering' = (batch' # <<>>) /\ (delivering' => pending' = <<>>)
      BY <1>1 DEF HistoryInv, Flushing
    <2> QED
      BY <1>5, <2>2, <2>3 DEF Flushing
  <1>9. ToldToAll' = ToldToAll
    <2>1. Len(batch') = 0
      BY <1>1, <1>4
    <2>2. ToldToAll' = Len(records') - Len(pending') - Len(batch')
      BY DEF ToldToAll
    <2>3. ToldToAll' = (Len(records) + Len(more)) - (Len(pending) + Len(more)) - 0
      BY <1>3, <1>5, <2>1, <2>2
    <2> QED
      BY <1>3, <1>4, <2>3
  <1>10. AllHeard'
    BY <1>1, <1>2, <1>9, NobodyTold
  <1> QED
    BY <1>6, <1>7, <1>8, <1>10 DEF HistoryInv

LEMMA RecorderEndRun == ASSUME HistoryInv, Recorder!EndRun PROVE HistoryInv'
  <1>1. /\ ~delivering /\ batch' = pending /\ pending' = <<>> /\ next' = 1 /\ delivering' = (batch' # <<>>)
        /\ UNCHANGED <<status, records, sealed, rejected, listeners, told>>
    BY DEF Recorder!EndRun, Recorder!Flush
  <1>2. /\ Len(records) \in Nat /\ Len(pending) \in Nat /\ ToldToAll = Len(records) - Len(pending)
    BY <1>1, Standing
  <1>3. Len(pending') = 0
    BY <1>1
  <1>4. HistoryTypes'
    <2>1. next' \in Nat \ {0} /\ pending' \in Seq(Rows)
      BY <1>1
    <2>2. delivering' \in BOOLEAN
      BY <1>1
    <2> QED
      BY <1>1, <2>1, <2>2 DEF HistoryInv, HistoryTypes
  <1>5. Recorder!SealedHonestly'
    BY <1>1 DEF HistoryInv, Recorder!SealedHonestly
  <1>6. Flushing'
    <2>1. Len(pending') < Len(records') + 1 /\ Repeats(pending', records', Len(records') - Len(pending') + 1)
      BY <1>1, <1>2, <1>3 DEF Repeats
    <2>2. Len(batch') < Len(records') + 1 /\ Repeats(batch', records', Len(records') - Len(batch') + 1)
      BY <1>1 DEF HistoryInv, Flushing
    <2>3. delivering' = (batch' # <<>>) /\ (delivering' => pending' = <<>>)
      BY <1>1
    <2> QED
      BY <2>1, <2>2, <2>3 DEF Flushing
  <1>7. ToldToAll' = ToldToAll
    <2>1. ToldToAll' = Len(records) - 0 - Len(pending)
      BY <1>1, <1>3 DEF ToldToAll
    <2> QED
      BY <1>2, <2>1
  <1>8. AllHeard'
    BY <1>1, <1>7, NobodyTold
  <1> QED
    BY <1>4, <1>5, <1>6, <1>8 DEF HistoryInv

\* Whatever a listener does, it adds nothing to the history.
LEMMA ReenterAddsNothing ==
    ASSUME HistoryInv, delivering, Recorder!Reenter
    PROVE  /\ records' = records /\ Recorder!SealedHonestly'
           /\ rejected' \in BOOLEAN /\ status' \in {"READY", "PAUSED", "COMPLETED", "FAILED"}
  <1>1. CASE Recorder!Dispatch
    <2>1. PICK more : Dispatched(more)
      BY <1>1, DispatchAdds
    <2>2. records' = records \o <<>> /\ records \in Seq(Rows)
      BY <2>1 DEF Dispatched, HistoryInv, HistoryTypes
    <2>3. records' = records
      BY <2>2, ConcatEmptySeq
    <2> QED
      BY <2>1, <2>3 DEF Dispatched
  <1>2. CASE UNCHANGED <<left, status, records, sealed, rejected>>
    BY <1>2 DEF HistoryInv, HistoryTypes, Recorder!SealedHonestly
  <1> QED
    BY <1>1, <1>2 DEF Recorder!Reenter

LEMMA RecorderTell == ASSUME HistoryInv, Recorder!Tell PROVE HistoryInv'
  <1>1. /\ delivering /\ next <= Len(listeners) /\ listeners[next].active
        /\ listeners' = Recorder!React(next)
        /\ told' = [l \in DOMAIN listeners' |-> IF l = next THEN Append(told[l], batch[1])
                                                 ELSE IF l \in DOMAIN told THEN told[l] ELSE <<>>]
        /\ next' = next + 1 /\ Recorder!Reenter
        /\ UNCHANGED <<pending, batch, delivering>>
    BY DEF Recorder!Tell
  <1>2. /\ records' = records /\ Recorder!SealedHonestly'
        /\ rejected' \in BOOLEAN /\ status' \in {"READY", "PAUSED", "COMPLETED", "FAILED"}
    BY <1>1, ReenterAddsNothing
  <1>3. /\ next \in 1..Len(listeners) /\ Len(listeners) \in Nat /\ Len(told) = Len(listeners) /\ told \in Seq(Seq(Rows))
        /\ batch \in Seq(Rows) /\ records \in Seq(Rows) /\ DOMAIN told = 1..Len(listeners)
    BY <1>1 DEF HistoryInv, HistoryTypes
  <1>4. Heirs(listeners')
    BY <1>1, <1>3, ReactHeirs
  <1>5. /\ listeners' \in Seq(Audience) /\ DOMAIN listeners' = 1..Len(listeners') /\ Len(listeners') \in Nat
        /\ Len(listeners') \in {Len(listeners), Len(listeners) + 1}
    BY <1>4 DEF Heirs
  <1>6. /\ Len(batch) > 0 /\ Len(batch) \in Nat /\ Len(records) \in Nat /\ Len(batch) <= Len(records)
        /\ ToldToAll \in Nat /\ ToldToAll = Len(records) - Len(batch)
        /\ \A i \in 1..Len(batch) : batch[i] = records[Len(records) - Len(batch) + i]
    BY <1>1, Standing
  <1>7. batch[1] = records[ToldToAll + 1] /\ batch[1] \in Rows
    BY <1>3, <1>6
  <1>8. \A k \in 1..Len(listeners') : told'[k] = IF k = next THEN Append(told[k], batch[1])
                                                 ELSE IF k \in 1..Len(listeners) THEN told[k] ELSE <<>>
    BY <1>1, <1>3, <1>5
  <1>9. told' \in Seq(Seq(Rows)) /\ Len(told') = Len(listeners')
    <2>1. \A k \in 1..Len(listeners) : told[k] \in Seq(Rows)
      BY <1>3
    <2>2. \A k \in 1..Len(listeners) : Append(told[k], batch[1]) \in Seq(Rows)
      BY <1>7, <2>1, AppendProperties
    <2>3. <<>> \in Seq(Rows)
      OBVIOUS
    <2>4. \A k \in 1..Len(listeners') : told'[k] \in Seq(Rows)
      BY <1>3, <1>8, <2>1, <2>2, <2>3
    <2>5. told' = [k \in 1..Len(listeners') |-> told'[k]]
      BY <1>1, <1>5
    <2>6. told' \in [1..Len(listeners') -> Seq(Rows)]
      BY <2>4, <2>5
    <2>7. \A S : \A n \in Nat : \A f \in [1..n -> S] : f \in Seq(S) /\ Len(f) = n
      OBVIOUS
    <2> QED
      BY <1>5, <2>6, <2>7
  <1>10. HistoryTypes'
    <2>1. next' \in Nat \ {0}
      BY <1>1, <1>3
    <2> QED
      BY <1>1, <1>2, <1>5, <1>9, <2>1 DEF HistoryInv, HistoryTypes
  <1>11. Flushing'
    BY <1>1, <1>2 DEF HistoryInv, Flushing
  <1>12. ToldToAll' = ToldToAll
    BY <1>1, <1>2 DEF ToldToAll
  <1>13. ASSUME NEW k \in 1..Len(listeners') PROVE Heard(listeners'[k], told'[k], records', LastTold(k)')
    <2>1. LastTold(k)' = IF k < next + 1 THEN ToldToAll + 1 ELSE ToldToAll
      BY <1>1, <1>12 DEF LastTold
    <2>2. CASE k = next
      <3>1. /\ Heard(listeners[k], told[k], records, LastTold(k)) /\ listeners[k].from \in Nat \ {0} /\ told[k] \in Seq(Rows)
            /\ listeners[k].active /\ Len(told[k]) \in Nat
        BY <1>1, <1>3, <2>2, HeardBy
      <3>2. LastTold(k) = ToldToAll /\ LastTold(k)' = ToldToAll + 1
        BY <1>3, <2>1, <2>2 DEF LastTold
      <3>3. listeners[k].from + Len(told[k]) - 1 = ToldToAll
        BY <3>1, <3>2 DEF Heard
      <3> DEFINE trail == told'[k]
                 n == listeners[k].from
                 old == told[k]
      <3>4. /\ Len(trail) = Len(old) + 1 /\ \A i \in 1..Len(old) : trail[i] = old[i]
            /\ trail[Len(old) + 1] = batch[1]
        <4>1. trail = Append(old, batch[1])
          BY <1>8, <1>13, <2>2
        <4> HIDE DEF trail, old
        <4>2. old \in Seq(Rows)
          BY <3>1 DEF old
        <4> QED
          BY <1>7, <4>1, <4>2, AppendProperties
      <3>5. \A i \in 1..Len(old) : old[i] = records[n + i - 1]
        BY <3>1 DEF Heard, Repeats
      <3>10. listeners'[k].from = n
        BY <1>3, <1>4, <2>2 DEF Heirs
      <3>11. n \in Nat \ {0} /\ Len(old) \in Nat /\ n + Len(old) - 1 = ToldToAll
        BY <3>1, <3>3
      <3> HIDE DEF trail, n, old
      <3>6. n + (Len(old) + 1) - 1 = ToldToAll + 1
        BY <3>11
      <3>7. ASSUME NEW i \in 1..Len(trail) PROVE trail[i] = records[n + i - 1]
        <4>1. CASE i = Len(old) + 1
          BY <1>7, <3>4, <3>6, <4>1
        <4>2. CASE i # Len(old) + 1
          <5>1. i \in 1..Len(old)
            BY <3>4, <3>7, <3>11, <4>2
          <5> QED
            BY <3>4, <3>5, <5>1
        <4> QED
          BY <4>1, <4>2
      <3>8. n + Len(trail) <= Len(records) + 1 /\ n + Len(trail) - 1 = ToldToAll + 1
        BY <1>6, <3>4, <3>11
      <3>9. Repeats(trail, records, n)
        BY <3>7, <3>8 DEF Repeats
      <3>12. Repeats(told'[k], records', listeners'[k].from) /\ listeners'[k].from + Len(told'[k]) - 1 = ToldToAll + 1
        BY <1>2, <3>8, <3>9, <3>10 DEF trail
      <3> QED
        BY <3>2, <3>12 DEF Heard
    <2>3. CASE k # next /\ k \in 1..Len(listeners)
      <3>1. Heard(listeners[k], told[k], records, LastTold(k))
        BY <2>3, HeardBy
      <3>2. LastTold(k)' = LastTold(k)
        BY <1>1, <1>3, <2>1, <2>3 DEF LastTold
      <3>3. listeners'[k].from = listeners[k].from /\ (listeners'[k].active => listeners[k].active)
        BY <1>4, <2>3 DEF Heirs
      <3>4. told'[k] = told[k]
        BY <1>8, <1>13, <2>3
      <3> QED
        BY <1>2, <3>1, <3>2, <3>3, <3>4 DEF Heard
    <2>4. CASE k = Len(listeners) + 1
      <3>1. listeners'[k].from = ToldToAll + 1
        BY <1>4, <1>13, <2>4 DEF Heirs
      <3>2. told'[k] = <<>> /\ Len(told'[k]) = 0
        <4>1. k # next /\ k \notin 1..Len(listeners)
          BY <1>3, <2>4
        <4>2. told'[k] = <<>>
          BY <1>8, <1>13, <4>1
        <4> QED
          BY <4>2
      <3>3. Repeats(told'[k], records', ToldToAll + 1)
        BY <1>2, <1>6, <3>2 DEF Repeats
      <3>4. ToldToAll + 1 + Len(told'[k]) - 1 = ToldToAll
        BY <1>6, <3>2
      <3>5. LastTold(k)' = ToldToAll
        BY <1>3, <2>1, <2>4
      <3>6. Repeats(told'[k], records', listeners'[k].from) /\ listeners'[k].from + Len(told'[k]) - 1 = LastTold(k)'
        BY <3>1, <3>3, <3>4, <3>5
      <3> QED
        BY <3>6 DEF Heard
    <2>5. k \in 1..Len(listeners) \/ k = Len(listeners) + 1
      <3> DEFINE n == Len(listeners)
                 m == Len(listeners')
      <3>1. n \in Nat /\ m \in Nat /\ (m = n \/ m = n + 1) /\ k \in 1..m
        BY <1>3, <1>5, <1>13
      <3> HIDE DEF n, m
      <3>2. k \in 1..n \/ k = n + 1
        BY <3>1
      <3> QED
        BY <3>2 DEF n
    <2> QED
      BY <2>2, <2>3, <2>4, <2>5, Zenon
  <1>14. AllHeard'
    BY <1>13 DEF AllHeard
  <1> QED
    BY <1>2, <1>10, <1>11, <1>14 DEF HistoryInv

LEMMA HistoryStep == HistoryInv /\ [Recorder!Next]_historyVars => HistoryInv'
  <1> SUFFICES ASSUME HistoryInv, [Recorder!Next]_historyVars PROVE HistoryInv'
    OBVIOUS
  <1>1. CASE UNCHANGED historyVars
    BY <1>1 DEF historyVars, HistoryInv, HistoryTypes, Flushing, AllHeard, LastTold, ToldToAll, Recorder!SealedHonestly
  <1>2. CASE Recorder!Next
    BY <1>2, RecorderStep, RecorderTurn, RecorderEndRun, RecorderReset, RecorderSubscribe, RecorderUnsubscribe, RecorderNextRecord, RecorderSkip,
      RecorderTell DEF Recorder!Next
  <1> QED
    BY <1>1, <1>2

-----------------------------------------------------------------------------
(* One part moves in a run, and the others stay as they begin.             *)

LEMMA KernelParts ==
    ASSUME [KernelNext]_<<part, vars, serviceVars, faultVars, historyVars, capabilityVars>>
    PROVE  [External!Next]_serviceVars /\ [Faults!Next]_faultVars
           /\ [Recorder!Next]_historyVars /\ [Keepsakes!Next]_capabilityVars
  BY DEF KernelNext, Others, Still

KernelInv == ServiceInv /\ FaultsInv /\ HistoryInv /\ KeepsakesInv

LEMMA KernelStep ==
    ASSUME KernelInv, [KernelNext]_<<part, vars, serviceVars, faultVars, historyVars, capabilityVars>>
    PROVE  KernelInv'
  BY KernelParts, ServiceStep, ServiceStill, FaultsStep, HistoryStep, KeepsakesStep DEF KernelInv

LEMMA KernelKept == KernelSpec => []KernelInv
  <1>1. KernelInit => KernelInv
    BY ServiceInit, FaultsInit, HistoryInit, KeepsakesInit DEF KernelInit, KernelInv
  <1> QED
    BY <1>1, KernelStep, PTL DEF KernelSpec

\* Whatever is asked, lost and retried, and whenever the terms change or the
\* run fails, the counters of an external service agree with its work in hand.
THEOREM ProviderBooksAgree == KernelSpec => []ProviderBooksMatch
  <1>1. KernelInv => ProviderBooksMatch
    BY BooksAreBooked DEF KernelInv, ServiceInv, ProviderBooksMatch
  <1> QED
    BY <1>1, KernelKept, PTL

\* Whatever is probed, drawn and scheduled, every decision of the fault engine is
\* what the probes and draws since the reset call for.
THEOREM FaultsFollowProbes == KernelSpec => []DecisionsFollowProbes
  <1>1. KernelInv => DecisionsFollowProbes
    BY DEF KernelInv, FaultsInv, DecisionsFollowProbes
  <1> QED
    BY <1>1, KernelKept, PTL

\* Whoever throws, leaves, joins or is dismissed while others are told, each
\* listener is told consecutive records in order; the history is sealed when
\* the run fails, saying whether all was recorded; and a query answered from an
\* index finds what a reading of the records would.
THEOREM HistoryTold == KernelSpec => []HistoryIsTold
  <1>1. KernelInv => HistoryIsTold
    BY HistoryHolds, QueriesLinear DEF KernelInv, HistoryInv, HistoryIsTold
  <1> QED
    BY <1>1, KernelKept, PTL

\* Whatever model code keeps and calls later, nothing it kept serves a run,
\* process or component that is not at work.
THEOREM KeepsakesFenced == KernelSpec => []Fenced
  <1>1. KernelInv => Fenced
    BY DEF KernelInv, KeepsakesInv, Fenced
  <1> QED
    BY <1>1, KernelKept, PTL

LEMMA KeptStill ==
    UNCHANGED serviceVars =>
        UNCHANGED <<serviceTime, (serviceStatus = "RUNNING"), [r \in Requests |-> External!Terms(r)],
                    External!Promised, applied, answered>>
  BY DEF serviceVars, External!Terms, External!Refusal, External!Delay, External!Promised, External!DueOf,
    External!Drops, External!Pending

\* Whatever the scenario changes between acceptance, arrival, effect and response,
\* an external service is the provider of Provider: it keeps the terms of the
\* instant of acceptance.
THEOREM ServiceIsAProvider == KernelSpec => ImplementsProvider
  <1>1. KernelInit => External!Kept!Init
    BY ServesInit DEF KernelInit
  <1>2. KernelInv /\ KernelInv' /\ [KernelNext]_<<part, vars, serviceVars, faultVars, historyVars, capabilityVars>> =>
           [External!Kept!Next]_<<serviceTime, (serviceStatus = "RUNNING"), [r \in Requests |-> External!Terms(r)],
                                  External!Promised, applied, answered>>
    BY KernelParts, KeptStill, ServesStep DEF KernelInv
  <1> QED
    BY <1>1, <1>2, KernelKept, PTL DEF KernelSpec, ImplementsProvider, External!ImplementsProvider, External!Kept!Spec

=============================================================================
