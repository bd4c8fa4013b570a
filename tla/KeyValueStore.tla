---------------------------- MODULE KeyValueStore ----------------------------
(***************************************************************************)
(* DeterministicKeyValueStore, packages/kernel/src/key-value-store.ts: one *)
(* service's keys, with expirations that are events of the run.  Every     *)
(* write gives the key a new generation, schedules the expiry of that      *)
(* generation and cancels the previous one; an operation that finds an     *)
(* entry past its expiry removes it before the event comes.                *)
(*                                                                         *)
(* The owner's tasks run any operation at any instant, before or after the *)
(* expiries due at it.  A value is a counter or a member of Texts.  The    *)
(* observations kept are the expirations, with their generations.          *)
(***************************************************************************)
EXTENDS Integers, Sequences, FiniteSets

CONSTANTS
    Keys,
    Texts,         \* values that are not numbers
    MaxCounter,    \* Number.MAX_SAFE_INTEGER for a counter
    Ttls,          \* durations
    Initial,       \* [Keys -> at most one [value, ttl]]: definition.initial
    MaxGeneration, \* Number.MAX_SAFE_INTEGER for a generation
    MaxTime        \* bound: the end of the run

Values == Texts \cup (0..MaxCounter)

\* An optional duration or time is a set of at most one.
Optional(S) == {x \in SUBSET S : \A a, b \in x : a = b}

ASSUME StoreAssumption ==
    /\ Keys # {} /\ MaxCounter \in Nat \ {0} /\ MaxGeneration \in Nat /\ MaxTime \in Nat
    /\ Texts \cap (0..MaxCounter) = {}
    /\ Ttls \subseteq Nat \ {0}
    /\ Initial \in [Keys -> Optional([value : Values, ttl : Optional(Ttls)])]

VARIABLES
    now,         \* the clock
    entries,     \* #entries
    generations, \* #generations, zero when undefined
    agenda,      \* the pending expiries
    expired,     \* the kv.expired observations of each key: their generations
    reply        \* what the last operation returned

vars == <<now, entries, generations, agenda, expired, reply>>

Entry == [value : Values, expiresAt : Optional(Nat), generation : Nat]

Expiry == [key : Keys, generation : Nat, time : Nat]

-----------------------------------------------------------------------------
(* Parts of the operations                                                  *)

\* Faulty variant: an entry still lives at its expiry.
LiveInclusive(x) == \A t \in x.expiresAt : now <= t

\* #live: what an operation finds of an entry.
Live(x) == \A t \in x.expiresAt : now < t

\* The entry of k that an operation works on: at most one.
Found(k) == {x \in entries[k] : Live(x)}

Answer(k, result, value) == reply' = [key |-> k, result |-> result, value |-> value]

\* What is left of the entry of k once the stored ones are expired.
ExpireRemoved(k, stored) == entries[k] \ stored

\* Faulty variant: the expiry of the entry that is replaced stays pending.
CancelledNone(k) == {}

\* handle.cancel: the expiry event of the entry of k, if still pending.
Cancelled(k) == {e \in agenda : e.key = k /\ \E x \in entries[k] : x.generation = e.generation}

\* #live, when it finds an entry past its expiry: #expire.  The operation
\* then goes on with the key absent.
Swept(k) == entries[k] \ Found(k)

RecordSwept(k) ==
    expired' = IF Swept(k) = {} THEN expired
               ELSE [expired EXCEPT ![k] = Append(@, (CHOOSE x \in Swept(k) : TRUE).generation)]

\* An operation that ends without a write: only the sweep shows.
Leave(k) ==
    /\ entries' = [entries EXCEPT ![k] = ExpireRemoved(k, Swept(k))]
    /\ agenda' = IF Swept(k) = {} THEN agenda ELSE agenda \ Cancelled(k)
    /\ RecordSwept(k)
    /\ UNCHANGED <<now, generations>>

\* #next
NextGeneration(k) == generations[k] + 1

\* #write, and the end of increment: a new generation of k with the expiry
\* due, in place of the entry found.
Write(k, v, due) ==
    LET g == NextGeneration(k)
    IN  /\ g <= MaxGeneration
        /\ entries' = [entries EXCEPT ![k] = {[value |-> v, expiresAt |-> due, generation |-> g]}]
        /\ generations' = [generations EXCEPT ![k] = g]
        /\ agenda' = (agenda \ Cancelled(k)) \cup {[key |-> k, generation |-> g, time |-> t] : t \in due}
        /\ RecordSwept(k)
        /\ UNCHANGED now

\* #due
Due(ttl) == {now + d : d \in ttl}

-----------------------------------------------------------------------------
(* The operations of the owner                                              *)

Get(k) == Leave(k) /\ Answer(k, "value", {x.value : x \in Found(k)})

Set(k, v, ttl, ifAbsent) ==
    \/ /\ ~ifAbsent \/ Found(k) = {}
       /\ Write(k, v, Due(ttl))
       /\ Answer(k, IF ifAbsent THEN "created" ELSE "set", {})
    \/ /\ ifAbsent /\ Found(k) # {}
       /\ NextGeneration(k) <= MaxGeneration
       /\ Leave(k)
       /\ Answer(k, "present", {})

Delete(k) ==
    /\ entries' = [entries EXCEPT ![k] = {}]
    /\ agenda' = agenda \ Cancelled(k)
    /\ RecordSwept(k)
    /\ UNCHANGED <<now, generations>>
    /\ Answer(k, IF Found(k) = {} THEN "absent" ELSE "deleted", {})

Countable(x) == x.value \in 0..(MaxCounter - 1)

\* increment: refused when the value is not a number or is the greatest.
Increment(k) ==
    \/ /\ Found(k) = {}
       /\ Write(k, 1, {})
       /\ Answer(k, "counter", {1})
    \/ \E x \in Found(k) :
          /\ Countable(x)
          /\ Write(k, x.value + 1, x.expiresAt)
          /\ Answer(k, "counter", {x.value + 1})
    \/ \E x \in Found(k) :
          /\ ~Countable(x)
          /\ NextGeneration(k) <= MaxGeneration
          /\ Leave(k)
          /\ Answer(k, "refused", {})

CompareAndSet(k, expected, v, ttl) ==
    \/ /\ expected = {x.value : x \in Found(k)}
       /\ Write(k, v, Due(ttl))
       /\ Answer(k, "swapped", expected)
    \/ /\ expected # {x.value : x \in Found(k)}
       /\ NextGeneration(k) <= MaxGeneration
       /\ Leave(k)
       /\ Answer(k, "mismatch", expected)

Operation ==
    \E k \in Keys :
        \/ Get(k) \/ Delete(k) \/ Increment(k)
        \/ \E v \in Values, ttl \in Optional(Ttls) :
              \/ \E ifAbsent \in BOOLEAN : Set(k, v, ttl, ifAbsent)
              \/ \E expected \in Optional(Values) : CompareAndSet(k, expected, v, ttl)

-----------------------------------------------------------------------------
(* The run around the store                                                 *)

\* kv.expiry.<owner>: the handler expires the generation it was scheduled
\* for, unless the entry is another by now.
Expire(e) ==
    LET stored == {x \in entries[e.key] : x.generation = e.generation
                                          /\ \E t \in x.expiresAt : now' >= t}
    IN  /\ \A f \in agenda : e.time <= f.time
        /\ now' = e.time
        /\ agenda' = agenda \ {e}
        /\ entries' = [entries EXCEPT ![e.key] = ExpireRemoved(e.key, stored)]
        /\ expired' = IF stored = {} THEN expired
                      ELSE [expired EXCEPT ![e.key] = Append(@, e.generation)]
        /\ UNCHANGED <<generations, reply>>

\* Another event of the run brings its time.
Advance ==
    /\ \E t \in (now + 1)..MaxTime : now' = t /\ \A e \in agenda : t <= e.time
    /\ UNCHANGED <<entries, generations, agenda, expired, reply>>

\* The constructor and scheduleInitialExpiries.
Init ==
    /\ now = 0
    /\ entries = [k \in Keys |-> {[value |-> x.value, expiresAt |-> x.ttl, generation |-> 0] : x \in Initial[k]}]
    /\ generations = [k \in Keys |-> 0]
    /\ agenda = UNION {UNION {{[key |-> k, generation |-> 0, time |-> t] : t \in x.ttl} : x \in Initial[k]} : k \in Keys}
    /\ expired = [k \in Keys |-> <<>>]
    /\ reply = [key |-> CHOOSE k \in Keys : TRUE, result |-> "none", value |-> {}]

Next == Operation \/ (\E e \in agenda : Expire(e)) \/ Advance

Spec == Init /\ [][Next]_vars

-----------------------------------------------------------------------------
(* Properties                                                               *)

\* Every variable stays in its type; a key has at most one entry.
TypeOK ==
    /\ now \in Nat
    /\ entries \in [Keys -> Optional(Entry)]
    /\ generations \in [Keys -> Nat]
    /\ agenda \subseteq Expiry
    /\ expired \in [Keys -> Seq(Nat)]
    /\ reply \in [key : Keys, value : Optional(Values),
                  result : {"none", "value", "set", "created", "present", "deleted",
                            "absent", "counter", "refused", "swapped", "mismatch"}]

\* The pending expiries are those of the entries that have one, each for its
\* present generation and time: replacing, deleting, counting and expiring
\* by an operation never leave one behind, and never lose one (KV-INV-3).
ExpiriesMatch ==
    /\ \A k \in Keys : \A x \in entries[k] : \A t \in x.expiresAt :
          [key |-> k, generation |-> x.generation, time |-> t] \in agenda
    /\ \A e \in agenda : \E x \in entries[e.key] :
          x.generation = e.generation /\ x.expiresAt = {e.time}

\* An entry is observed to expire at most once, whether an operation or its
\* event finds it first, and one that was replaced in time never is.
ExpiredOnce ==
    \A k \in Keys :
        /\ \A i, j \in DOMAIN expired[k] : i < j => expired[k][i] < expired[k][j]
        /\ \A x \in entries[k] : \A i \in DOMAIN expired[k] : expired[k][i] < x.generation

\* Entries, generations, pending expiries and observed ones agree, through
\* replacement, counting, deletion and expiry found by either side.
ExpiriesExact == TypeOK /\ ExpiriesMatch /\ ExpiredOnce

\* The owner's map: what an operation would find of each key.
Shown(x) == [value |-> x.value, until |-> x.expiresAt]
View == [k \in Keys |-> {Shown(x) : x \in Found(k)}]

\* To its owner the store is a map whose entries vanish exactly when they
\* expire (KV-INV-1), with indivisible conditional writes (KV-INV-2); the
\* expiry events are invisible.
Map == INSTANCE TtlMap WITH store <- View

ImplementsTtlMap == Map!Spec
=============================================================================
