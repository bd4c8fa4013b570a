-------------------------------- MODULE TtlMap --------------------------------
(***************************************************************************)
(* What a key-value store promises its owner: a map whose entries vanish   *)
(* at the instant they expire, whatever the order of the events of that    *)
(* instant, and whose conditional writes see what a read would.            *)
(***************************************************************************)
EXTENDS Integers

CONSTANTS Keys, Texts, MaxCounter, Ttls

VARIABLES
    now,    \* the time
    store,  \* [Keys -> at most one entry]
    reply   \* what the last operation returned

vars == <<now, store, reply>>

Values == Texts \cup (0..MaxCounter)

\* An entry says when it vanishes, if ever.
Living(t) == [k \in Keys |-> {x \in store[k] : \A u \in x.until : t < u}]

\* ttl is a set: empty for an entry that stays.
Put(k, v, ttl) == [store EXCEPT ![k] = {[value |-> v, until |-> {now + d : d \in ttl}]}]

Lifetimes == {{}} \cup {{d} : d \in Ttls}

\* What the owner was told: the key, the result and a value at most.
Told(k, result) == reply'.key = k /\ reply'.result = result

Get(k) == /\ Told(k, "value")
          /\ reply'.value = {x.value : x \in store[k]}
          /\ UNCHANGED store

\* Unconditional, or only if the key is absent.
Set(k) ==
    \/ /\ Told(k, "set") \/ (Told(k, "created") /\ store[k] = {})
       /\ \E v \in Values, ttl \in Lifetimes : store' = Put(k, v, ttl)
    \/ /\ Told(k, "present")
       /\ store[k] # {}
       /\ UNCHANGED store

Delete(k) == /\ Told(k, IF store[k] = {} THEN "absent" ELSE "deleted")
             /\ store' = [store EXCEPT ![k] = {}]

\* A counter keeps its expiry; a new one has none.
Increment(k) ==
    \/ /\ Told(k, "counter")
       /\ store[k] = {}
       /\ reply'.value = {1}
       /\ store' = [store EXCEPT ![k] = {[value |-> 1, until |-> {}]}]
    \/ /\ Told(k, "counter")
       /\ \E x \in store[k] : /\ x.value \in 0..(MaxCounter - 1)
                             /\ reply'.value = {x.value + 1}
                             /\ store' = [store EXCEPT ![k] = {[x EXCEPT !.value = @ + 1]}]
    \/ /\ Told(k, "refused")
       /\ \E x \in store[k] : x.value \notin 0..(MaxCounter - 1)
       /\ UNCHANGED store

\* The reply's value is the value expected: none for an absent key.
CompareAndSet(k) ==
    \/ /\ Told(k, "swapped")
       /\ reply'.value = {x.value : x \in store[k]}
       /\ \E v \in Values, ttl \in Lifetimes : store' = Put(k, v, ttl)
    \/ /\ Told(k, "mismatch")
       /\ reply'.value # {x.value : x \in store[k]}
       /\ UNCHANGED store

Operation == /\ \E k \in Keys : Get(k) \/ Set(k) \/ Delete(k) \/ Increment(k) \/ CompareAndSet(k)
             /\ UNCHANGED now

\* Time passes, and takes the entries that expire with it.
Tick == /\ now' \in Nat /\ now' > now
        /\ store' = Living(now')
        /\ UNCHANGED reply

Init == /\ now = 0
        /\ store \in [Keys -> {{}} \cup {{x} : x \in [value : Values, until : Lifetimes]}]
        /\ reply.result = "none"

Next == Operation \/ Tick

Spec == Init /\ [][Next]_vars
=============================================================================
