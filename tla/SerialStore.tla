------------------------------ MODULE SerialStore ------------------------------
(***************************************************************************)
(* What a database promises the tasks of its service: a committed          *)
(* transaction ran as if alone, at the instant of its commit.  The first   *)
(* writer to commit wins; the transactions it overtakes are refused, and   *)
(* no other is refused for a conflict.                                     *)
(***************************************************************************)
EXTENDS Integers

CONSTANTS Tasks, Keys, Rows, Numbers, Consistent(_)

VARIABLES
    store,       \* the committed rows: at most one per key
    active,      \* the transactions that may still commit
    generation,  \* the life of the service
    outcome      \* what the last commit that was answered was told

vars == <<store, active, generation, outcome>>

New(n, t) == [id |-> n, task |-> t, start |-> store, local |-> store,
              wrote |-> FALSE, overtaken |-> FALSE, submitted |-> FALSE]

\* No identifier is given twice to transactions that are active.
Fresh == {n \in Numbers : \A x \in active : x.id # n}

Begin == \E t \in Tasks : \E n \in Fresh :
            /\ \A x \in active : x.task = t => x.submitted
            /\ active' = active \cup {New(n, t)}
            /\ UNCHANGED <<store, generation, outcome>>

Write(x) == \E k \in Keys : \E row \in {{}} \cup {{r} : r \in Rows} :
    /\ ~x.submitted
    /\ active' = (active \ {x}) \cup {[x EXCEPT !.local = [@ EXCEPT ![k] = row], !.wrote = TRUE]}
    /\ UNCHANGED <<store, generation, outcome>>

\* A task may begin its next transaction before it waits for this one.
Submit(x) ==
    /\ ~x.submitted
    /\ \E more \in {{}} \cup {{New(n, x.task)} : n \in Fresh} :
          active' = (active \ {x}) \cup {[x EXCEPT !.submitted = TRUE]} \cup more
    /\ UNCHANGED <<store, generation, outcome>>

RollBack(x) ==
    /\ ~x.submitted
    /\ active' = active \ {x}
    /\ UNCHANGED <<store, generation, outcome>>

\* All of its writes, at once, over the very rows it started from.
Commit(x) ==
    /\ x.submitted /\ ~x.overtaken
    /\ x.start = store
    /\ Consistent(x.local)
    /\ store' = x.local
    /\ active' = {[y EXCEPT !.overtaken = @ \/ x.wrote] : y \in active \ {x}}
    /\ outcome' = [id |-> x.id, result |-> "committed"]
    /\ UNCHANGED generation

Refuse(x) ==
    /\ x.submitted
    /\ \/ outcome' = [id |-> x.id, result |-> "COMMIT_FAILED"]
       \/ x.overtaken /\ outcome' = [id |-> x.id, result |-> "TRANSACTION_CONFLICT"]
       \/ /\ ~x.overtaken /\ ~Consistent(x.local)
          /\ outcome' = [id |-> x.id, result |-> "CONSTRAINT_VIOLATION"]
    /\ active' = active \ {x}
    /\ UNCHANGED <<store, generation>>

\* Nothing of a life survives it but what it committed.
Crash ==
    /\ generation' = generation + 1
    /\ active' = {}
    /\ UNCHANGED <<store, outcome>>

Init ==
    /\ store \in [Keys -> {{}} \cup {{r} : r \in Rows}]
    /\ Consistent(store)
    /\ active = {} /\ generation = 0
    /\ outcome.result = "none"

Next == Begin \/ Crash \/ \E x \in active : Write(x) \/ Submit(x) \/ RollBack(x) \/ Commit(x) \/ Refuse(x)

Spec == Init /\ [][Next]_vars
=============================================================================
