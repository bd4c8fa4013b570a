------------------------------- MODULE History -------------------------------
(***************************************************************************)
(* The execution history of a run, packages/kernel/src/history.ts, as the  *)
(* controls of the simulation drive it (simulation.ts): a control          *)
(* dispatches an event, which appends observations, and notifies the       *)
(* listeners once it has released its lock; a failure seals the history.   *)
(*                                                                         *)
(* A listener is told one observation per step; what it does is its kind:  *)
(* "quiet", "leaves" (throws, or unsubscribes itself), "dismisses"         *)
(* (unsubscribes the others), "joins" (subscribes one more) or "steps"     *)
(* (calls the step of the simulation).  Visibility, the validation of      *)
(* observations and the trace and event of a record are left out; the      *)
(* latter are indexed as the type is.                                      *)
(***************************************************************************)
EXTENDS Naturals, Sequences, FiniteSets, SequencesExt

CONSTANTS
    Bursts,        \* the observations a handler may append: sequences of
                   \* [type, source, target, entities], target "none" if there is none
    Kinds,         \* kinds of listeners that subscribe
    Limit,         \* historyLimit
    Events,        \* events of the run's agenda
    MaxListeners

VARIABLES
    left,          \* events not taken yet
    status,        \* of the simulation
    records,
    sealed,        \* <<>>, or <<historyComplete>>
    rejected,      \* an append was rejected in this attempt
    pending,       \* records to notify
    batch,         \* records of the flush under way, the first one being told
    next,          \* the listener to tell it next
    delivering,
    listeners,     \* Seq([kind, active, from]); from: the first record it can be told
    told           \* what each was told, in order

vars == <<left, status, records, sealed, rejected, pending, batch, next, delivering, listeners, told>>
Kernel(type) == [type |-> type, source |-> "simulation", target |-> "none", entities |-> <<>>]

\* An observation as the record with number n.
RecordOf(o, n) == [type |-> o.type, source |-> o.source, target |-> o.target, entities |-> o.entities, seq |-> n]
Created == <<RecordOf(Kernel("created"), 1)>>

-----------------------------------------------------------------------------
(* Queries.                                                                 *)

Matches(r, f) == /\ f.type \in {"any", r.type}
                 /\ f.component \in {"any", r.source, r.target}
                 /\ f.entity = "any" \/ \E i \in DOMAIN r.entities : r.entities[i] = f.entity

\* Sequences one after the other.
InOrder(s) == LET upto[n \in 0..Len(s)] == IF n = 0 THEN <<>> ELSE upto[n - 1] \o s[n] IN upto[Len(s)]

\* What index adds of one record to the list of a type, of a component or of
\* an entity.
TypeEntries(r, t) == IF r.type = t THEN <<r>> ELSE <<>>
ComponentEntries(r, c) == (IF r.source = c THEN <<r>> ELSE <<>>) \o (IF r.target = c THEN <<r>> ELSE <<>>)
EntityEntries(r, e) == [k \in 1..Cardinality({i \in DOMAIN r.entities : r.entities[i] = e}) |-> r]

ByType(t) == InOrder([i \in DOMAIN records |-> TypeEntries(records[i], t)])
ByComponent(c) == InOrder([i \in DOMAIN records |-> ComponentEntries(records[i], c)])
ByEntity(e) == InOrder([i \in DOMAIN records |-> EntityEntries(records[i], e)])

\* The first index a filter names gives the candidates; without one, or when
\* it has no list, all records do.
Indexed(f) == CASE f.type # "any" -> ByType(f.type)
                [] f.type = "any" /\ f.component # "any" -> ByComponent(f.component)
                [] f.type = "any" /\ f.component = "any" /\ f.entity # "any" -> ByEntity(f.entity)
                [] OTHER -> <<>>
Candidates(f) == IF Indexed(f) = <<>> THEN records ELSE Indexed(f)

Kept(r, f) == IF Matches(r, f) THEN <<r>> ELSE <<>>
Query(f) == LET all == Candidates(f) IN InOrder([i \in DOMAIN all |-> Kept(all[i], f)])

-----------------------------------------------------------------------------
(* Appending and failing.                                                   *)

\* record, one observation after the other: what fits before the limit.
Room == IF delivering THEN 0 ELSE Limit - Len(records)
Fitting(inputs) == SubSeq(inputs, 1, IF Len(inputs) < Room THEN Len(inputs) ELSE Room)
Numbered(inputs) == [i \in DOMAIN inputs |-> RecordOf(inputs[i], Len(records) + i)]

\* #terminal records the failure and seals.
Failing == <<Kernel("event.failed"), Kernel("failed")>>

\* Faulty variant: the seal tells only whether the event itself was recorded.
CompleteBefore(inputs, fails) == Len(inputs) <= Room

\* historyComplete: no append was rejected.
Complete(inputs, fails) == Len(inputs \o fails) <= Room

\* An event appends inputs, then the records of its failure, if any.
Recorded(inputs, fails) ==
    LET all == Numbered(Fitting(inputs \o fails)) IN
    /\ records' = records \o all
    /\ rejected' = (rejected \/ Len(all) < Len(inputs \o fails))
    /\ IF fails = <<>> /\ Len(all) = Len(inputs)
       THEN status' = (IF left' = 0 THEN "COMPLETED" ELSE "PAUSED") /\ UNCHANGED sealed
       ELSE status' = "FAILED" /\ sealed' = <<Complete(inputs, fails)>>

\* #dispatch: taken, started, what the handler appends, completed.
CanDispatch == status \in {"READY", "PAUSED"} /\ left > 0
Dispatch ==
    /\ CanDispatch
    /\ left' = left - 1
    /\ \E own \in Bursts, ok \in BOOLEAN :
          Recorded(<<Kernel("dispatched"), Kernel("started")>> \o own
                     \o (IF ok THEN <<Kernel("completed")>> ELSE <<>>)
                     \o (IF ok /\ left = 1 THEN <<Kernel("simulation.completed")>> ELSE <<>>),
                   IF ok THEN <<>> ELSE Failing)

-----------------------------------------------------------------------------
(* Controls and notifications.                                              *)

\* What waits after a dispatch.
Waiting == pending \o SubSeq(records', Len(records) + 1, Len(records'))

\* flushNotifications takes what is pending, once the lock is released.
Flush(waiting) ==
    /\ batch' = waiting /\ pending' = <<>> /\ next' = 1
    /\ delivering' = (waiting # <<>>)
    /\ UNCHANGED <<listeners, told>>

\* step(), and the last turn of run().
Step == ~delivering /\ Dispatch /\ Flush(Waiting)

\* A turn of run() that is not its last: the records wait, and code that reads the
\* history may subscribe and leave when run() yields.
Turn == /\ ~delivering
        /\ Dispatch /\ status' = "PAUSED"
        /\ pending' = Waiting
        /\ UNCHANGED <<batch, next, delivering, listeners, told>>

\* run() ends without a further event: paused at a yield, or given none.
EndRun == /\ ~delivering /\ pending # <<>>
          /\ Flush(pending)
          /\ UNCHANGED <<left, status, records, sealed, rejected>>

\* Between two turns; other controls are refused then.
Running == Len(pending) > 1

\* reset(): a new history, without the listeners of the old one.
Reset == /\ ~delivering /\ ~Running
         /\ left' = Events
         /\ status' = "READY"
         /\ records' = Created
         /\ sealed' = <<>> /\ rejected' = FALSE
         /\ pending' = <<>> /\ batch' = <<>> /\ next' = 1 /\ delivering' = FALSE
         /\ listeners' = <<>> /\ told' = <<>>

\* Faulty variant: a listener that joins a flush waits for the next record.
FromNext == IF delivering THEN batch[1].seq + 1 ELSE IF pending # <<>> THEN pending[1].seq ELSE Len(records) + 1

\* The first record a new listener can be told.
From == CASE delivering -> batch[1].seq
          [] ~delivering /\ pending # <<>> -> pending[1].seq
          [] OTHER -> Len(records) + 1

Joined(kind) == Append(listeners, [kind |-> kind, active |-> TRUE, from |-> From])

Subscribe == /\ ~delivering
             /\ Len(listeners) < MaxListeners
             /\ \E kind \in Kinds : listeners' = Joined(kind)
             /\ told' = Append(told, <<>>)
             /\ UNCHANGED <<left, status, records, sealed, rejected, pending, batch, next, delivering>>

Unsubscribe == /\ ~delivering
               /\ \E l \in DOMAIN listeners :
                     listeners[l].active /\ listeners' = [listeners EXCEPT ![l].active = FALSE]
               /\ UNCHANGED <<left, status, records, sealed, rejected, pending, batch, next, delivering, told>>

\* Every listener was told, or passed over: the next record.
NextRecord == /\ delivering
              /\ next > Len(listeners)
              /\ batch' = Tail(batch)
              /\ next' = 1
              /\ delivering' = (batch' # <<>>)
              /\ UNCHANGED <<left, status, records, sealed, rejected, pending, listeners, told>>

Skip == /\ delivering
        /\ next <= Len(listeners)
        /\ ~listeners[next].active
        /\ next' = next + 1
        /\ UNCHANGED <<left, status, records, sealed, rejected, pending, batch, delivering, listeners, told>>

\* A listener that throws is disabled, one that unsubscribes leaves.
React(l) == LET others == [k \in DOMAIN listeners |-> [listeners[k] EXCEPT !.active = k = l /\ @]] IN
    CASE listeners[l].kind = "leaves" -> [listeners EXCEPT ![l].active = FALSE]
      [] listeners[l].kind = "dismisses" -> others
      [] listeners[l].kind = "joins" /\ Len(listeners) < MaxListeners -> Joined("quiet")
      [] OTHER -> listeners

\* A listener's own step: the lock is free, so the event is taken, and the
\* record of that is rejected.
Reenter == IF listeners[next].kind = "steps" /\ CanDispatch THEN Dispatch
           ELSE UNCHANGED <<left, status, records, sealed, rejected>>

Tell == /\ delivering
        /\ next <= Len(listeners)
        /\ listeners[next].active
        /\ listeners' = React(next)
        /\ told' = [l \in DOMAIN listeners' |-> IF l = next THEN Append(told[l], batch[1])
                                                 ELSE IF l \in DOMAIN told THEN told[l] ELSE <<>>]
        /\ next' = next + 1
        /\ Reenter
        /\ UNCHANGED <<pending, batch, delivering>>

Init == /\ left = Events
        /\ status = "READY"
        /\ records = Created
        /\ sealed = <<>> /\ rejected = FALSE
        /\ pending = Created /\ batch = <<>> /\ next = 1 /\ delivering = FALSE
        /\ listeners = <<>> /\ told = <<>>

Next == Step \/ Turn \/ EndRun \/ Reset \/ Subscribe \/ Unsubscribe \/ NextRecord \/ Skip \/ Tell

Spec == Init /\ [][Next]_vars

-----------------------------------------------------------------------------

\* Each listener is told consecutive records in the order of the history, from
\* its subscription on and up to the last control, whoever throws, leaves,
\* joins or is dismissed while the others are being told (history.ts:93-105).
ToldInOrder == \A l \in DOMAIN listeners : LET last == listeners[l].from + Len(told[l]) - 1 IN
    /\ told[l] = SubSeq(records, listeners[l].from, last)
    /\ listeners[l].active /\ ~delivering => last = Len(records) - Len(pending)

\* A run fails exactly when its history is sealed, which is at the limit or
\* before; the seal admits every append that was rejected, and otherwise the
\* history ends with the failure (simulation.ts:415-432, history.ts:52-65).
SealedHonestly ==
    /\ (sealed # <<>>) = (status = "FAILED")
    /\ Len(records) <= Limit
    /\ rejected => sealed = <<FALSE>>
    /\ sealed = <<TRUE>> => records[Len(records)].type = "failed" /\ records[Len(records) - 1].type = "event.failed"

Filters == [type : {"any"} \cup {r.type : r \in ToSet(records)},
            component : ({"any"} \cup UNION {{r.source, r.target} : r \in ToSet(records)}) \ {"none"},
            entity : {"any"} \cup UNION {ToSet(r.entities) : r \in ToSet(records)}]

\* "Rebuilt indexes return results equal to linear reference queries over
\* canonical history" (docs/spec/observability.md:366), while each record names
\* a component and an entity once: a query has the records that match, each
\* once and in their order, whichever index it is read from
\* (history.ts:66-77, 130-134).
QueryIsLinear ==
    (\A r \in ToSet(records) : r.source # r.target /\ IsInjective(r.entities)) =>
        \A f \in Filters : LET found == Query(f) IN
            /\ ToSet(found) = {r \in ToSet(records) : Matches(r, f)}
            /\ \A i, j \in DOMAIN found : i < j => found[i].seq < found[j].seq

\* "Subscriber, index, query, export, or projection behavior cannot change
\* simulation scheduling, time, random state, business state, or history"
\* (docs/spec/observability.md:258).
ListenersHarmless == [][delivering => UNCHANGED <<left, status, records, sealed>>]_vars
=============================================================================
