------------------------------ MODULE Scheduler ------------------------------
(***************************************************************************)
(* DeterministicScheduler, packages/kernel/src/scheduler.ts: the agenda of *)
(* a run as a binary heap with an index from event to position, which      *)
(* #remove uses to take an event out of the middle.  The kernel's dispatch *)
(* advances the clock to each event it takes (simulation.ts 443-453).      *)
(*                                                                         *)
(* An event is its due time and sequence number; payloads and correlation  *)
(* are left out, and so are drafts the scheduler refuses, which change     *)
(* nothing.  Number.MAX_SAFE_INTEGER is MaxSequence here, small enough to  *)
(* be reached.  Positions count from 1, as sequences of TLA+ do.           *)
(***************************************************************************)
EXTENDS Naturals, Sequences, FiniteSets, SequencesExt, KernelOps

CONSTANTS
    Times,        \* due times
    MaxSequence,  \* Number.MAX_SAFE_INTEGER
    MaxEra,       \* bound: how often a scheduler is reset or restored
    MaxRestarted  \* bound: events scheduled since, or once its state was asked for

ASSUME SchedulerAssumption ==
    Times \subseteq Nat /\ MaxSequence \in Nat /\ MaxEra \in Nat /\ MaxRestarted \in Nat

VARIABLES
    heap,        \* #heap
    positions,   \* #positions
    next,        \* #next
    generation,  \* #generation
    pristine,    \* #pristine
    now,         \* the clock
    handles,     \* the handles its users hold
    saved        \* what exportState returned, if anything

vars == <<heap, positions, next, generation, pristine, now, handles, saved>>

Nothing == [next |-> 0, pending |-> <<>>, taken |-> FALSE]

-----------------------------------------------------------------------------
(* The heap.  S is a record of the heap and the positions; that of a loop   *)
(* also says at which position the loop has arrived.                        *)

Parent(i) == i \div 2

\* #swap, of the event at hand with the one at j, where the loop goes on.
Swap(L, j) ==
    [heap |-> [L.heap EXCEPT ![L.at] = L.heap[j], ![j] = L.heap[L.at]],
     positions |-> [L.positions EXCEPT ![L.heap[L.at].seq] = j, ![L.heap[j].seq] = L.at],
     at |-> j]

At(S, i) == [heap |-> S.heap, positions |-> S.positions, at |-> i]

\* #up: an event rises while it is earlier than its parent.  No loop takes
\* more turns than there are events.
Rises(L) == L.at > 1 /\ Earlier(L.heap[L.at], L.heap[Parent(L.at)])
RiseTurn(L) == IF Rises(L) THEN Swap(L, Parent(L.at)) ELSE L
Up(S, i) == LET turn[n \in Nat] == IF n = 0 THEN At(S, i) ELSE RiseTurn(turn[n - 1])
            IN  turn[Len(S.heap)]

\* The child #down compares with.
EarlierChild(L) ==
    IF 2 * L.at + 1 <= Len(L.heap) /\ Earlier(L.heap[2 * L.at + 1], L.heap[2 * L.at])
    THEN 2 * L.at + 1 ELSE 2 * L.at

\* #down: an event sinks while a child is earlier.
Sinks(L) == 2 * L.at <= Len(L.heap) /\ Earlier(L.heap[EarlierChild(L)], L.heap[L.at])
SinkTurn(L) == IF Sinks(L) THEN Swap(L, EarlierChild(L)) ELSE L
Down(S, i) == LET turn[n \in Nat] == IF n = 0 THEN At(S, i) ELSE SinkTurn(turn[n - 1])
              IN  turn[Len(S.heap)]

Empty == [heap |-> <<>>, positions |-> <<>>]

\* #insert
Insert(S, e) ==
    LET last == Len(S.heap) + 1
    IN  Up([heap |-> Append(S.heap, e),
            positions |-> [s \in DOMAIN S.positions \cup {e.seq} |->
                             IF s = e.seq THEN last ELSE S.positions[s]]], last)

\* The scheduler filled with the events of a sequence, one after the other.
Filled(events) == LET filled[n \in 0..Len(events)] == IF n = 0 THEN Empty ELSE Insert(filled[n - 1], events[n])
                  IN  filled[Len(events)]

Without(positions_, seq) == [s \in DOMAIN positions_ \ {seq} |-> positions_[s]]

\* What #remove does before it restores the order.
Unplug(S, i) ==
    LET short == Front(S.heap)
        rest  == Without(S.positions, S.heap[i].seq)
    IN  IF i = Len(S.heap)
        THEN [heap |-> short, positions |-> rest]
        ELSE [heap |-> [short EXCEPT ![i] = Last(S.heap)],
              positions |-> [rest EXCEPT ![Last(S.heap).seq] = i]]

\* Faulty variant of #remove: the event that moved keeps its old position.
RemoveIndexUnindexed(S, i) ==
    LET U == Unplug(S, i)
        V == [U EXCEPT !.positions = Without(S.positions, S.heap[i].seq)]
    IN  IF i = Len(S.heap) THEN U ELSE Down(Up(V, i), i)

\* #remove: the last event fills the gap, then rises or sinks to its place.
RemoveIndex(S, i) ==
    LET U == Unplug(S, i)
        V == Up(U, i)
    IN  IF i = Len(S.heap) THEN U ELSE Down(V, V.positions[Last(S.heap).seq])

State == [heap |-> heap, positions |-> positions]

\* A set of events in the order compare gives them.
First(events) == CHOOSE e \in events : IsFirst(e, events)
InOrder(events) ==
    LET rest[n \in Nat] == IF n = 0 THEN events ELSE LET others == rest[n - 1] IN others \ {First(others)}
    IN  [k \in 1..Cardinality(events) |-> First(rest[k - 1])]

Become(S) == heap' = S.heap /\ positions' = S.positions

-----------------------------------------------------------------------------
(* Operations                                                               *)

\* schedule, which issues a handle.
Schedule(t) ==
    LET e == [time |-> t, seq |-> next]
    IN  /\ t >= now
        /\ next < MaxSequence
        /\ Become(Insert(State, e))
        /\ next' = next + 1
        /\ pristine' = FALSE
        /\ handles' = handles \cup {[event |-> e, era |-> generation]}
        /\ UNCHANGED <<generation, now, saved>>

\* Faulty variant: a handle outlives a reset.
HonouredAlways(h) == TRUE

Honoured(h) == h.era = generation

\* ScheduledHandle.cancel, when it returns TRUE.
Cancel(h) ==
    /\ Honoured(h)
    /\ h.event.seq \in DOMAIN positions
    /\ Become(RemoveIndex(State, positions[h.event.seq]))
    /\ UNCHANGED <<next, generation, pristine, now, handles, saved>>

\* takeNext, after which the kernel advances the clock.
TakeNext ==
    /\ heap # <<>>
    /\ now' = heap[1].time
    /\ Become(RemoveIndex(State, 1))
    /\ UNCHANGED <<next, generation, pristine, handles, saved>>

\* exportState: the pending events in execution order.  Once in a run, and
\* only when an era is left that could restore them.
ExportState ==
    /\ generation < MaxEra
    /\ ~saved.taken
    /\ saved' = [next |-> next, taken |-> TRUE,
                 pending |-> InOrder(Range(heap))]
    /\ UNCHANGED <<heap, positions, next, generation, pristine, now, handles>>

\* reset
Reset ==
    /\ generation < MaxEra
    /\ Become(Empty)
    /\ next' = 0
    /\ generation' = generation + 1
    /\ pristine' = TRUE
    /\ UNCHANGED <<now, handles, saved>>

\* restore, of a snapshot none of whose events is in the past, into a
\* scheduler that was not used.
Restore ==
    /\ pristine
    /\ generation < MaxEra
    /\ saved.taken
    /\ \A i \in DOMAIN saved.pending : saved.pending[i].time >= now
    /\ Become(Filled(saved.pending))
    /\ next' = saved.next
    /\ generation' = generation + 1
    /\ pristine' = FALSE
    /\ UNCHANGED <<now, handles, saved>>

Init ==
    /\ heap = <<>>
    /\ positions = <<>>
    /\ next = 0
    /\ generation = 0
    /\ pristine = TRUE
    /\ now \in Times /\ \A t \in Times : now <= t
    /\ handles = {}
    /\ saved = Nothing

Next == \/ \E t \in Times : Schedule(t)
        \/ \E h \in handles : Cancel(h)
        \/ TakeNext
        \/ ExportState
        \/ Reset
        \/ Restore

Spec == Init /\ [][Next]_vars

\* The runs go on from these states only: a scheduler that was reset or
\* restored, or whose state is held, with few events and handles.
FewRestarted == (generation = 0 /\ saved = Nothing) \/ (next <= MaxRestarted /\ Cardinality(handles) <= 2 * MaxRestarted)

-----------------------------------------------------------------------------
(* Properties                                                               *)

\* No event precedes its parent, so the root is what peek must return; and
\* the index and the heap agree after every insertion and removal, wherever
\* it happened, so that cancel finds the event it is asked for.
HeapExact ==
    /\ \A i \in DOMAIN heap : i > 1 => Earlier(heap[Parent(i)], heap[i])
    /\ DOMAIN positions = {heap[i].seq : i \in DOMAIN heap}
    /\ \A i \in DOMAIN heap : positions[heap[i].seq] = i

\* The heap implements a set of events taken in order and cancelled by
\* handle: cancelling first, middle or last leaves the others in order
\* (SCHED-INV-6), and no handle of an earlier era removes anything.
AgendaOf == INSTANCE Agenda WITH pending <- Range(heap), era <- generation, issued <- handles

ImplementsAgenda == AgendaOf!Spec
=============================================================================
