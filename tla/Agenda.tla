-------------------------------- MODULE Agenda --------------------------------
(***************************************************************************)
(* What a scheduler promises the kernel: a set of pending events, each     *)
(* with a sequence number of its own, taken in the order of due time and   *)
(* then of insertion.  A handle cancels the event it was issued for, once, *)
(* and no other, whatever happened to the scheduler since.                 *)
(***************************************************************************)
EXTENDS Naturals, KernelOps

CONSTANTS Times, MaxSequence

VARIABLES
    pending,  \* the events scheduled and neither taken nor cancelled
    next,     \* the number of the next event
    era,      \* how often the scheduler was reset or restored
    now,      \* the time of the run
    issued    \* the handles of a run: the event and the era of its scheduling

vars == <<pending, next, era, now, issued>>

Event == [time : Times, seq : 0..(MaxSequence - 1)]

Init == pending = {} /\ next = 0 /\ era = 0 /\ now \in Times /\ issued = {}

Schedule(t) ==
    /\ t >= now
    /\ next < MaxSequence
    /\ pending' = pending \cup {[time |-> t, seq |-> next]}
    /\ next' = next + 1
    /\ issued' = issued \cup {[event |-> [time |-> t, seq |-> next], era |-> era]}
    /\ UNCHANGED <<era, now>>

\* TRUE when it removes the event; a second cancel, or one after the event
\* was taken, changes nothing.
Cancel(h) ==
    /\ h.era = era
    /\ h.event \in pending
    /\ pending' = pending \ {h.event}
    /\ UNCHANGED <<next, era, now, issued>>

Take ==
    /\ \E e \in pending : /\ IsFirst(e, pending)
                          /\ pending' = pending \ {e}
                          /\ now' = e.time
    /\ UNCHANGED <<next, era, issued>>

\* A new era: with nothing pending, or with the events of a snapshot.
Restart ==
    /\ era' = era + 1
    /\ pending' \subseteq Event
    /\ \A e, f \in pending' : e.seq = f.seq => e = f
    /\ next' \in 0..MaxSequence
    /\ \A e \in pending' : e.seq < next'
    /\ now' = now
    /\ issued' = issued

Next == (\E t \in Times : Schedule(t)) \/ (\E h \in issued : Cancel(h)) \/ Take \/ Restart

Spec == Init /\ [][Next]_vars
=============================================================================
