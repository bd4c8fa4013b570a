----------------------------- MODULE Assessment ------------------------------
(***************************************************************************)
(* The assertions of a scenario, packages/scenario/src/assessment.ts, as   *)
(* the scenario engine and the simulation drive them: markers in the       *)
(* agenda, an evaluation after the initialization, after every event and   *)
(* at the end, the rest incomplete after a failure.                        *)
(*                                                                         *)
(* A predicate is "true", "false" or "broken" (it throws or returns        *)
(* something else than a verdict) in the state an event leaves.  Evidence, *)
(* parameters and the observation of each evaluation are left out.         *)
(***************************************************************************)
EXTENDS Naturals, Sequences, FiniteSets, FiniteSetsExt, TLC

CONSTANTS
    Assertions,    \* Seq([mode, time]): time of the marker, of "at" and "eventually"
    Actions,       \* times of the scenario's actions
    MaxFollowUps,  \* events that events schedule
    MaxTime

VARIABLES
    now, status,
    agenda,        \* events: time, sequence number, assertion of a marker (else 0)
    sequence,      \* of the next event
    world,         \* what each assertion's predicate would say
    rows,          \* status and time of each assertion
    boundaries     \* the evaluations so far

vars == <<now, status, agenda, sequence, world, rows, boundaries>>
Indices == DOMAIN Assertions
Values == {"true", "false", "broken"}

\* What the constructors of assertions and actions admit.
WellFormed == /\ Assertions \in Seq([mode : {"always", "at", "eventually"}, time : Nat])
              /\ Actions \in Seq(Nat)
              /\ MaxFollowUps \in Nat /\ MaxTime \in Nat

-----------------------------------------------------------------------------
(* One evaluation.  phase is "init", "event" or "completion"; marker is the *)
(* assertion whose marker the event is.                                     *)

Due(i, phase, marker) == marker = i \/ phase = "completion"

\* Faulty variant: a row that has settled is evaluated again.
CalledAgain(rs, phase, marker) == {i \in Indices : Assertions[i].mode = "at" => Due(i, phase, marker)}

\* The assertions whose predicate is called, in order.
Called(rs, phase, marker) ==
    {i \in Indices : rs[i].status = "PENDING" /\ (Assertions[i].mode = "at" => Due(i, phase, marker))}

Verdict(i, phase, marker, holds) ==
    IF Assertions[i].mode = "always"
    THEN IF ~holds THEN "FAIL" ELSE IF phase = "completion" THEN "PASS" ELSE "PENDING"
    ELSE IF holds THEN "PASS" ELSE IF Due(i, phase, marker) THEN "FAIL" ELSE "PENDING"

\* A broken predicate ends the evaluation: those before it are committed.
Breaks(rs, phase, marker, w) == {i \in Called(rs, phase, marker) : w[i] = "broken"}
Upto(rs, phase, marker, w) == Min(Breaks(rs, phase, marker, w) \cup {Len(Assertions) + 1})

Evaluate(rs, phase, marker, w, t) ==
    [i \in Indices |-> IF i \in Called(rs, phase, marker) /\ i < Upto(rs, phase, marker, w)
                       THEN [status |-> Verdict(i, phase, marker, w[i] = "true"), time |-> t]
                       ELSE rs[i]]

OnFailure(rs) == [i \in Indices |-> IF rs[i].status = "PENDING" THEN [rs[i] EXCEPT !.status = "INCOMPLETE"] ELSE rs[i]]

Boundary(rs, phase, marker, w, t) ==
    [phase |-> phase, marker |-> marker, world |-> w, time |-> t, upto |-> Upto(rs, phase, marker, w)]

-----------------------------------------------------------------------------

Marker(i) == Assertions[i].mode # "always"
Before(e, f) == e.time < f.time \/ (e.time = f.time /\ e.sequence < f.sequence)
Earliest(e) == \A f \in agenda \ {e} : Before(e, f)

\* The engine cancels the deadlines of assertions that have settled.
Live(events, rs) == {e \in events : \/ e.marker = 0
                                    \/ Assertions[e.marker].mode # "eventually"
                                    \/ rs[e.marker].status = "PENDING"}

\* Composition: actions in their order, then the markers; the rows start anew.
Composed == {[time |-> Actions[k], sequence |-> k, marker |-> 0] : k \in DOMAIN Actions}
            \cup {[time |-> Assertions[i].time, sequence |-> Len(Actions) + i, marker |-> i] : i \in {j \in Indices : Marker(j)}}
Fresh == [i \in Indices |-> [status |-> "PENDING", time |-> 0]]
Broken(w) == Breaks(Fresh, "init", 0, w) # {}
FirstRows(w) == LET rs == Evaluate(Fresh, "init", 0, w, 0) IN IF Broken(w) THEN OnFailure(rs) ELSE rs

\* After the event: its evaluation; when nothing is left, that of the completion,
\* or SIMULATION_DEADLOCK if a task still waits.
AfterEvent(marker, w, t, left) ==
    LET first == Evaluate(rows, "event", marker, w, t)
        rest  == Live(left, first)
        last  == Evaluate(first, "completion", 0, w, t)
        one   == Append(boundaries, Boundary(rows, "event", marker, w, t))
        two   == Append(one, Boundary(first, "completion", 0, w, t))
        Broke(rs, phase, m) == Breaks(rs, phase, m, w) # {}
        Become(s, rs, bs)   == status' = s /\ rows' = rs /\ boundaries' = bs
    IN \/ /\ Broke(rows, "event", marker)
          /\ agenda' = left
          /\ Become("FAILED", OnFailure(first), one)
       \/ /\ ~Broke(rows, "event", marker)
          /\ agenda' = rest
          /\ \/ rest # {} /\ Become("READY", first, one)
             \/ rest = {} /\ Become("FAILED", OnFailure(first), one)
             \/ rest = {} /\ Broke(first, "completion", 0) /\ Become("FAILED", OnFailure(last), two)
             \/ rest = {} /\ ~Broke(first, "completion", 0) /\ Become("COMPLETED", last, two)

\* A marker does nothing; another event changes what one predicate sees and
\* may schedule a further event.
Dispatch ==
    /\ status = "READY"
    /\ \E e \in agenda :
       /\ Earliest(e)
       /\ now' = e.time
       /\ \E i \in Indices, v \in Values, later \in {{}} \cup {{t} : t \in e.time..MaxTime} :
            /\ e.marker # 0 => v = world[i] /\ later = {}
            /\ later = {} \/ sequence < Len(Actions) + Len(Assertions) + MaxFollowUps
            /\ world' = [world EXCEPT ![i] = v]
            /\ sequence' = sequence + Cardinality(later)
            /\ AfterEvent(e.marker, world', e.time,
                          (agenda \ {e}) \cup {[time |-> t, sequence |-> sequence + 1, marker |-> 0] : t \in later})

\* The handler of an event fails: the event is not evaluated.
Fail == /\ status = "READY"
        /\ \E e \in agenda : Earliest(e) /\ now' = e.time /\ agenda' = agenda \ {e}
        /\ status' = "FAILED"
        /\ rows' = OnFailure(rows)
        /\ UNCHANGED <<world, sequence, boundaries>>

Init == /\ now = 0
        /\ agenda = Composed
        /\ sequence = Len(Actions) + Len(Assertions)
        /\ world \in [Indices -> Values]
        /\ status = (IF Broken(world) THEN "FAILED" ELSE "READY")
        /\ rows = FirstRows(world)
        /\ boundaries = <<Boundary(Fresh, "init", 0, world, 0)>>

Reset == /\ now' = 0
         /\ agenda' = Composed
         /\ sequence' = Len(Actions) + Len(Assertions)
         /\ world' \in [Indices -> Values]
         /\ status' = (IF Broken(world') THEN "FAILED" ELSE "READY")
         /\ rows' = FirstRows(world')
         /\ boundaries' = <<Boundary(Fresh, "init", 0, world', 0)>>

Next == Dispatch \/ Fail \/ Reset
Spec == Init /\ [][Next]_vars

-----------------------------------------------------------------------------

\* The boundaries at which an assertion was evaluated with a verdict, up to the
\* one that settles it.
Reached(i) == {b \in DOMAIN boundaries : i < boundaries[b].upto}
True(i, b) == boundaries[b].world[i] = "true"
Ends(i, b) == boundaries[b].marker = i \/ boundaries[b].phase = "completion"
Settles(i) == {b \in Reached(i) :
                  CASE Assertions[i].mode = "always" -> ~True(i, b) \/ boundaries[b].phase = "completion"
                    [] Assertions[i].mode = "at" -> Ends(i, b)
                    [] OTHER -> True(i, b) \/ Ends(i, b)}

\* The results are those of the boundaries: an assertion is settled by the
\* first boundary that decides it and keeps that verdict and time whatever
\* comes later, in the same run; a run that failed leaves the others
\* incomplete, one that completed leaves none; and no deadline of a settled
\* assertion keeps a run going after its next event
\* (assessment.ts:50-101, engine.ts:145-150, simulation.ts:427-442).
VerdictsFollowHistory ==
    /\ \A i \in Indices :
        IF Settles(i) # {}
        THEN LET b == Min(Settles(i)) IN
             rows[i] = [status |-> IF True(i, b) THEN "PASS" ELSE "FAIL", time |-> boundaries[b].time]
        ELSE /\ rows[i].status = (IF status = "FAILED" THEN "INCOMPLETE" ELSE "PENDING")
             /\ status # "COMPLETED"
    /\ status # "FAILED" /\ Len(boundaries) > 1 =>
          \A e \in agenda : e.marker # 0 => rows[e.marker].status = "PENDING"
=============================================================================
