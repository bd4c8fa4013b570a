------------------------------- MODULE Playback -------------------------------
(***************************************************************************)
(* The replay of recorded movements on the architecture graph:             *)
(* apps/web/src/flight-playback.ts over flight.ts, activity.ts and         *)
(* records.ts.  A cursor walks the movements of a history that grows while *)
(* the run records and is replaced by a reset; the graph paints the        *)
(* movement at the cursor and the activity of every component at it.       *)
(*                                                                         *)
(* A record stores its payload fields (request, transaction or delivery id *)
(* in ref, consumer, deadline) unless it is redacted.  The kernel is the   *)
(* environment: Records lists what a run may record, with what comes       *)
(* before a record and what rules it out (network.ts, database.ts,         *)
(* message-bus.ts).  Captions, glyphs, facts, pace, and the layout of the  *)
(* graph are left out.  None stands for undefined.                         *)
(***************************************************************************)
EXTENDS Integers, Sequences, FiniteSets, SequencesExt

CONSTANTS
    Records,       \* what a run may record
    Links,         \* drawn: source, target, relationship
    None,
    MaxMoves       \* moves of the reader

VARIABLES
    history,       \* as published
    recording,     \* the run is pending or running
    cursor,        \* movement painted, 0 when none
    phase,
    moves

vars == <<history, recording, cursor, phase, moves>>

-----------------------------------------------------------------------------
(* records.ts: what a record states.                                        *)

Stored(o, field) == IF o.redacted THEN None ELSE o[field]
First(a, b) == IF a # None THEN a ELSE b

RequestTypes == {"request.sent", "request.delivered", "request.dropped", "request.timedout"}
ResponseTypes == {"response.sent", "response.dropped", "response.received"}
MessageTypes == {"message.published", "message.delivered", "message.acknowledged"}

\* A trip to its own source has no destination.
Leg(o, kind, from, to, relationship) ==
    [observation |-> o, kind |-> kind, from |-> from, to |-> IF to = from THEN None ELSE to, relationship |-> relationship]

IsMovement(o) == o.type \in RequestTypes \cup ResponseTypes \cup MessageTypes
MovementOf(o) ==
    LET consumer == First(Stored(o, "consumer"), o.source) IN
    CASE o.type \in RequestTypes -> Leg(o, "request", o.source, o.target, "request")
      [] o.type \in ResponseTypes -> Leg(o, "response", o.source, o.target, "request")
      [] o.type = "message.published" -> Leg(o, "message", o.source, o.destination, "publication")
      [] o.type = "message.delivered" -> Leg(o, "message", First(o.destination, o.source), consumer, "subscription")
      [] o.type = "message.acknowledged" -> Leg(o, "message", consumer, o.destination, "subscription")

\* The drawn link a movement travels, along it if there is one.
EdgeFor(m) ==
    LET along == {e \in Links : e.relationship = m.relationship /\ e.source = m.from /\ e.target = m.to}
        against == {e \in Links : e.relationship = m.relationship /\ e.source = m.to /\ e.target = m.from}
    IN IF along # {} THEN along ELSE against
Reversed(m) == \E e \in EdgeFor(m) : e.source # m.from

-----------------------------------------------------------------------------
(* flight.ts: the steps of a replay.                                        *)

LegOf(o) == CASE o.type = "request.timedout" -> "timeout"
              [] o.type \in {"request.dropped", "response.dropped"} -> "interrupted"
              [] o.type \in {"request.sent", "response.sent"} -> "departure"
              [] o.type \in {"request.delivered", "response.received"} -> "arrival"
              [] OTHER -> "trip"

\* A request and its response share an id.
HopKey(m) == IF m.kind = "message" \/ Stored(m.observation, "ref") = None THEN None ELSE <<m.kind, m.observation.ref>>

\* The elements of a sequence at some places, in their order.
AtPlaces(s, places) == LET upto[n \in 0..Len(s)] == IF n = 0 THEN <<>>
                                                    ELSE upto[n - 1] \o IF n \in places THEN <<s[n]>> ELSE <<>>
                       IN upto[Len(s)]
Movements(h) == AtPlaces(h, {i \in DOMAIN h : IsMovement(h[i])})

\* The departure a step ends is the last one of its hop before it.
DepartureOf(ms, i) ==
    LET hop == HopKey(MovementOf(ms[i]))
        departed == {j \in 1 .. i - 1 : LegOf(ms[j]) = "departure" /\ HopKey(MovementOf(ms[j])) = hop}
    IN IF hop = None \/ LegOf(ms[i]) \in {"departure", "trip"} \/ departed = {} THEN None
       ELSE ms[CHOOSE j \in departed : \A k \in departed : k <= j].id

-----------------------------------------------------------------------------
(* activity.ts: what every component does at a record.                      *)

Opened(items, key, owner, target) == {x \in items : x.key # key} \cup {[key |-> key, owner |-> owner, target |-> target]}
Closed(items, key) == {x \in items : x.key # key}

\* Faulty variant: a dropped request or response ends the wait.
EndsWaitWhenDropped(type) == type \in {"response.received", "request.timedout", "request.dropped", "response.dropped"}
EndsWait(type) == type \in {"response.received", "request.timedout"}

Read(open, o) ==
    LET key == Stored(o, "ref") IN
    IF key = None THEN open
    ELSE CASE o.type = "request.sent" -> [open EXCEPT !.waits = Opened(@, key, o.source, o.target)]
           [] EndsWait(o.type) -> [open EXCEPT !.waits = Closed(@, key)]
           [] o.type = "request.delivered" -> [open EXCEPT !.requests = Opened(@, key, o.target, None)]
           [] o.type = "response.sent" -> [open EXCEPT !.requests = Closed(@, key)]
           [] o.type = "transaction.begun" -> [open EXCEPT !.transactions = Opened(@, key, o.source, None)]
           [] o.type \in {"transaction.committed", "transaction.rolledback"} -> [open EXCEPT !.transactions = Closed(@, key)]
           [] o.type = "message.delivered" -> [open EXCEPT !.deliveries = Opened(@, key, First(Stored(o, "consumer"), o.source), None)]
           [] o.type \in {"message.acknowledged", "message.ack.stale", "message.nacked"} -> [open EXCEPT !.deliveries = Closed(@, key)]
           [] OTHER -> open

NothingOpen == [waits |-> {}, requests |-> {}, transactions |-> {}, deliveries |-> {}]
ActivityAt(h, n) == LET open[i \in 0..n] == IF i = 0 THEN NothingOpen ELSE Read(open[i - 1], h[i]) IN open[n]

Owned(items, owner) == {x.key : x \in {y \in items : y.owner = owner}}
Waiting(open, c) == Owned(open.waits, c) # {}
Processing(open, c) == Owned(open.requests, c) \cup Owned(open.transactions, c) \cup Owned(open.deliveries, c) # {}
StateOf(open, c) == IF Waiting(open, c) THEN "waiting" ELSE IF Processing(open, c) THEN "processing" ELSE "idle"

\* Where the cursor is in the history; nothing is open with no cursor.
At == LET ms == Movements(history) IN
      IF cursor \in DOMAIN ms THEN CHOOSE n \in DOMAIN history : history[n].id = ms[cursor].id ELSE 0
Activity == ActivityAt(history, At)

-----------------------------------------------------------------------------
(* The cursor.                                                              *)

Count == Len(Movements(history))
Counted == moves < MaxMoves /\ moves' = moves + 1 /\ UNCHANGED <<history, recording>>

\* selectionStep, from 1.
Target(index, count, delta) ==
    IF count = 0 THEN None
    ELSE IF index = 0 THEN IF delta < 0 THEN count ELSE 1
    ELSE IF index + delta \in 1 .. count THEN index + delta ELSE None

\* playbackControl.
Control == CASE phase = "playing" \/ Count <= 1 -> "unavailable"
             [] phase # "playing" /\ Count > 1 /\ cursor >= Count -> "restart"
             [] OTHER -> "play"

Play == /\ Counted
        /\ Control = "play"
        /\ cursor' = (IF cursor > 0 THEN cursor ELSE 1) /\ phase' = "playing"
Restart == /\ Counted
           /\ Control = "restart"
           /\ cursor' = 1 /\ phase' = "playing"
\* The button is there while playing.
Pause == /\ Counted
         /\ phase = "playing"
         /\ phase' = "paused" /\ UNCHANGED cursor
MoveTo == /\ Counted
          /\ \E delta \in {-1, 1} :
                /\ Target(cursor, Count, delta) # None
                /\ cursor' = Target(cursor, Count, delta)
          /\ phase' = (IF phase = "playing" THEN "paused" ELSE phase)

\* The timer, armed anew by every change of what it was armed for: flightAdvance.
Tick == /\ phase = "playing"
        /\ cursor' = (IF cursor >= Count THEN Count ELSE cursor + 1)
        /\ phase' = (IF cursor >= Count /\ ~recording THEN "ended" ELSE "playing")
        /\ UNCHANGED <<history, recording, moves>>

\* A record selected in Recorded history takes the highlight.
Release == /\ Counted
           /\ cursor' = 0 /\ phase' = "idle"

\* The effect of a new number of movements.
Fit(count) == /\ cursor' = (IF cursor > count THEN count ELSE cursor)
              /\ phase' = (IF phase = "playing" /\ count = 0 THEN "idle" ELSE phase)

Recorded == {history[i].id : i \in DOMAIN history}
Publish == /\ recording
           /\ \E o \in Records :
                 /\ o.id \notin Recorded
                 /\ o.after \subseteq Recorded /\ o.unless \cap Recorded = {}
                 /\ history' = Append(history, o)
           /\ Fit(Len(Movements(history')))
           /\ UNCHANGED <<recording, moves>>
\* The run pauses, continues or ends: step and run commands.
Recording == recording' = ~recording /\ UNCHANGED <<history, cursor, phase, moves>>
Reset == /\ moves < MaxMoves /\ moves' = moves + 1
         /\ history' = <<>> /\ recording' = FALSE
         /\ Fit(0)

Init == history = <<>> /\ recording = FALSE /\ cursor = 0 /\ phase = "idle" /\ moves = 0
Next == Play \/ Restart \/ Pause \/ MoveTo \/ Tick \/ Release \/ Publish \/ Recording \/ Reset
Spec == Init /\ [][Next]_vars

-----------------------------------------------------------------------------
(* What a reader is told, against the records up to the cursor.             *)

Components == {r.source : r \in Records} \cup ({r.target : r \in Records} \ {None})

Earlier(n, i) == i <= n /\ ~history[i].redacted
\* Opened by a record of a type and by none of the ending types since.
StillOpen(n, opening, ending, c, owner(_)) ==
    {history[i].ref : i \in {j \in 1 .. n : /\ Earlier(n, j) /\ history[j].type = opening /\ owner(history[j]) = c
                                            /\ \A k \in j + 1 .. n : Earlier(n, k) /\ history[k].ref = history[j].ref => history[k].type \notin ending}}

\* What the kernel records: identifiers tell records apart; a payload that is
\* shown names its request, transaction, message or delivery; that was opened
\* by one component, and the two ends of a leg are the same in all its records;
\* what ends a leg is recorded after its departure.
WellRecorded ==
    /\ \A r, s \in Records : r.id = s.id => r = s
    /\ \A r \in Records : ~r.redacted => r.ref # None /\ (r.type = "message.delivered" => r.consumer # None)
    /\ \A r \in Records : \A kind \in {"request", "response"} : <<kind, r.ref>> # None
    /\ \A r, s \in Records : ~r.redacted /\ ~s.redacted /\ r.ref = s.ref =>
          /\ r.type = s.type => r.source = s.source /\ r.target = s.target /\ r.consumer = s.consumer
          /\ {r.type, s.type} \subseteq RequestTypes \/ {r.type, s.type} \subseteq ResponseTypes
                => r.source = s.source /\ r.target = s.target
    /\ \A r \in Records : r.type \in RequestTypes \cup ResponseTypes /\ LegOf(r) # "departure" =>
          \E s \in Records : /\ s.id \in r.after /\ s.ref = r.ref /\ LegOf(s) = "departure"
                             /\ {r.type, s.type} \subseteq RequestTypes \/ {r.type, s.type} \subseteq ResponseTypes

Sender(o) == o.source
Receiver(o) == o.target
Consumer(o) == o.consumer

\* The activity at the cursor is that of the records before it: a caller waits
\* from its request to the response or its own timeout, whatever was dropped
\* (activity.ts:13-15), and no open transaction is missed; one the database
\* rejected is shown as open too.
ActivityRecorded ==
    \A c \in Components :
        /\ Owned(Activity.waits, c) = StillOpen(At, "request.sent", {"response.received", "request.timedout"}, c, Sender)
        /\ Owned(Activity.requests, c) = StillOpen(At, "request.delivered", {"response.sent"}, c, Receiver)
        /\ Owned(Activity.deliveries, c) = StillOpen(At, "message.delivered", {"message.acknowledged", "message.ack.stale", "message.nacked"}, c, Consumer)
        /\ StillOpen(At, "transaction.begun", {"transaction.committed", "transaction.rolledback", "transaction.rejected"}, c, Sender)
              \subseteq Owned(Activity.transactions, c)
        /\ StateOf(Activity, c) = "idle" => Owned(Activity.waits, c) = {} /\ Owned(Activity.transactions, c) = {}

\* A step that ends a hop names the departure of the same leg, and a movement
\* goes the way its link is drawn or against it (flight.ts:60-66, 88-107).
StepsPaired ==
    LET ms == Movements(history) IN
    \A i \in DOMAIN ms :
        /\ LegOf(ms[i]) \in {"arrival", "interrupted", "timeout"} /\ ~ms[i].redacted /\ (\A j \in DOMAIN ms : ~ms[j].redacted) =>
              \E j \in 1 .. i - 1 : /\ DepartureOf(ms, i) = ms[j].id /\ LegOf(ms[j]) = "departure" /\ ms[j].ref = ms[i].ref
                                    /\ MovementOf(ms[j]).from = MovementOf(ms[i]).from /\ MovementOf(ms[j]).to = MovementOf(ms[i]).to
        /\ \A e \in EdgeFor(MovementOf(ms[i])) :
              LET m == MovementOf(ms[i]) IN
              IF Reversed(m) THEN m.from = e.target /\ m.to = e.source ELSE m.from = e.source /\ m.to = e.target

\* The cursor is on a movement of the history, and moves while one is painted.
CursorPlaced == cursor \in 0 .. Count /\ (phase = "playing" => cursor > 0) /\ (phase = "idle" /\ cursor > 0 => Count > 0)

\* The graph paints what was recorded, whatever the reader and the run did.
PaintsTheRecord == ActivityRecorded /\ StepsPaired /\ CursorPlaced
===============================================================================
