--------------------------- MODULE ReviewNavigation ---------------------------
(***************************************************************************)
(* Where a reader is in Recorded history: apps/web/src/review-navigation.ts *)
(* over timeline-query.ts, timeline-quick-views.ts, story-timeline.ts and  *)
(* timeline.ts.  The reader filters, selects, moves, reveals and narrows   *)
(* while the worker publishes a history that grows or is replaced.         *)
(*                                                                         *)
(* A record has an identity, a time, a kind (its teaching category, or     *)
(* "started", "setup", "assertion" or "other"), a movement flag and, for   *)
(* each text field, the set of values stored for it; entities are pairs of *)
(* a kind and an id.  The order of a history is the order of its sequence  *)
(* numbers.  Feedback texts, suggestions, chips, scroll requests, the      *)
(* filter field shown and the expanded groups are left out; the edges of   *)
(* the graph too.                                                          *)
(***************************************************************************)
EXTENDS Integers, Sequences, FiniteSets, SequencesExt

CONSTANTS
    Runs,          \* complete histories the worker may publish prefixes of
    QuickViews,    \* identity -> kinds it keeps
    Fields,        \* text fields other than the trace and the entity
    Matches,       \* <<stored, criterion>>: the stored value matches
    Viewport,      \* rows in sight
    Overscan,      \* rows rendered around them
    Drafts,        \* what a dialog or a control may make of the draft
    MaxIntents

VARIABLES
    history,       \* as published
    query,         \* constraints in force
    draft,         \* constraints as entered
    filterError,
    quickView,     \* identity, or "none"
    view,          \* "story", "learning" or "raw"
    selectedId,    \* record, or 0
    liveCueId,     \* record, or 0
    focus,         \* record and token of the last request
    intents

nav == <<query, draft, filterError, quickView, view, selectedId, liveCueId, focus>>
vars == <<history, nav, intents>>

Values(s) == {s[i] : i \in DOMAIN s}
\* The elements of a sequence at some places, in their order.
AtPlaces(s, places) == LET upto[n \in 0..Len(s)] == IF n = 0 THEN <<>>
                                                    ELSE upto[n - 1] \o IF n \in places THEN <<s[n]>> ELSE <<>>
                       IN upto[Len(s)]
Blank == [value |-> "", mode |-> "exact"]
EmptyDraft == [from |-> <<>>, to |-> <<>>, trace |-> Blank, text |-> [f \in Fields |-> Blank],
               entityKind |-> Blank, entityId |-> Blank]
Recorded(id) == \E o \in Values(history) : o.id = id
Record(id) == CHOOSE o \in Values(history) : o.id = id

-----------------------------------------------------------------------------
(* timeline-query.ts.  A bound is <<>> when blank; <<-1>> does not parse.   *)

Asked(criterion) == criterion.value # ""
MatchesText(stored, criterion) == <<stored, criterion>> \in Matches
MatchesAny(stored, criterion) == Asked(criterion) => \E v \in stored : MatchesText(v, criterion)
MatchesEntity(o, kind, id) ==
    Asked(kind) \/ Asked(id) => \E e \in o.entities : (Asked(kind) => MatchesText(e[1], kind)) /\ (Asked(id) => MatchesText(e[2], id))

Below(bound, time) == bound # <<>> => bound[1] <= time
Above(bound, time) == bound # <<>> => time <= bound[1]

MatchesQuery(o, q) ==
    /\ Below(q.from, o.time) /\ Above(q.to, o.time)
    /\ MatchesAny(o.trace, q.trace)
    /\ \A f \in Fields : MatchesAny(o.text[f], q.text[f])
    /\ MatchesEntity(o, q.entityKind, q.entityId)

Valid(bound) == bound # <<-1>>
Parses(d) == Valid(d.from) /\ Valid(d.to) /\ (d.from # <<>> /\ d.to # <<>> => d.from[1] <= d.to[1])
\* A criterion without a value has no mode.
Parse(d) == LET read(c) == IF Asked(c) THEN c ELSE Blank IN
    [d EXCEPT !.trace = read(@), !.text = [f \in Fields |-> read(@[f])], !.entityKind = read(@), !.entityId = read(@)]

\* Drops the constraints of a draft that exclude a record: bounds first, so
\* that the rest can be parsed.
ClearBounds(d, o) ==
    LET cleared == [d EXCEPT !.from = IF Valid(@) /\ Below(@, o.time) THEN @ ELSE <<>>,
                             !.to = IF Valid(@) /\ Above(@, o.time) THEN @ ELSE <<>>]
    IN IF Parses(cleared) THEN cleared ELSE [cleared EXCEPT !.from = <<>>, !.to = <<>>]
Reveal(d, o) ==
    LET b == ClearBounds(d, o)
        entity == MatchesEntity(o, b.entityKind, b.entityId)
        clear(c) == IF Asked(c) THEN Blank ELSE c
    IN [b EXCEPT !.trace = IF MatchesAny(o.trace, @) THEN @ ELSE Blank,
                 !.text = [f \in Fields |-> IF MatchesAny(o.text[f], @[f]) THEN @[f] ELSE Blank],
                 !.entityKind = IF entity THEN @ ELSE clear(@),
                 !.entityId = IF entity THEN @ ELSE clear(@)]

TraceOnly(trace) == [EmptyDraft EXCEPT !.trace = [value |-> trace, mode |-> "exact"]]

\* Records are told apart by their identifiers, which name the run and the
\* place of a record: a history that is published again has the same records.
\* Every draft the reader may come to can be edited again.
AllRecords == UNION {Values(run) : run \in Runs}
IsBound(bound) == bound = <<>> \/ (Len(bound) = 1 /\ bound[1] \in Int)
IsDraft(d) == /\ IsBound(d.from) /\ IsBound(d.to)
              /\ d = [from |-> d.from, to |-> d.to, trace |-> d.trace, text |-> [f \in Fields |-> d.text[f]],
                      entityKind |-> d.entityKind, entityId |-> d.entityId]
ASSUME ReviewAssumption ==
    /\ \A run \in Runs : /\ run \in Seq(AllRecords)
                          /\ \A i, j \in DOMAIN run : run[i].id = run[j].id => i = j
    /\ \A o, p \in AllRecords : o.id # 0 /\ o.time \in Int /\ (o.id = p.id => o = p)
    /\ EmptyDraft \in DOMAIN Drafts
    /\ \A d \in DOMAIN Drafts : /\ IsDraft(d)
                               /\ Drafts[d] \subseteq DOMAIN Drafts
                               /\ \A o \in AllRecords : Reveal(d, o) \in DOMAIN Drafts
    /\ \A o \in AllRecords : \A trace \in o.trace : TraceOnly(trace) \in DOMAIN Drafts

-----------------------------------------------------------------------------
(* What the reader sees: derive.                                            *)

Quick(id, o) == id = "none" \/ o.kind \in QuickViews[id]
Shows(o, id, q) == Quick(id, o) /\ MatchesQuery(o, q)
Filtered(h, id, q) == AtPlaces(h, {i \in DOMAIN h : Shows(h[i], id, q)})
IndexIn(s, id) == IF \E i \in DOMAIN s : s[i].id = id THEN CHOOSE i \in DOMAIN s : s[i].id = id ELSE 0

\* Rows in the DOM: those in sight and Overscan more on each side, and the
\* selected one wherever it is.
VisibleRows(count, top) == {i \in 1 .. count : top - Overscan < i /\ i <= top + Viewport + Overscan}
RawRows(rows, top, id) == VisibleRows(Len(rows), top) \cup ({IndexIn(rows, id)} \ {0})

-----------------------------------------------------------------------------
(* Intents of the reader.                                                   *)

Counted == intents < MaxIntents /\ intents' = intents + 1 /\ UNCHANGED history
Request(id) == focus' = [id |-> id, token |-> focus.token + 1]

\* applyDraft: a draft that does not parse keeps the result.
ApplyDraft(d) == /\ draft' = d
                 /\ filterError' = ~Parses(d)
                 /\ query' = IF Parses(d) THEN Parse(d) ELSE query

SetDraft == /\ Counted
            /\ \E d \in Drafts[draft] : ApplyDraft(d)
            /\ UNCHANGED <<quickView, view, selectedId, liveCueId, focus>>

\* From Show: the view chosen again stays; from a control it toggles.
ChooseQuickView == /\ Counted
                   /\ \E id \in DOMAIN QuickViews \cup {"none"} : quickView' = id
                   /\ UNCHANGED <<query, draft, filterError, view, selectedId, liveCueId, focus>>

ClearAll == /\ Counted
            /\ ApplyDraft(EmptyDraft)
            /\ quickView' = "none"
            /\ UNCHANGED <<view, selectedId, liveCueId, focus>>

SwitchView == /\ Counted
              /\ \E v \in {"story", "learning", "raw"} \ {view} : view' = v
              /\ UNCHANGED <<query, draft, filterError, quickView, selectedId, liveCueId, focus>>

\* A row of the story or of a group: one the reader sees.
Select(id) == /\ Counted
              /\ selectedId' = id
              /\ UNCHANGED <<query, draft, filterError, quickView, view, liveCueId, focus>>
SelectRow == \E o \in Values(Filtered(history, quickView, query)) : Select(o.id)

SelectIndex(index) == /\ Counted
                      /\ LET id == Filtered(history, quickView, query)[index].id IN selectedId' = id /\ Request(id)
                      /\ view' = "raw"
                      /\ UNCHANGED <<query, draft, filterError, quickView, liveCueId>>

\* selectionStep.
Step(index, count, delta) ==
    IF count = 0 THEN 0
    ELSE IF index = 0 THEN IF delta < 0 THEN count ELSE 1
    ELSE IF index + delta \in 1 .. count THEN index + delta ELSE 0
Move(delta) == LET rows == Filtered(history, quickView, query)
                   next == Step(IndexIn(rows, selectedId), Len(rows), delta)
               IN next # 0 /\ SelectIndex(next)
MoveSelection == \E delta \in {-1, 1} : Move(delta)

\* Faulty variant: the constraints in force are kept when the draft does not parse.
RevealKeepsQuery(o, d) ==
    /\ draft' = d
    /\ query' = IF Parses(draft) THEN Parse(d) ELSE query
    /\ filterError' = (d = draft /\ filterError)

RevealConstraints(o, d) ==
    /\ draft' = d
    /\ query' = IF d = draft THEN query ELSE Parse(d)
    /\ filterError' = (d = draft /\ filterError)

RevealRecord(id) ==
    /\ Counted
    /\ RevealConstraints(Record(id), Reveal(draft, Record(id)))
    /\ quickView' = IF Quick(quickView, Record(id)) THEN quickView ELSE "none"
    /\ view' = "raw"
    /\ selectedId' = id
    /\ Request(id)
    /\ UNCHANGED liveCueId
RevealAny == \E o \in Values(history) : RevealRecord(o.id)

\* Show this trace, of the selected record: the quick view stays when it keeps
\* the first record of the trace.
NarrowToTrace ==
    /\ Counted
    /\ Recorded(selectedId)
    /\ \E trace \in Record(selectedId).trace :
          LET member == SelectSeq(history, LAMBDA o : trace \in o.trace)[1]
          IN /\ draft' = TraceOnly(trace)
             /\ query' = Parse(TraceOnly(trace))
             /\ quickView' = IF Quick(quickView, member) THEN quickView ELSE "none"
    /\ filterError' = FALSE
    /\ Request(selectedId)
    /\ UNCHANGED <<view, selectedId, liveCueId>>

-----------------------------------------------------------------------------
(* The worker publishes: the history grows or is replaced.                  *)

ContinuesHistory(previous, next) == Len(previous) <= Len(next) /\ \A i \in DOMAIN previous : previous[i].id = next[i].id

Grow(next) ==
    LET moved == {i \in Len(history) + 1 .. Len(next) : next[i].movement}
    IN /\ liveCueId' = IF moved = {} THEN liveCueId ELSE next[CHOOSE i \in moved : \A j \in moved : j <= i].id
       /\ UNCHANGED <<query, draft, filterError, quickView, view, selectedId, focus>>

Replace == /\ selectedId' = 0 /\ liveCueId' = 0
           /\ draft' = EmptyDraft /\ query' = EmptyDraft /\ filterError' = FALSE
           /\ quickView' = "none"
           /\ UNCHANGED <<view, focus>>

Published(next) == IF ContinuesHistory(history, next) THEN Grow(next) ELSE Replace
Publish == /\ intents < MaxIntents /\ intents' = intents + 1
           /\ \E run \in Runs : \E n \in 0 .. Len(run) :
                 /\ SubSeq(run, 1, n) # history
                 /\ history' = SubSeq(run, 1, n)
                 /\ Published(SubSeq(run, 1, n))

Init == /\ history \in Runs
        /\ query = EmptyDraft /\ draft = EmptyDraft /\ filterError = FALSE /\ quickView = "none" /\ view = "story"
        /\ selectedId = 0 /\ liveCueId = 0 /\ focus = [id |-> 0, token |-> 0] /\ intents = 0

Next == \/ SetDraft \/ ChooseQuickView \/ ClearAll \/ SwitchView
        \/ SelectRow \/ MoveSelection \/ RevealAny \/ NarrowToTrace \/ Publish
Spec == Init /\ [][Next]_vars

-----------------------------------------------------------------------------

\* A constraint that hides a record when it is put back into a draft.
Hides(o, d) == ~Parses(d) \/ ~MatchesQuery(o, Parse(d))
PutBack(d, old, field) == IF field = "entity" THEN [d EXCEPT !.entityKind = old.entityKind, !.entityId = old.entityId]
                          ELSE [d EXCEPT ![field] = old[field]]
OnlyHidingCleared(o) ==
    \A field \in {"from", "to", "trace", "entity"} :
        PutBack(draft', draft, field) # draft' => Hides(o, PutBack(draft', draft, field))

\* However far the reader had scrolled.
InDom(o) == LET rows == Filtered(history, quickView', query')
            IN IndexIn(rows, o.id) # 0 /\ \A top \in 0 .. Len(rows) : IndexIn(rows, o.id) \in RawRows(rows, top, selectedId')

\* A revealed record arrives with Raw showing, selected, among the rows, with
\* a focus request, and only the constraints that hide it are cleared, even
\* when the draft in the dialog no longer parses and the rows follow an older
\* one; the constraints in force stay those of the draft.
RevealShows ==
    \A o \in Values(history) : RevealRecord(o.id) =>
        /\ view' = "raw" /\ selectedId' = o.id /\ focus'.id = o.id
        /\ InDom(o)
        /\ query' = Parse(draft') /\ ~filterError'
        /\ OnlyHidingCleared(o)

\* What navigation holds on to is of the history shown, and its constraints
\* are those entered unless they do not parse.
PositionIsRecorded ==
    /\ selectedId # 0 => Recorded(selectedId)
    /\ liveCueId # 0 => Recorded(liveCueId) /\ Record(liveCueId).movement
    /\ ~filterError => query = Parse(draft)

\* Whatever the reader, the growth and the replacement of the history do, what
\* navigation holds on to is of the history shown
\* (docs/learning-timeline.md:113; review-navigation.ts:450-480), and a record
\* revealed is shown, at the cost of no other constraint
\* (docs/learning-timeline.md:113-115; review-navigation.ts:340-367).
NavigationKeepsFaith == [][PositionIsRecorded' /\ RevealShows]_vars
=============================================================================
