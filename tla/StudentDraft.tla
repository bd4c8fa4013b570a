----------------------------- MODULE StudentDraft -----------------------------
(***************************************************************************)
(* The faults and design choices a student composes in the Break and       *)
(* Design choices panels, and what Apply, Discard, Load and Compare do to  *)
(* them (apps/web/src/break-faults.ts, design-choices.ts, BreakPanel.tsx,  *)
(* App.tsx).  The worker answers a load at once: it accepts the overlay or *)
(* rejects it, which leaves no session.                                    *)
(*                                                                         *)
(* Of the fields of the form, "number" stands for those that must hold a   *)
(* whole number and "until" for those that may.  A target is named by the  *)
(* graph element it corresponds to.  Overrides are a function on the       *)
(* overridden keys.  Diagnostics, notices and labels are left out.         *)
(***************************************************************************)
EXTENDS Naturals, Sequences, FiniteSets

CONSTANTS
    Blank, Junk,     \* an empty text, and one that is no number
    NoSession, NoEdit,
    Lessons,         \* lesson -> kinds, links, subscriptions, databases, services, externals, parameters
    MaxEntries,      \* faults a lesson allows (maxEntries)
    Inputs,          \* field -> texts that may be typed
    Reads,           \* probability text -> the number it denotes
    Plain,           \* the probability texts of the accepted form
    ShownAs          \* probability -> the text String() gives

VARIABLES
    lesson,          \* the lesson chosen
    draft,           \* the entries composed (App.tsx draft)
    choices,         \* the overrides composed (choiceDraft)
    applied,         \* the overlay of the session, or NoSession
    editing,         \* the identifier of the entry in the form, or NoEdit
    form             \* the form while an entry is edited

vars == <<lesson, draft, choices, applied, editing, form>>

Entries(d) == {d[i] : i \in DOMAIN d}
\* The elements of a sequence at some places, in their order.
AtPlaces(s, places) == LET upto[n \in 0..Len(s)] == IF n = 0 THEN <<>>
                                                    ELSE upto[n - 1] \o IF n \in places THEN <<s[n]>> ELSE <<>>
                       IN upto[Len(s)]
Scheduled(kind) == kind[1] = "scheduled"
DatabaseNode(owner) == <<"resource", "db", owner>>

-----------------------------------------------------------------------------
(* Kinds, targets and the form.                                             *)

Target(source, target, name, graph) == [source |-> source, target |-> target, name |-> name, graph |-> graph]
TargetOptions(l, kind) ==
    IF kind \notin Lessons[l].kinds THEN {}
    ELSE CASE kind[1] = "network.request" -> {Target(k[1], k[2], Blank, k) : k \in Lessons[l].links}
           [] kind[1] = "network.response" -> {Target(k[2], k[1], Blank, k) : k \in Lessons[l].links}
           [] kind[1] = "message.delivery" -> {Target(Blank, s[2], s[1], s) : s \in Lessons[l].subscriptions}
           [] kind[1] = "database.commit" -> {Target(Blank, Blank, d, DatabaseNode(d)) : d \in Lessons[l].databases}
           [] kind = <<"scheduled", "crash">> -> {Target(Blank, c, Blank, <<c>>) : c \in Lessons[l].services}
           [] OTHER -> {Target(Blank, c, Blank, <<c>>) : c \in Lessons[l].externals}

EmptyForm == [kind |-> Blank, target |-> Blank, endpoint |-> Blank, number |-> 1, until |-> Blank,
              probability |-> "1", state |-> "UNAVAILABLE"]

\* The form has text for every field the entry of its kind needs.
FormErrors(l, f) ==
    \/ f.kind \notin Lessons[l].kinds
    \/ ~\E t \in TargetOptions(l, f.kind) : t.graph = f.target
    \/ f.number \in {Blank, Junk}
    \/ ~Scheduled(f.kind) /\ (f.until = Junk \/ f.probability \notin Plain)

BuildEntry(l, f, id) ==
    LET t == CHOOSE x \in TargetOptions(l, f.kind) : x.graph = f.target
        entry == [id |-> id, kind |-> f.kind, source |-> t.source, target |-> t.target, number |-> f.number,
                  name |-> t.name, until |-> Blank, probability |-> Blank, state |-> Blank]
    IN IF Scheduled(f.kind)
       THEN [entry EXCEPT !.state = IF f.kind[2] = "external-availability" THEN f.state ELSE Blank]
       ELSE [entry EXCEPT !.name = IF t.name = Blank THEN f.endpoint ELSE t.name,
                          !.until = f.until, !.probability = Reads[f.probability]]

FormFromEntry(l, e) ==
    LET matching == {t \in TargetOptions(l, e.kind) :
                       /\ t.target = e.target
                       /\ Scheduled(e.kind) \/ (t.source = e.source /\ t.name \in {Blank, e.name})}
        t == CHOOSE x \in matching : TRUE
        kept == [EmptyForm EXCEPT !.kind = e.kind, !.number = e.number,
                                  !.target = IF matching = {} THEN Blank ELSE t.graph]
    IN IF Scheduled(e.kind) THEN [kept EXCEPT !.state = IF e.state = Blank THEN @ ELSE e.state]
       ELSE [kept EXCEPT !.endpoint = IF matching # {} /\ t.name # Blank THEN Blank ELSE e.name,
                         !.until = e.until, !.probability = ShownAs[e.probability]]

\* Faulty variant: the number of entries names the next one.
NextByCount(d) == Len(d) + 1
NextStudentId(d) ==
    LET free == ((Len(d) + 1)..(2 * Len(d) + 1)) \ {e.id : e \in Entries(d)}
    IN CHOOSE k \in free : \A j \in free : k <= j

-----------------------------------------------------------------------------
(* Overlays, choices, marks.                                                *)

Overlay(d, overrides) ==
    LET scheduled == {i \in DOMAIN d : Scheduled(d[i].kind)}
    IN [faults |-> AtPlaces(d, DOMAIN d \ scheduled), scheduled |-> AtPlaces(d, scheduled), parameters |-> overrides]
DraftFromOverlay(o) == o.faults \o o.scheduled
NoChoices == [k \in {} |-> Blank]
EmptyOverlay == Overlay(<<>>, NoChoices)

Pending == LET parameters == IF applied = NoSession THEN NoChoices ELSE applied.parameters
               faults == Overlay(draft, parameters)
           IN faults # (IF applied = NoSession THEN EmptyOverlay ELSE applied)

SetChoice(l, overrides, key, value) ==
    LET declared == Lessons[l].parameters
        values == [k \in DOMAIN declared |-> IF k = key THEN value
                                             ELSE IF k \in DOMAIN overrides THEN overrides[k] ELSE declared[k].default]
    IN [k \in {j \in DOMAIN declared : values[j] # declared[j].default} |-> values[k]]

\* Compare keeps every fault, and an override of a parameter both lessons declare alike.
CarryOverlay(o, from, to) ==
    LET alike(k) == /\ k \in DOMAIN Lessons[from].parameters /\ k \in DOMAIN Lessons[to].parameters
                    /\ Lessons[from].parameters[k] = Lessons[to].parameters[k]
    IN [o EXCEPT !.parameters = [k \in {j \in DOMAIN @ : alike(j)} |-> o.parameters[k]]]

FaultMarks(l, e) ==
    LET selects(selector, value) == selector \in {Blank, value}
    IN CASE Scheduled(e.kind) -> {<<e.target>>}
         [] e.kind[1] = "database.commit" -> {DatabaseNode(d) : d \in {x \in Lessons[l].databases : selects(e.name, x)}}
         [] e.kind[1] = "message.delivery" ->
                {s \in Lessons[l].subscriptions : selects(e.name, s[1]) /\ selects(e.target, s[2])}
         [] e.kind[1] = "network.response" -> {k \in Lessons[l].links : selects(e.source, k[2]) /\ selects(e.target, k[1])}
         [] OTHER -> {k \in Lessons[l].links : selects(e.source, k[1]) /\ selects(e.target, k[2])}

-----------------------------------------------------------------------------
(* The panels.                                                              *)

Typed(f, field, text) == IF field = "kind" THEN [f EXCEPT !.kind = text, !.target = Blank] ELSE [f EXCEPT ![field] = text]

Add(f) ==
    /\ editing = NoEdit /\ Len(draft) < MaxEntries
    /\ ~FormErrors(lesson, f)
    /\ draft' = Append(draft, BuildEntry(lesson, f, NextStudentId(draft)))
    /\ UNCHANGED <<lesson, choices, applied, editing, form>>

Edit(e) ==
    /\ editing' = e.id
    /\ form' = FormFromEntry(lesson, e)
    /\ UNCHANGED <<lesson, draft, choices, applied>>

CloseForm == editing' = NoEdit /\ form' = EmptyForm

\* The student may change a field, a target with the kind, and chooses Update.
Update(f) ==
    /\ editing # NoEdit
    /\ ~FormErrors(lesson, f)
    /\ draft' = [i \in DOMAIN draft |-> IF draft[i].id = editing THEN BuildEntry(lesson, f, editing) ELSE draft[i]]
    /\ CloseForm
    /\ UNCHANGED <<lesson, choices, applied>>

CancelEdit == editing # NoEdit /\ CloseForm /\ UNCHANGED <<lesson, draft, choices, applied>>

Remove(e) ==
    /\ draft' = AtPlaces(draft, {i \in DOMAIN draft : draft[i].id # e.id})
    /\ IF editing = e.id THEN CloseForm ELSE UNCHANGED <<editing, form>>
    /\ UNCHANGED <<lesson, choices, applied>>

Discard ==
    /\ applied # NoSession /\ Pending
    /\ draft' = DraftFromOverlay(applied)
    /\ UNCHANGED <<lesson, choices, applied, editing, form>>

Choose(key, value) == /\ choices' = SetChoice(lesson, choices, key, value)
                      /\ UNCHANGED <<lesson, draft, applied, editing, form>>

DiscardChoices == /\ choices' = IF applied = NoSession THEN NoChoices ELSE applied.parameters
                  /\ UNCHANGED <<lesson, draft, applied, editing, form>>

\* One load: the draft becomes what is sent.  The panel of another lesson is a new one.
Replace(l, o) ==
    /\ lesson' = l
    /\ draft' = DraftFromOverlay(o)
    /\ choices' = o.parameters
    /\ applied' \in {NoSession} \union IF \A e \in Entries(draft') : e.kind \in Lessons[l].kinds THEN {o} ELSE {}
    /\ IF l = lesson THEN UNCHANGED <<editing, form>> ELSE CloseForm

Apply == (Pending \/ choices # (IF applied = NoSession THEN NoChoices ELSE applied.parameters))
         /\ Replace(lesson, Overlay(draft, choices))
Load(l) == Replace(l, EmptyOverlay)
Compare(l) == /\ l # lesson
              /\ Replace(l, CarryOverlay(IF applied = NoSession THEN EmptyOverlay ELSE applied, lesson, l))

Init == /\ lesson \in DOMAIN Lessons /\ applied = EmptyOverlay
        /\ draft = <<>> /\ choices = NoChoices /\ editing = NoEdit /\ form = EmptyForm

\* The form filled in, and Add.
Fill == \E k \in Lessons[lesson].kinds, t \in UNION {TargetOptions(lesson, j) : j \in Lessons[lesson].kinds},
          n \in Inputs.endpoint, p \in Inputs.probability, s \in Inputs.state, u \in Inputs.until :
           Add([EmptyForm EXCEPT !.kind = k, !.target = t.graph, !.endpoint = n, !.probability = p, !.state = s, !.until = u])

Next ==
    \/ Fill
    \/ \E e \in Entries(draft) : Edit(e) \/ Remove(e)
    \/ Update(form)
    \/ \E field \in DOMAIN Inputs : \E text \in Inputs[field] : Update(Typed(form, field, text))
    \/ CancelEdit \/ Discard \/ DiscardChoices \/ Apply
    \/ \E key \in DOMAIN Lessons[lesson].parameters :
          \E value \in Lessons[lesson].parameters[key].values : Choose(key, value)
    \/ \E l \in DOMAIN Lessons : Load(l) \/ Compare(l)

Spec == Init /\ [][Next]_vars

-----------------------------------------------------------------------------
(* What is so of every lesson and every text.                               *)

\* The name of a component or destination is not empty, a link and a
\* subscription have two, and a kind is one of break-faults.ts:40-67.
LessonsNamed == \A l \in DOMAIN Lessons :
    /\ \A k \in Lessons[l].links \union Lessons[l].subscriptions : k = <<k[1], k[2]>> /\ Blank \notin {k[1], k[2]}
    /\ Blank \notin Lessons[l].databases \union Lessons[l].services \union Lessons[l].externals
    /\ \A kind \in Lessons[l].kinds :
          /\ kind[1] \in {"network.request", "network.response", "message.delivery", "database.commit", "scheduled"}
          /\ Scheduled(kind) => kind \in {<<"scheduled", "crash">>, <<"scheduled", "external-availability">>}
          /\ \A t \in TargetOptions(l, kind) : t.graph # Blank

\* A state is one of four words (BreakPanel.tsx:199), and the text that String
\* gives of a number is read as that number again.
TextsRead ==
    /\ DOMAIN Inputs \subseteq DOMAIN EmptyForm
    /\ Blank \notin Inputs.state \union {EmptyForm.state}
    /\ \A text \in Plain : ShownAs[Reads[text]] \in Plain => Reads[ShownAs[Reads[text]]] = Reads[text]

-----------------------------------------------------------------------------
(* Traffic as the runtimes probe the fault engine: a response has the      *)
(* responder as its source (network.ts), a delivery the consumer as its    *)
(* target and the destination as its name (message-bus.ts), a commit the   *)
(* owner (database.ts).                                                     *)
Traffic(l, endpoints) ==
    {[point |-> "network.request", source |-> k[1], target |-> k[2], name |-> n, on |-> k] : k \in Lessons[l].links, n \in endpoints}
    \union {[point |-> "network.response", source |-> k[2], target |-> k[1], name |-> n, on |-> k] : k \in Lessons[l].links, n \in endpoints}
    \union {[point |-> "message.delivery", source |-> "publisher", target |-> s[2], name |-> s[1], on |-> s] : s \in Lessons[l].subscriptions}
    \union {[point |-> "database.commit", source |-> d, target |-> d, name |-> d, on |-> DatabaseNode(d)] : d \in Lessons[l].databases}
Hits(e, p) == /\ p.point = e.kind[1]
              /\ e.source \in {Blank, p.source} /\ e.target \in {Blank, p.target} /\ e.name \in {Blank, p.name}

OfLesson(e) == \E t \in TargetOptions(lesson, e.kind) : t.graph \in FaultMarks(lesson, e)

\* The draft can be trusted as a description of what will run: its entries
\* have identifiers of their own through additions, removals, discards and
\* loads; an entry of the lesson goes through the form and back unchanged,
\* unless its probability is too small to be shown in the form's notation; the
\* marks on the graph are where its traffic is hit; with nothing pending the
\* chips are the applied faults; and applied overrides are legal in the lesson
\* and none is a default, Compare's included (break-faults.ts:163-244,
\* 352-361, 389-413; design-choices.ts:44-51).
DraftDescribesTheRun ==
    /\ Cardinality({e.id : e \in Entries(draft)}) = Len(draft)
    /\ \A e \in Entries(draft) : OfLesson(e) =>
          /\ \/ ~Scheduled(e.kind) /\ ShownAs[e.probability] \notin Plain
             \/ ~FormErrors(lesson, FormFromEntry(lesson, e)) /\ BuildEntry(lesson, FormFromEntry(lesson, e), e.id) = e
          /\ ~Scheduled(e.kind) => FaultMarks(lesson, e) = {p.on : p \in {q \in Traffic(lesson, (Inputs.endpoint \ {Blank}) \union {"other"}) : Hits(e, q)}}
    /\ applied # NoSession =>
          /\ ~Pending => Entries(draft) = Entries(DraftFromOverlay(applied))
          /\ \A k \in DOMAIN applied.parameters :
                /\ k \in DOMAIN Lessons[lesson].parameters
                /\ applied.parameters[k] \in Lessons[lesson].parameters[k].values \ {Lessons[lesson].parameters[k].default}
=============================================================================
