-------------------------------- MODULE PageMC --------------------------------
(***************************************************************************)
(* What a student does with a lesson in the page, one part at a time, the  *)
(* others as they begin: the scenario the lesson describes and its         *)
(* composition, the overlay of what is changed in it, the draft of the     *)
(* panels that compose one, the navigation of the review of a run, and the *)
(* graph that is played back.                                              *)
(***************************************************************************)
EXTENDS ReviewNavigation, FiniteSetsExt, TLC

CONSTANTS
    Nobody, MaxMoves,
    Descriptors, Judged, Scenarios, Insertions, AuthorEdits,   \* ScenarioDocument: Models, Predicates, Base, Entries
    Designs, Packed, Allowance, Offers, StudentEntries,        \* Overlay: Catalog, Packaged, Policy, Offers
    Recordable, Drawn,                                         \* Playback: Records, Links
    BlankText, JunkText, NoSession, NoEdit, MaxFaults,
    Paired, Typable, Denoted, Written, Printed                 \* StudentDraft: Lessons, Inputs, Reads, Plain, ShownAs

VARIABLES
    part,
    doc, revisions,
    submitted,
    played, recording, cursor, phase, moves,
    lesson, composed, choices, applied, editing, form

scenarioVars == <<doc, revisions>>
playbackVars == <<played, recording, cursor, phase, moves>>
draftVars == <<lesson, composed, choices, applied, editing, form>>

\* A history of six records and the replay of another lesson, with drafts of
\* every field, reversed and unreadable bounds among them.
TypeField == {"type"}
Row(id, time, kind, movement, type, trace, entities) ==
    [id |-> id, time |-> time, kind |-> kind, movement |-> movement, data |-> 0,
     trace |-> trace, text |-> [f \in TypeField |-> {type}], entities |-> entities]
Checkout == <<Row(1, 0, "setup", FALSE, "scheduler", {}, {}), Row(2, 0, "started", FALSE, "event", {}, {}),
              Row(3, 1, "message", TRUE, "published", {"t1"}, {<<"order", "1">>}),
              Row(4, 1, "setup", FALSE, "scheduler", {}, {}), Row(5, 1, "assertion", FALSE, "assertion", {}, {}),
              Row(6, 2, "commit", FALSE, "committed", {"t1"}, {<<"order", "2">>, <<"row", "1">>})>>
Retried == <<Row(1, 0, "setup", FALSE, "scheduler", {}, {}), Row(12, 3, "request", TRUE, "sent", {"t2"}, {})>>
Histories == {Checkout, Retried}

Views == [messages |-> {"message", "retry"}, changes |-> {"commit", "rollback", "external"}]

Exact(v) == [value |-> v, mode |-> "exact"]
Holding(v) == [value |-> v, mode |-> "contains"]
Stored == {"scheduler", "event", "published", "assertion", "committed", "sent", "t1", "t2", "order", "row", "1", "2"}
Matched == {<<s, Exact(s)>> : s \in Stored} \cup {<<s, Holding("ed")>> : s \in {"scheduler", "published", "committed"}}

\* One control, or a dialog that sets both bounds.
Bounds == {<<>>, <<-1>>, <<1>>, <<2>>}
Edited == [d \in [from : Bounds, to : Bounds, trace : {Blank, Exact("t1"), Exact("t2")},
                  text : [TypeField -> {Blank, Exact("scheduler"), Holding("ed")}],
                  entityKind : {Blank, Exact("order")}, entityId : {Blank, Exact("1")}] |->
    {[d EXCEPT !.from = f, !.to = t] : f \in Bounds, t \in {<<>>, <<1>>}}
    \cup {[d EXCEPT !.trace = Exact("t1")], [d EXCEPT !.entityKind = Exact("order"), !.entityId = Exact("1")]}
    \cup {[d EXCEPT !.text["type"] = c] : c \in {Blank, Exact("scheduler"), Holding("ed")}}]

\* A client's call to orders, which commits a transaction and publishes to a
\* queue another service consumes: lost, late and redacted records.
Entered(id, type, source, target, ref, after, unless) ==
    [id |-> id, type |-> type, source |-> source, target |-> target, ref |-> ref, redacted |-> FALSE,
     consumer |-> IF type \in {"message.delivered", "message.acknowledged"} THEN source ELSE Nobody,
     destination |-> IF type \in {"message.published", "message.delivered", "message.acknowledged"} THEN "events" ELSE Nobody, after |-> after, unless |-> unless]
CallRecords == {Entered(1, "request.sent", "client", "orders", "r", {}, {}),
         Entered(2, "request.delivered", "client", "orders", "r", {1}, {3}),
         Entered(3, "request.dropped", "client", "orders", "r", {1}, {2}),
         Entered(4, "request.timedout", "client", "orders", "r", {1}, {7}),
         Entered(5, "response.sent", "orders", "client", "r", {2}, {}),
         Entered(6, "response.dropped", "orders", "client", "r", {5}, {7}),
         Entered(7, "response.received", "orders", "client", "r", {5}, {6})}
WorkRecords == {Entered(8, "transaction.begun", "orders", Nobody, "t", {2}, {5}),
         Entered(9, "transaction.committed", "orders", Nobody, "t", {8}, {5, 10}),
         Entered(10, "transaction.rejected", "orders", Nobody, "t", {8}, {9, 5})}
EventRecords == {Entered(11, "message.published", "orders", Nobody, "m", {9}, {5}),
           Entered(12, "message.delivered", "notify", Nobody, "d1", {11, 5}, {}),
           Entered(13, "message.retry", "notify", Nobody, "m", {12}, {14}),
           Entered(14, "message.acknowledged", "notify", Nobody, "d1", {12}, {13}),
           [Entered(15, "message.delivered", "notify", Nobody, "d2", {13}, {}) EXCEPT !.redacted = TRUE],
           Entered(16, "message.ack.stale", "notify", Nobody, "d1", {15}, {})}
CheckoutRecords == CallRecords \cup WorkRecords \cup EventRecords

DrawnLinks == {[source |-> "client", target |-> "orders", relationship |-> "request"],
          [source |-> "orders", target |-> "events", relationship |-> "publication"],
          [source |-> "events", target |-> "notify", relationship |-> "subscription"]}

Graph == INSTANCE Playback WITH Records <- Recordable, Links <- Drawn, None <- Nobody, history <- played

ASSUME RecordsAssumption == Graph!WellRecorded

\* A shop of four components whose documents are edited twice: entries of
\* every section, right and wrong, over a catalog of five models, one of them
\* a placeholder.
Peer(name, kinds, calls) == [name |-> name, default |-> name, kinds |-> kinds, calls |-> calls]
Descriptor(kind, peers, endpoints, actions, consumers, publishes, tables, store, placeholder) ==
    [kind |-> kind, peers |-> peers, endpoints |-> endpoints, actions |-> actions, consumers |-> consumers,
     publishes |-> publishes, tables |-> tables, store |-> store, placeholder |-> placeholder,
     checks |-> IF tables = {} THEN {} ELSE {"positive"}]

ShopModels == [
    customer |-> Descriptor("client", {Peer("orders", {"service"}, {"place"})}, {}, {"checkout"}, {}, {}, {}, FALSE, FALSE),
    shop     |-> Descriptor("service", {Peer("payer", {"service", "external"}, {"charge"})}, {"place"}, {}, {}, {"created"}, {"orders"}, FALSE, FALSE),
    provider |-> Descriptor("external", {}, {"charge"}, {}, {}, {}, {}, FALSE, FALSE),
    mailing  |-> Descriptor("service", {}, {}, {}, {"created"}, {}, {}, TRUE, FALSE),
    blank    |-> Descriptor("service", {}, {}, {}, {}, {}, {}, FALSE, TRUE)]

Node(id, kind, model, peer, interface) == [id |-> id, kind |-> kind, model |-> model, peer |-> peer, interface |-> interface]
Wire(source, target, timeout, failureRate) == [source |-> source, target |-> target, timeout |-> timeout, failureRate |-> failureRate]
Table(name, unique, checks) == [name |-> name, unique |-> unique, checks |-> checks]
TableRow(table, key, value) == [table |-> table, key |-> key, value |-> value]
DataBase(owner, tables, content) == [owner |-> owner, tables |-> tables, rows |-> content]
Storage(owner, initial) == [owner |-> owner, initial |-> initial]
Queue(id, ackTimeout) == [id |-> id, ackTimeout |-> ackTimeout, maxAttempts |-> 1, capacity |-> 1]
FaultAt(id, point, target, name, from, until, effect) ==
    [id |-> id, point |-> point, source |-> <<>>, target |-> target, name |-> name, from |-> from, until |-> until, effect |-> effect]
ActAt(id, at, kind, target, name) == [id |-> id, at |-> at, kind |-> kind, target |-> target, name |-> name]
Claim(id, predicate, mode, at, deadline) == [id |-> id, predicate |-> predicate, mode |-> mode, at |-> at, deadline |-> deadline]

ShopDocument == [startTime |-> <<1>>, configStart |-> <<>>,
    components |-> <<Node("app", "client", "customer", "default", {}), Node("orders", "service", "shop", "default", {}),
                     Node("payer", "external", "provider", "default", {}), Node("mail", "service", "mailing", "default", {})>>,
    links |-> <<Wire("app", "orders", 1, 0), Wire("orders", "payer", 1, 100)>>,
    databases |-> <<DataBase("orders", <<Table("orders", TRUE, {"positive"})>>, {TableRow("orders", 1, 1)})>>,
    stores |-> <<Storage("mail", <<[key |-> 1, ttl |-> <<>>]>>)>>,
    destinations |-> <<Queue("created", 1)>>,
    subscriptions |-> <<[destination |-> "created", consumer |-> "mail"]>>,
    external |-> <<[target |-> "payer", operation |-> "charge"]>>,
    faults |-> <<FaultAt("f1", "message.delivery", <<"mail">>, <<>>, 1, <<3>>, "duplicate")>>,
    actions |-> <<ActAt(1, 1, "client", "app", "checkout"), ActAt(2, 2, "crash", "mail", "f2")>>,
    assertions |-> <<Claim(1, "paid", "eventually", <<>>, <<5>>)>>]

ShopDocuments == {ShopDocument, [ShopDocument EXCEPT !.startTime = <<>>, !.links = @ \o <<Wire("orders", "spare", 1, 0)>>,
                             !.components = Append(@, Node("spare", "service", "blank", "default", {}))]}

ShopEntries == [
    startTime |-> {0, 2}, configStart |-> {1, 2},
    components |-> {Node("payer", "service", "blank", "default", {"charge"}), Node("spare", "service", "blank", "default", {"charge"}),
                    Node("orders", "service", "shop", "spare", {}), Node("orders", "service", "shop", "blank", {}), Node("app", "client", "customer", "payer", {}),
                    Node("late", "service", "mailing", "default", {}), Node("payer", "external", "unheard", "default", {}), Node("mail", "external", "mailing", "default", {})},
    links |-> {Wire("orders", "payer", 0, 0), Wire("app", "orders", 2, 0), Wire("app", "nobody", 1, 0), Wire("mail", "mail", 1, 101)},
    databases |-> {DataBase("orders", <<Table("orders", TRUE, {"forgotten"})>>, {}), DataBase("orders", <<Table("orders", TRUE, {"forgotten"})>>, {TableRow("orders", 1, 1)}),
                   DataBase("mail", <<>>, {}), DataBase("orders", <<Table("orders", TRUE, {}), Table("orders", FALSE, {})>>, {}), DataBase("payer", <<>>, {}),
                   DataBase("orders", <<Table("orders", TRUE, {"positive"})>>, {TableRow("orders", 1, 1), TableRow("orders", 2, 1)}),
                   DataBase("orders", <<Table("orders", FALSE, {"positive"})>>, {TableRow("orders", 1, 0)}), DataBase("orders", <<Table("orders", TRUE, {"positive"})>>, {TableRow("bills", 1, 1)})},
    stores |-> {Storage("mail", <<>>), Storage("orders", <<[key |-> 1, ttl |-> <<0>>]>>), Storage("mail", <<[key |-> 1, ttl |-> <<>>], [key |-> 1, ttl |-> <<1>>]>>), Storage("app", <<>>)},
    destinations |-> {Queue("created", 0), Queue("created", 2), Queue("spare", 1)},
    subscriptions |-> {[destination |-> "created", consumer |-> "mail"], [destination |-> "created", consumer |-> "orders"],
                       [destination |-> "created", consumer |-> "late"], [destination |-> "spare", consumer |-> "nobody"]},
    external |-> {[target |-> "payer", operation |-> "charge"], [target |-> "payer", operation |-> "refund"], [target |-> "mail", operation |-> "charge"]},
    faults |-> {FaultAt("f2", "message.delivery", <<>>, <<"created">>, 2, <<>>, "duplicate"), FaultAt("f3", "message.delivery", <<>>, <<>>, 3, <<>>, "duplicate"),
                FaultAt("f1", "database.commit", <<>>, <<"orders">>, 1, <<>>, "fail"), FaultAt("f4", "database.commit", <<>>, <<"mail">>, 1, <<>>, "fail"),
                FaultAt("f5", "network.response", <<"nobody">>, <<>>, 0, <<>>, "disconnect"), FaultAt("f2", "network.request", <<>>, <<>>, 2, <<2>>, "drop")},
    actions |-> {ActAt(3, 1, "service", "mail", "-"), ActAt(4, 1, "service", "payer", "-"), ActAt(3, 2, "external", "payer", "-"), ActAt(5, 0, "client", "app", "leave"),
                 ActAt(6, 3, "behavior", "payer", "charge"), ActAt(7, 3, "behavior", "payer", "refund"), ActAt(8, 3, "availability", "payer", "f1"), ActAt(9, 3, "crash", "payer", "f3")},
    assertions |-> {Claim(2, "paid", "always", <<>>, <<>>), Claim(1, "paid", "at", <<2>>, <<>>), Claim(3, "sent", "always", <<>>, <<>>),
                    Claim(4, "paid", "at", <<>>, <<2>>), Claim(5, "paid", "eventually", <<>>, <<0>>)}]
Composer == INSTANCE ScenarioDocument WITH
    Models <- Descriptors, Predicates <- Judged, Base <- Scenarios, Entries <- Insertions,
    MaxEdits <- AuthorEdits, edits <- revisions

\* Documents are those of the language, and so are the entries added to them.
ASSUME DocumentsAssumption ==
    /\ \A d \in Scenarios : Composer!IsDocument(d)
    /\ DOMAIN Insertions \subseteq Composer!Sections
    /\ \A section \in DOMAIN Insertions : \A entry \in Insertions[section] : Composer!Timed(section, entry)

\* A lesson with one slot, whose packaged model is bound to a peer that is not
\* the default, and entries of every list, allowed and not.
SlotModels == LET flag == [values |-> {"on", "off"}, default |-> "off"] none == [x \in {} |-> x] IN [
    shop  |-> [peers |-> [payer |-> "bank"], options |-> [retry |-> flag], tables |-> {"orders"}, store |-> FALSE, consumers |-> {}],
    queue |-> [peers |-> [payer |-> "card"], options |-> [batch |-> flag], tables |-> {"orders"}, store |-> TRUE, consumers |-> {"paid"}],
    bank  |-> [peers |-> none, options |-> none, tables |-> {}, store |-> FALSE, consumers |-> {}]]

SlotLesson == [model |-> [orders |-> "shop", bank |-> "bank", card |-> "bank"],
    configuration |-> [orders |-> [payer |-> "card"], bank |-> [x \in {} |-> x], card |-> [x \in {} |-> x]],
    links |-> {<<"orders", "bank">>, <<"orders", "card">>},
    owned |-> <<[owner |-> "orders", resource |-> "database", tables |-> {"orders"}]>>,
    subscriptions |-> <<>>, faults |-> <<[id |-> 0]>>, actions |-> <<[id |-> 0]>>, values |-> [timeout |-> 5]]

SlotAllowance == [slots |-> [orders |-> {"shop", "queue"}], bindings |-> (<<"orders", "payer">> :> {"bank", "card"}),
    resources |-> {<<"orders", "database">>, <<"orders", "store">>}, subscriptions |-> {<<"orders", "paid">>},
    maxEdits |-> 4, rules |-> {<<"network.request", "drop">>}, scheduled |-> {"crash"}, maxEntries |-> 1,
    parameters |-> [wait |-> [values |-> {5, 9}, default |-> 5, targets |-> {"timeout"}]]]

Slot(model, options) == [component |-> "orders", model |-> model, options |-> options]
Opt(key, value) == [key |-> key, value |-> value]
StudentRule(student, effect, limit) == [id |-> 1, student |-> student, point |-> "network.request", effect |-> effect, maxApplications |-> limit]

SlotEntries == [
    slots |-> {Slot("shop", <<>>), Slot("shop", <<Opt("retry", "on"), Opt("retry", "off")>>), Slot("shop", <<Opt("retry", "off")>>),
               Slot("queue", <<Opt("batch", "on")>>), Slot("queue", <<Opt("retry", "on")>>), Slot("bank", <<>>)},
    bindings |-> {[component |-> c, peer |-> "payer", target |-> t] : c \in {"orders"}, t \in {"bank", "card", "orders"}},
    resources |-> {[owner |-> "orders", resource |-> r, change |-> c] : r \in {"database", "store"}, c \in {"attach", "detach"}},
    subscriptions |-> {[consumer |-> "orders", destination |-> "paid", change |-> c] : c \in {"subscribe", "unsubscribe"}},
    faults |-> {StudentRule(TRUE, "drop", <<>>), StudentRule(FALSE, "drop", <<2>>), StudentRule(TRUE, "delay", <<2>>)},
    scheduledFaults |-> {[id |-> 2, student |-> TRUE, kind |-> k] : k \in {"crash", "client"}},
    parameters |-> {Opt("wait", 5), Opt("wait", 9), Opt("wait", 7), Opt("other", 5)}]

Student == INSTANCE Overlay WITH
    Catalog <- Designs, Packaged <- Packed, Policy <- Allowance,
    Offers <- Offers, MaxEntries <- StudentEntries

ASSUME LessonAssumption == Student!LessonChecked /\ Student!EntriesOffered

\* Two paired lessons that share a link, one kind of fault and one parameter,
\* and differ in the other kind and in the default of the other parameter.
Switch(default) == [values |-> {FALSE, TRUE}, default |-> default]
Offered(kind, idempotency) ==
    [kinds |-> {<<"network.response", "drop">>, kind},
     links |-> {<<"payments", "provider">>}, subscriptions |-> {<<"OrderCreated", "payments">>},
     databases |-> {"orders"}, services |-> {"payments"}, externals |-> {"provider"},
     parameters |-> [idempotency |-> Switch(idempotency), breaker |-> Switch(FALSE)]]
LessonPair == "unsafe" :> Offered(<<"scheduled", "external-availability">>, FALSE)
           @@ "safe" :> Offered(<<"message.delivery", "duplicate">>, TRUE)
Typed == [endpoint |-> {BlankText}, until |-> {BlankText}, probability |-> {"1"}, state |-> {"DEGRADED"}]
Certain == "1" :> "one"
ShownCertain == "one" :> "1"

Panels == INSTANCE StudentDraft WITH
    Blank <- BlankText, Junk <- JunkText, Lessons <- Paired, Inputs <- Typable, MaxEntries <- MaxFaults,
    Reads <- Denoted, Plain <- Written, ShownAs <- Printed, draft <- composed

ASSUME TextAssumption == Panels!LessonsNamed /\ Panels!TextsRead

-----------------------------------------------------------------------------
PageInit ==
    /\ part \in {"scenario", "overlay", "draft", "review", "playback"}
    /\ Composer!Init /\ Student!Init /\ Panels!Init /\ Init /\ Graph!Init
    /\ part # "scenario" => doc = CHOOSE d \in Scenarios : TRUE
    /\ part # "draft" => lesson = CHOOSE l \in DOMAIN Paired : TRUE
    /\ part # "review" => history = CHOOSE h \in Runs : TRUE

Still(p, others) == part = p \/ UNCHANGED others
Others == /\ UNCHANGED part
          /\ Still("scenario", scenarioVars) /\ Still("overlay", submitted) /\ Still("draft", draftVars)
          /\ Still("review", vars) /\ Still("playback", playbackVars)

PageNext ==
    \/ part = "scenario" /\ Composer!Edit /\ Others
    \/ part = "overlay" /\ Student!Next /\ Others
    \/ part = "draft" /\ Panels!Next /\ Others
    \/ part = "review" /\ Next /\ Others
    \/ part = "playback" /\ Graph!Next /\ Others

PageSpec == PageInit /\ [][PageNext]_<<part, scenarioVars, submitted, draftVars, vars, playbackVars>>

-----------------------------------------------------------------------------
(* Properties, beside NavigationKeepsFaith of the review; each is stated    *)
(* and commented in the module of its part.                                 *)

\* A scenario whose structure is accepted composes (ScenarioDocument).
AcceptedComposes == part = "scenario" => Composer!AcceptedComposes

\* The normal form of an accepted overlay is the same design (Overlay).
OverlayMeansWhatItSays == part = "overlay" => Student!OverlayMeansWhatItSays

\* The draft can be trusted as a description of what will run (StudentDraft).
DraftDescribesTheRun == part = "draft" => Panels!DraftDescribesTheRun

\* The graph paints what was recorded (Playback).
PaintsTheRecord == part = "playback" => Graph!PaintsTheRecord
=============================================================================
