--------------------------- MODULE ScenarioDocument ---------------------------
(***************************************************************************)
(* Acceptance of a scenario document, packages/scenario/src/validate.ts    *)
(* and composition.ts, and what the composition of the accepted document   *)
(* asks of it: the constructors of the kernel and engine.ts.               *)
(*                                                                         *)
(* A document is a record of sections, each a sequence of entries; it is   *)
(* edited entry by entry, as an author does.  JSON types, unsupported and  *)
(* missing keys, texts, seed, visibility and the defaults are left out;    *)
(* times and durations are small.  A diagnostic is a section and a code.   *)
(* A check of a row asks for a positive value, whatever its name.          *)
(***************************************************************************)
EXTENDS Naturals, Sequences, FiniteSets, SequencesExt

CONSTANTS
    Models,        \* descriptors by model
    Predicates,    \* of the assessment
    Base,          \* documents to begin with
    Entries,       \* entries an author may add, by section
    MaxEdits

VARIABLES doc, edits
vars == <<doc, edits>>

Values(s) == {s[i] : i \in DOMAIN s}
Repeats(s, Key(_)) == \E i, j \in DOMAIN s : i < j /\ Key(s[i]) = Key(s[j])
Say(section, code, wrong) == IF wrong THEN {<<section, code>>} ELSE {}

-----------------------------------------------------------------------------
(* The readers of the architecture.                                         *)

\* A component that is read: of a known model and of its kind.
ReadComponents(d) == {c \in Values(d.components) : c.model \in DOMAIN Models /\ Models[c.model].kind = c.kind}
Known(d, id) == \E c \in ReadComponents(d) : c.id = id
\* Identities repeat only in documents that are refused.
Found(d, id) == CHOOSE c \in ReadComponents(d) : c.id = id
Kind(d, id) == Found(d, id).kind
Model(d, id) == Models[Found(d, id).model]
Operations(d, id) == IF Kind(d, id) = "external" THEN Model(d, id).endpoints ELSE {}

\* startTime and configStart are <<>> when absent.
Start(d) == Head(d.startTime \o d.configStart \o <<0>>)
StartDiagnostics(d) == Say("startTime", "START_TIME_MISMATCH",
                           d.startTime # <<>> /\ d.configStart # <<>> /\ d.startTime # d.configStart)

ComponentDiagnostics(d) ==
    LET cs == d.components IN
    Say("components", "DUPLICATE", Repeats(cs, LAMBDA c : c.id))
    \cup Say("components", "UNKNOWN_MODEL", \E c \in Values(cs) : c.model \notin DOMAIN Models)
    \cup Say("components", "KIND", \E c \in Values(cs) : c.model \in DOMAIN Models /\ Models[c.model].kind # c.kind)

\* readLinks and readPolicy; a link without a valid policy is not read.
LinkDiagnostics(d) ==
    LET read == {i \in DOMAIN d.links : d.links[i].timeout > 0}
        ends(i) == <<d.links[i].source, d.links[i].target>>
    IN Say("links", "TYPE", \E l \in Values(d.links) : l.timeout = 0 \/ l.failureRate > 100)
       \cup Say("links", "UNKNOWN_COMPONENT", \E i \in read : ~Known(d, ends(i)[1]) \/ ~Known(d, ends(i)[2]))
       \cup Say("links", "LINK", \E i, j \in read : i < j /\ ends(i) = ends(j))

\* The owner of a database or of a store.
OwnerDiagnostics(d, section) ==
    Say(section, "UNKNOWN_COMPONENT", \E e \in Values(d[section]) : ~Known(d, e.owner))
    \cup Say(section, "OWNERSHIP", \E e \in Values(d[section]) : Known(d, e.owner) /\ Kind(d, e.owner) # "service")
    \cup Say(section, "DUPLICATE", Repeats(d[section], LAMBDA e : e.owner))

\* The checks that the model of an owner has.
Checks(d, owner) == IF Known(d, owner) THEN Model(d, owner).checks ELSE {}
RowsOf(b, table) == {r \in b.rows : r.table = table.name}
Passes(row, checks) == checks = {} \/ row.value > 0
Clashes(rows, table) == table.unique /\ \E r, q \in rows : r.key # q.key /\ r.value = q.value

DatabaseDiagnostics(d) == OwnerDiagnostics(d, "databases")
    \cup UNION {LET b == d.databases[i] IN
          Say("databases", "DUPLICATE", Repeats(b.tables, LAMBDA t : t.name))
          \cup Say("databases", "REFERENCE", \/ \E r \in b.rows : \A t \in Values(b.tables) : t.name # r.table
                                            \/ \E t \in Values(b.tables) : RowsOf(b, t) # {} /\ ~(t.checks \subseteq Checks(d, b.owner)))
          \cup Say("databases", "CONSTRAINT", \E t \in Values(b.tables) : \/ Clashes(RowsOf(b, t), t)
                                                                        \/ \E r \in RowsOf(b, t) : ~Passes(r, t.checks \cap Checks(d, b.owner)))
        : i \in DOMAIN d.databases}

StoreDiagnostics(d) == OwnerDiagnostics(d, "stores")
    \cup Say("stores", "DUPLICATE", \E s \in Values(d.stores) : Repeats(s.initial, LAMBDA item : item.key))
    \cup Say("stores", "TYPE", \E s \in Values(d.stores) : \E item \in Values(s.initial) : item.ttl = <<0>>)

Valid(destination) == destination.ackTimeout > 0 /\ destination.maxAttempts > 0 /\ destination.capacity > 0
DestinationDiagnostics(d) ==
    Say("destinations", "TYPE", \E n \in Values(d.destinations) : ~Valid(n))
    \cup Say("destinations", "DUPLICATE", Repeats(d.destinations, LAMBDA n : n.id))

\* Subscriptions are those the models of the consumers declare, both ways.
Subscribed(d, consumer, destination) == \E s \in Values(d.subscriptions) : s.consumer = consumer /\ s.destination = destination
SubscriptionDiagnostics(d) ==
    LET read == {n \in Values(d.destinations) : Valid(n)}
        strange(s) == Known(d, s.consumer) /\ (Kind(d, s.consumer) # "service" \/ s.destination \notin Model(d, s.consumer).consumers)
    IN Say("subscriptions", "REFERENCE", \E s \in Values(d.subscriptions) : \A n \in read : n.id # s.destination)
       \cup Say("subscriptions", "UNKNOWN_COMPONENT", \E s \in Values(d.subscriptions) : ~Known(d, s.consumer))
       \cup Say("subscriptions", "DUPLICATE", Repeats(d.subscriptions, LAMBDA s : s))
       \cup Say("subscriptions", "SUBSCRIPTION",
                \/ \E s \in Values(d.subscriptions) : strange(s)
                \/ \E c \in ReadComponents(d) : c.kind = "service" /\
                      \E n \in Models[c.model].consumers : ~Subscribed(d, c.id, n))

ReadDiagnostics(d) == ComponentDiagnostics(d) \cup LinkDiagnostics(d) \cup DatabaseDiagnostics(d)
    \cup StoreDiagnostics(d) \cup DestinationDiagnostics(d) \cup SubscriptionDiagnostics(d)

-----------------------------------------------------------------------------
(* Composition rules, over an architecture without diagnostics.             *)

\* Faulty variant: a placeholder is taken for what its model declares.
ExposedByModel(d, id) == IF Model(d, id).placeholder THEN {"charge"} ELSE Model(d, id).endpoints

\* What a component answers to; a placeholder, what it is configured for.
Exposed(d, id) == IF Model(d, id).placeholder THEN Found(d, id).interface
                  ELSE Model(d, id).endpoints
Bound(c, peer) == IF c.peer = "default" THEN peer.default ELSE c.peer
Linked(d, source, target) == \E l \in Values(d.links) : l.source = source /\ l.target = target

PeerDiagnostics(d, c, peer) ==
    LET target == Bound(c, peer) IN
    IF c.peer = "blank" THEN {<<"components", "TYPE">>}
    ELSE IF ~Known(d, target) \/ Kind(d, target) \notin peer.kinds \ {"client"} THEN {<<"components", "PEER">>}
    ELSE Say("components", "INTERFACE", ~(peer.calls \subseteq Exposed(d, target)))
         \cup Say("components", "LINK", ~Linked(d, c.id, target))

StorageDiagnostics(d, c) ==
    LET needs == Models[c.model].tables
        owned == UNION {{t.name : t \in Values(b.tables)} : b \in {e \in Values(d.databases) : e.owner = c.id}}
    IN Say("components", "STORAGE", ~(needs \subseteq owned)
                                    \/ (Models[c.model].store /\ \A s \in Values(d.stores) : s.owner # c.id))

PublishDiagnostics(d, c) ==
    Say("components", "PUBLISH", \E n \in Models[c.model].publishes : \A e \in Values(d.destinations) : e.id # n)

BindingDiagnostics(d, c) == UNION {PeerDiagnostics(d, c, peer) : peer \in Models[c.model].peers}
RuleDiagnostics(d, c) == BindingDiagnostics(d, c) \cup PublishDiagnostics(d, c) \cup StorageDiagnostics(d, c)
CheckComposition(d) == UNION {RuleDiagnostics(d, c) : c \in Values(d.components)}

ReadArchitecture(d) == IF ReadDiagnostics(d) # {} THEN ReadDiagnostics(d) ELSE CheckComposition(d)

-----------------------------------------------------------------------------
(* Behaviours, faults, actions and assertions.                              *)

ExternalDiagnostics(d) ==
    Say("external", "UNKNOWN_COMPONENT", \E e \in Values(d.external) : ~Known(d, e.target))
    \cup Say("external", "REFERENCE", \E e \in Values(d.external) : Known(d, e.target) /\ Kind(d, e.target) # "external")
    \cup Say("external", "UNKNOWN_OPERATION", \E e \in Values(d.external) : Known(d, e.target) /\ e.operation \notin Operations(d, e.target))
    \cup Say("external", "DUPLICATE", Repeats(d.external, LAMBDA e : e))

\* Which effects a point has.
EffectApplies(point, effect) ==
    CASE point = "database.commit" -> effect = "fail"
      [] point = "message.delivery" -> effect \in {"delay", "drop", "duplicate"}
      [] point = "network.request" -> effect \in {"delay", "drop", "disconnect"}
      [] OTHER -> effect \in {"delay", "drop"}

\* Selectors are <<>> for any component; until is <<>> for no end.
Meet(a, b) == a = <<>> \/ b = <<>> \/ a = b
EndsAfter(a, from) == a.until = <<>> \/ from < a.until[1]
Overlap(a, b) == /\ a.effect = "duplicate" /\ b.effect = "duplicate" /\ a.point = b.point
                 /\ Meet(a.source, b.source) /\ Meet(a.target, b.target) /\ Meet(a.name, b.name)
                 /\ EndsAfter(a, b.from) /\ EndsAfter(b, a.from)

FaultDiagnostics(d) ==
    LET fs == d.faults IN
       Say("faults", "DUPLICATE", Repeats(fs, LAMBDA f : f.id))
       \cup Say("faults", "BEFORE_START", \E f \in Values(fs) : f.from < Start(d))
       \cup Say("faults", "UNKNOWN_COMPONENT", \E f \in Values(fs) : \E id \in Values(f.source \o f.target) : ~Known(d, id))
       \cup Say("faults", "REFERENCE", \E f \in Values(fs) : f.point = "database.commit" /\
                    \E owner \in Values(f.name) : \A b \in Values(d.databases) : b.owner # owner)
       \cup Say("faults", "FAULT", \/ \E f \in Values(fs) : ~EffectApplies(f.point, f.effect) \/ ~EndsAfter(f, f.from)
                                   \/ \E i, j \in DOMAIN fs : i < j /\ Overlap(fs[i], fs[j]))

\* What each kind of action may aim at, and the codes of a target of another kind.
Aimed == [client |-> "client", service |-> "service", external |-> "external", behavior |-> "external",
          crash |-> "service", availability |-> "external"]
ScheduledFault(a) == a.kind \in {"crash", "availability"}
\* The identities of rules and of scheduled faults are of one space.
FaultIds(d) == LET scheduled == SelectSeq(d.actions, ScheduledFault) IN
               [i \in DOMAIN d.faults |-> d.faults[i].id] \o [i \in DOMAIN scheduled |-> scheduled[i].name]

AimDiagnostics(d, a) ==
    Say("actions", IF ScheduledFault(a) THEN "FAULT" ELSE "REFERENCE", Known(d, a.target) /\ Kind(d, a.target) # Aimed[a.kind])
    \cup Say("actions", "UNKNOWN_ACTION", Known(d, a.target) /\ a.kind = "client" /\ a.name \notin Model(d, a.target).actions)
    \cup Say("actions", "UNKNOWN_OPERATION", Known(d, a.target) /\ a.kind = "behavior" /\ a.name \notin Operations(d, a.target))
ActionDiagnostics(d) ==
    Say("actions", "DUPLICATE", Repeats(d.actions, LAMBDA a : a.id) \/ ~IsInjective(FaultIds(d)))
    \cup Say("actions", "BEFORE_START", \E a \in Values(d.actions) : a.at < Start(d))
    \cup Say("actions", "UNKNOWN_COMPONENT", \E a \in Values(d.actions) : ~Known(d, a.target))
    \cup UNION {AimDiagnostics(d, a) : a \in Values(d.actions)}

\* at and deadline are <<>> when absent.
WellTimed(a) == CASE a.mode = "at" -> a.at # <<>> /\ a.deadline = <<>>
                  [] a.mode = "eventually" -> a.deadline # <<>> /\ a.at = <<>>
                  [] OTHER -> a.at = <<>> /\ a.deadline = <<>>
AssertionDiagnostics(d) ==
    Say("assertions", "DUPLICATE", Repeats(d.assertions, LAMBDA a : a.id))
    \cup Say("assertions", "UNKNOWN_PREDICATE", \E a \in Values(d.assertions) : a.predicate \notin Predicates)
    \cup Say("assertions", "ASSERTION_TIMING", \E a \in Values(d.assertions) : ~WellTimed(a))
    \cup Say("assertions", "BEFORE_START", \E a \in Values(d.assertions) : \E t \in Values(a.at \o a.deadline) : t < Start(d))

\* normalizeScenario.
Diagnostics(d) == StartDiagnostics(d) \cup ReadArchitecture(d) \cup ExternalDiagnostics(d) \cup FaultDiagnostics(d)
                  \cup ActionDiagnostics(d) \cup AssertionDiagnostics(d)
Accepted(d) == Diagnostics(d) = {}

-----------------------------------------------------------------------------
(* Composition of a session: what each constructor refuses.                 *)

NetworkBuilt(d) ==
    /\ ~Repeats(d.components, LAMBDA c : c.id)
    /\ \A l \in Values(d.links) : /\ {l.source, l.target} \subseteq {c.id : c \in Values(d.components)}
                                 /\ l.timeout > 0 /\ l.failureRate <= 100
    /\ ~Repeats(d.links, LAMBDA l : <<l.source, l.target>>)
BusBuilt(d) == ~Repeats(d.destinations, LAMBDA n : n.id) /\ \A n \in Values(d.destinations) : Valid(n)
StoresBuilt(d) == /\ ~Repeats(d.stores, LAMBDA s : s.owner)
                  /\ \A s \in Values(d.stores) : /\ ~Repeats(s.initial, LAMBDA item : item.key)
                                                /\ \A item \in Values(s.initial) : item.ttl # <<0>>
DatabasesBuilt(d, databases) == \A b \in Values(databases) :
    /\ ~Repeats(b.tables, LAMBDA t : t.name)
    /\ \A t \in Values(b.tables) : t.checks \subseteq Checks(d, b.owner)
    /\ \A r \in b.rows : \E t \in Values(b.tables) : t.name = r.table /\ Passes(r, t.checks)
    /\ \A t \in Values(b.tables) : ~Clashes(RowsOf(b, t), t)
FaultsBuilt(d) ==
    /\ ~Repeats(d.faults, LAMBDA f : f.id)
    /\ \A f \in Values(d.faults) : EffectApplies(f.point, f.effect) /\ EndsAfter(f, f.from)
    /\ \A i, j \in DOMAIN d.faults : i < j => ~Overlap(d.faults[i], d.faults[j])

\* Each runtime finds its model, and a model its peers; a consumer finds the
\* destination.
RuntimesBuilt(d) == \A c \in Values(d.components) :
    /\ c.model \in DOMAIN Models
    /\ c.kind = "service" => \A n \in Models[c.model].consumers : \E e \in Values(d.destinations) : e.id = n
    /\ Models[c.model].peers # {} => c.peer # "blank"
ConfiguredExternals(d) == \A e \in Values(d.external) : Known(d, e.target) /\ e.operation \in Operations(d, e.target)

\* An event is scheduled from the start on, for a component, whose runtime
\* knows what the action asks for.
ActionsDispatched(d) == \A a \in Values(d.actions) :
    /\ a.at >= Start(d)
    /\ Known(d, a.target) /\ Kind(d, a.target) = Aimed[a.kind]
    /\ a.kind = "client" => a.name \in Model(d, a.target).actions
    /\ a.kind = "behavior" => a.name \in Operations(d, a.target)
MarkersScheduled(d) == \A a \in Values(d.assertions) :
    a.predicate \in Predicates /\ \A t \in Values(a.at \o a.deadline) : t >= Start(d)

\* What a component does while it runs finds its network link, endpoint,
\* destination and storage.
Wired(d) == \A c \in Values(d.components) : LET m == Models[c.model] IN
    /\ \A peer \in m.peers : LET t == Bound(c, peer) IN
          /\ Linked(d, c.id, t)
          /\ \E o \in Values(d.components) :
                /\ o.id = t
                /\ peer.calls \subseteq IF Models[o.model].placeholder THEN o.interface ELSE Models[o.model].endpoints
    /\ \A n \in m.publishes : \E e \in Values(d.destinations) : e.id = n
    /\ \A n \in m.tables : \E b \in Values(d.databases) : b.owner = c.id /\ \E t \in Values(b.tables) : t.name = n
    /\ m.store => \E s \in Values(d.stores) : s.owner = c.id

-----------------------------------------------------------------------------
(* Edits of an author.                                                      *)

Single == {"startTime", "configStart"}
Sections == Single \cup {"components", "links", "databases", "stores", "destinations", "subscriptions",
                         "external", "faults", "actions", "assertions"}

\* What the readers of times and policies let through: natural numbers.
Timed(section, e) ==
    /\ section \in Single => e \in Nat
    /\ section = "links" => e.timeout \in Nat /\ e.failureRate \in Nat
    /\ section = "actions" => e.at \in Nat
    /\ section = "assertions" => e.at \in Seq(Nat) /\ e.deadline \in Seq(Nat)
IsDocument(d) == /\ d = [section \in Sections |-> d[section]]
                 /\ \A section \in Sections : d[section] \in Seq({e \in Values(d[section]) : Timed(section, e)})

Insert(section, entry) == /\ section \in Single => doc[section] = <<>>
                          /\ doc' = [doc EXCEPT ![section] = Append(@, entry)]
Delete(section, i) == doc' = [doc EXCEPT ![section] = RemoveAt(@, i)]
Replace(section, i, entry) == doc' = [doc EXCEPT ![section] = ReplaceAt(@, i, entry)]

Edit == /\ edits < MaxEdits
        /\ edits' = edits + 1
        /\ \E section \in DOMAIN Entries :
              \/ \E entry \in Entries[section] : Insert(section, entry)
              \/ \E i \in DOMAIN doc[section] : Delete(section, i)
              \/ \E i \in DOMAIN doc[section], entry \in Entries[section] : Replace(section, i, entry)

Init == doc \in Base /\ edits = 0
Spec == Init /\ [][Edit]_vars

-----------------------------------------------------------------------------

\* Databases without the checks of tables that have no rows.
VisitedTable(b, t) == [name |-> t.name, unique |-> t.unique, checks |-> IF RowsOf(b, t) = {} THEN {} ELSE t.checks]
Visited(databases) ==
    [i \in DOMAIN databases |-> LET b == databases[i] IN
        [owner |-> b.owner, rows |-> b.rows, tables |-> [j \in DOMAIN b.tables |-> VisitedTable(b, b.tables[j])]]]

\* A document without diagnostics composes, whatever edits led to it: no
\* constructor of the kernel refuses a part of it, every event has a component
\* that can take it, and no component lacks a link, endpoint, destination or
\* storage its model uses (docs/spec/adr/005-architecture-editor.md:178-181;
\* validate.ts and composition.ts against engine.ts:108-262 and the constructors).
\* But for one case: "an unknown check on an empty table is not diagnosed"
\* (docs/modules/scenario.md:157), and database.ts:55 refuses it.
AcceptedComposes ==
    Accepted(doc) => /\ NetworkBuilt(doc) /\ BusBuilt(doc) /\ StoresBuilt(doc) /\ DatabasesBuilt(doc, Visited(doc.databases))
                     /\ FaultsBuilt(doc) /\ RuntimesBuilt(doc) /\ ConfiguredExternals(doc)
                     /\ ActionsDispatched(doc) /\ MarkersScheduled(doc) /\ Wired(doc)
=============================================================================
