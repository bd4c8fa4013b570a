------------------------------- MODULE Overlay -------------------------------
(***************************************************************************)
(* A session overlay: what the student submits is read against the         *)
(* lesson's policy and normalized, then applied to the packaged document   *)
(* (packages/scenario/src/overlay.ts and architecture-edits.ts).           *)
(*                                                                         *)
(* A submission and its normal form have the same shape, a record of lists *)
(* of entries.  A model stands for a model and its version.  The lists the *)
(* code sorts by their keys are put in one fixed order of their elements.  *)
(* JSON types, the paths of diagnostics and the attribution of a           *)
(* diagnostic of the applied document to an edit are left out.             *)
(***************************************************************************)
EXTENDS Naturals, Sequences, FiniteSets, SequencesExt, FiniteSetsExt

CONSTANTS
    Catalog,      \* model -> peers (name -> default), options (key -> values, default), tables, store, consumers
    Packaged,     \* document: model, configuration, links, owned, subscriptions, faults, actions, values
    Policy,       \* what the lesson allows
    Offers,       \* entries a student may submit, by list
    MaxEntries

VARIABLE submitted

Values(s) == {s[i] : i \in DOMAIN s}
Repeats(s, Key(_)) == \E i, j \in DOMAIN s : i # j /\ Key(s[i]) = Key(s[j])
Keep(s, Test(_)) == SetToSeq({e \in Values(s) : Test(e)})
\* The elements of a sequence at some places, in their order.
AtPlaces(s, places) == LET upto[n \in 0..Len(s)] == IF n = 0 THEN <<>>
                                                    ELSE upto[n - 1] \o IF n \in places THEN <<s[n]>> ELSE <<>>
                       IN upto[Len(s)]
Get(f, key, default) == IF key \in DOMAIN f THEN f[key] ELSE default

-----------------------------------------------------------------------------
(* Overrides: parameters of the lesson, options of a model.                 *)

OverridesRefused(list, declared) ==
    \/ Repeats(list, LAMBDA o : o.key)
    \/ \E o \in Values(list) : o.key \notin DOMAIN declared \/ o.value \notin declared[o.key].values
NonDefault(list, declared) == Keep(list, LAMBDA o : o.value # declared[o.key].default)
OptionConfiguration(options) == [k \in {o.key : o \in Values(options)} |-> (CHOOSE o \in Values(options) : o.key = k).value]

-----------------------------------------------------------------------------
(* Architecture edits.                                                      *)

SlotRefused(s) == \/ s.component \notin DOMAIN Policy.slots
                  \/ s.model \notin Policy.slots[s.component]
                  \/ OverridesRefused(s.options, Catalog[s.model].options)
ReadSlot(s) == [s EXCEPT !.options = NonDefault(@, Catalog[s.model].options)]
SlotNoop(s) == /\ Packaged.model[s.component] = s.model
               /\ Packaged.configuration[s.component] = OptionConfiguration(ReadSlot(s).options)
Slots(sub) == LET kept == Keep(sub.slots, LAMBDA s : ~SlotNoop(s)) IN SetToSeq({ReadSlot(s) : s \in Values(kept)})

\* The component as the slot edits leave it.
Slotted(slots, c) ==
    LET s == {e \in Values(slots) : e.component = c}
    IN IF s = {} THEN [model |-> Packaged.model[c], configuration |-> Packaged.configuration[c]]
       ELSE LET e == CHOOSE x \in s : TRUE IN [model |-> e.model, configuration |-> OptionConfiguration(e.options)]

BindingRefused(b, slots) ==
    \/ <<b.component, b.peer>> \notin DOMAIN Policy.bindings
    \/ b.target \notin Policy.bindings[<<b.component, b.peer>>]
    \/ b.peer \notin DOMAIN Catalog[Slotted(slots, b.component).model].peers
Resolved(component, peer) == Get(component.configuration, peer, Catalog[component.model].peers[peer])
\* Faulty variant: the peer is resolved in the packaged design.
BindingNoopAsPackaged(b, slots) ==
    /\ b.target = Resolved([Packaged EXCEPT !.model = @[b.component], !.configuration = @[b.component]], b.peer)
    /\ <<b.component, b.target>> \in Packaged.links

BindingNoop(b, slots) == Resolved(Slotted(slots, b.component), b.peer) = b.target /\ <<b.component, b.target>> \in Packaged.links

Owns(owner, resource) == \E e \in Values(Packaged.owned) : e.owner = owner /\ e.resource = resource
ResourceRefused(r) == <<r.owner, r.resource>> \notin Policy.resources
ResourceNoop(r) == r.change = "detach" /\ ~Owns(r.owner, r.resource)

SubscriptionRefused(s) == <<s.consumer, s.destination>> \notin Policy.subscriptions
SubscriptionNoop(s) == s.change = "unsubscribe" /\ <<s.consumer, s.destination>> \notin Values(Packaged.subscriptions)

\* readArchitectureEdits: two entries for one element are refused; only those
\* that change the document count for the limit.
NormalEdits(sub) ==
    LET slots == Slots(sub) IN
    [slots |-> slots,
     bindings |-> Keep(sub.bindings, LAMBDA b : ~BindingNoop(b, slots)),
     resources |-> Keep(sub.resources, LAMBDA r : ~ResourceNoop(r)),
     subscriptions |-> Keep(sub.subscriptions, LAMBDA s : ~SubscriptionNoop(s))]
Count(edits) == Len(edits.slots) + Len(edits.bindings) + Len(edits.resources) + Len(edits.subscriptions)
EditsRefused(sub) ==
    \/ \E s \in Values(sub.slots) : SlotRefused(s)
    \/ \E r \in Values(sub.resources) : ResourceRefused(r)
    \/ \E s \in Values(sub.subscriptions) : SubscriptionRefused(s)
    \/ Repeats(sub.slots, LAMBDA s : s.component)
    \/ Repeats(sub.bindings, LAMBDA b : <<b.component, b.peer>>)
    \/ Repeats(sub.resources, LAMBDA r : <<r.owner, r.resource>>)
    \/ Repeats(sub.subscriptions, LAMBDA s : <<s.consumer, s.destination>>)
    \/ LET slots == Slots(sub) IN \E b \in Values(sub.bindings) : BindingRefused(b, slots)
    \/ Count(NormalEdits(sub)) > Policy.maxEdits

-----------------------------------------------------------------------------
(* The overlay: readRule, readScheduled, readOverlay.                       *)

FaultsRefused(sub) ==
    \/ \E r \in Values(sub.faults) : ~r.student \/ <<r.point, r.effect>> \notin Policy.rules
    \/ \E a \in Values(sub.scheduledFaults) : ~a.student \/ a.kind \notin Policy.scheduled
    \/ Len(sub.faults) + Len(sub.scheduledFaults) > Policy.maxEntries
\* maxApplications, as probability, is given its default when absent.
WithDefaults(rule) == IF rule.maxApplications = <<>> THEN [rule EXCEPT !.maxApplications = <<1>>] ELSE rule

Refused(sub) == FaultsRefused(sub) \/ OverridesRefused(sub.parameters, Policy.parameters) \/ EditsRefused(sub)
Normal(sub) == LET edits == NormalEdits(sub) IN
    [faults |-> [i \in DOMAIN sub.faults |-> WithDefaults(sub.faults[i])],
     scheduledFaults |-> sub.scheduledFaults,
     parameters |-> NonDefault(sub.parameters, Policy.parameters),
     slots |-> edits.slots, bindings |-> edits.bindings, resources |-> edits.resources, subscriptions |-> edits.subscriptions]

-----------------------------------------------------------------------------
(* The applied document: composeDocument and applyArchitectureEdits, slots, *)
(* resources, subscriptions and bindings before faults and parameters.      *)

Attached(c, resource, model) == [owner |-> c, resource |-> resource, tables |-> IF resource = "store" THEN {} ELSE Catalog[model].tables]

ApplyResources(resources, slots) ==
    LET owned == Packaged.owned
        detached(e) == \E r \in Values(resources) : r.change = "detach" /\ r.owner = e.owner /\ r.resource = e.resource
        attached == {Attached(r.owner, r.resource, Slotted(slots, r.owner).model) : r \in {x \in Values(resources) : x.change = "attach"}}
    IN AtPlaces(owned, {i \in DOMAIN owned : ~detached(owned[i])}) \o SetToSeq(attached)

ApplySubscriptions(edits) ==
    LET packaged == Packaged.subscriptions
        of(change) == {<<s.consumer, s.destination>> : s \in {x \in Values(edits) : x.change = change}}
    IN AtPlaces(packaged, {i \in DOMAIN packaged : packaged[i] \notin of("unsubscribe")}) \o SetToSeq(of("subscribe"))

\* Writes the peers of a component over its configuration.
ApplyBindings(configuration, bindings, c) ==
    LET bound == {b \in Values(bindings) : b.component = c}
        peers == {b.peer : b \in bound}
    IN [p \in peers \cup DOMAIN configuration |-> IF p \in peers THEN (CHOOSE b \in bound : b.peer = p).target ELSE configuration[p]]

ApplyOverlay(n) ==
    LET at(c) == Slotted(n.slots, c) components == DOMAIN Packaged.model IN
    [model |-> [c \in components |-> at(c).model],
     configuration |-> [c \in components |-> ApplyBindings(at(c).configuration, n.bindings, c)],
     links |-> Packaged.links \cup {<<b.component, b.target>> : b \in Values(n.bindings)},
     owned |-> ApplyResources(n.resources, n.slots),
     subscriptions |-> ApplySubscriptions(n.subscriptions),
     faults |-> Packaged.faults \o n.faults,
     actions |-> Packaged.actions \o n.scheduledFaults,
     values |-> [t \in DOMAIN Packaged.values |->
                   LET o == {x \in Values(n.parameters) : t \in Policy.parameters[x.key].targets}
                   IN IF o = {} THEN Packaged.values[t] ELSE (CHOOSE x \in o : TRUE).value]]

\* Stage 4, the validator: no entry twice, and the composition rules.
Validates(d) ==
    /\ ~Repeats(d.owned, LAMBDA e : <<e.owner, e.resource>>) /\ ~Repeats(d.subscriptions, LAMBDA s : s)
    /\ \A c \in DOMAIN d.model : LET m == Catalog[d.model[c]] has(r) == {e \in Values(d.owned) : e.owner = c /\ e.resource = r} IN
         /\ \A p \in DOMAIN m.peers : <<c, Get(d.configuration[c], p, m.peers[p])>> \in d.links
         /\ \A t \in m.tables : \E e \in has("database") : t \in e.tables
         /\ m.store => has("store") # {}
         /\ \A n \in m.consumers : <<c, n>> \in Values(d.subscriptions)
         /\ \A s \in Values(d.subscriptions) : s[1] = c => s[2] \in m.consumers

Accepted(sub) == ~Refused(sub) /\ Validates(ApplyOverlay(Normal(sub)))

-----------------------------------------------------------------------------
(* A student fills the overlay, entry by entry.                             *)

Empty == [list \in DOMAIN Offers |-> <<>>]
Size == MapThenSumSet(LAMBDA list : Len(submitted[list]), DOMAIN submitted)
Submit(list, entry) == /\ Size < MaxEntries
                       /\ submitted' = [submitted EXCEPT ![list] = Append(@, entry)]

Init == submitted = Empty
Next == \E list \in DOMAIN Offers : \E entry \in Offers[list] : Submit(list, entry)
Spec == Init /\ [][Next]_submitted

-----------------------------------------------------------------------------
(* What is so of every lesson and every entry.                              *)

\* The policy and the packaged document of a lesson pass the checks of
\* validate.ts:251 and document.ts:584-660: their models are of the catalog,
\* and a parameter has targets of its own, which are in the document with the
\* default.  A model's peers and options have different names: document.ts:640
\* checks those a slot offers, and so are all of the catalogs' descriptors.ts.
LessonChecked ==
    /\ \A list \in {"owned", "subscriptions", "faults", "actions"} : Packaged[list] \in Seq(Values(Packaged[list]))
    /\ \A c \in DOMAIN Packaged.model : Packaged.model[c] \in DOMAIN Catalog
    /\ \A c \in DOMAIN Policy.slots : Policy.slots[c] \subseteq DOMAIN Catalog
    /\ \A model \in DOMAIN Catalog : DOMAIN Catalog[model].peers \cap DOMAIN Catalog[model].options = {}
    /\ \A key \in DOMAIN Policy.parameters : \A t \in Policy.parameters[key].targets :
          /\ t \in DOMAIN Packaged.values /\ Packaged.values[t] = Policy.parameters[key].default
          /\ \A other \in DOMAIN Policy.parameters \ {key} : t \notin Policy.parameters[other].targets

\* Entries are records of the fields the readers look for.
IsSlot(s) == s = [component |-> s.component, model |-> s.model, options |-> s.options] /\ s.options \in Seq(Values(s.options))
IsRule(r) == r = [id |-> r.id, student |-> r.student, point |-> r.point, effect |-> r.effect, maxApplications |-> r.maxApplications]
Lists == {"slots", "bindings", "resources", "subscriptions", "faults", "scheduledFaults", "parameters"}
EntriesOffered ==
    /\ DOMAIN Offers = Lists
    /\ \A s \in Offers.slots : IsSlot(s)
    /\ \A r \in Offers.faults : IsRule(r)

-----------------------------------------------------------------------------
(* What an overlay means, read off the submission without normal form or    *)
(* order of application: the wiring it asks for.                            *)

Asks(sub, c) == {s \in Values(sub.slots) : s.component = c}
AskedModel(sub, c) == IF Asks(sub, c) = {} THEN Packaged.model[c] ELSE (CHOOSE s \in Asks(sub, c) : TRUE).model

AskedPeer(sub, c, p) ==
    LET bound == {b \in Values(sub.bindings) : b.component = c /\ b.peer = p}
        default == Catalog[AskedModel(sub, c)].peers[p]
    IN IF bound # {} THEN (CHOOSE b \in bound : TRUE).target
       ELSE IF Asks(sub, c) # {} THEN default
       ELSE Get(Packaged.configuration[c], p, default)

AskedOption(sub, c, k) ==
    LET chosen == UNION {{o \in Values(s.options) : o.key = k} : s \in Asks(sub, c)}
        default == Catalog[AskedModel(sub, c)].options[k].default
    IN IF chosen # {} THEN (CHOOSE o \in chosen : TRUE).value
       ELSE IF Asks(sub, c) # {} THEN default
       ELSE Get(Packaged.configuration[c], k, default)

AskedResources(sub) ==
    {e \in Values(Packaged.owned) : \A r \in Values(sub.resources) : r.owner = e.owner /\ r.resource = e.resource => r.change # "detach"}
    \cup {Attached(r.owner, r.resource, AskedModel(sub, r.owner)) : r \in {x \in Values(sub.resources) : x.change = "attach"}}

AskedSubscriptions(sub) ==
    {e \in Values(Packaged.subscriptions) :
        \A s \in Values(sub.subscriptions) : <<s.consumer, s.destination>> = e => s.change # "unsubscribe"}
    \cup {<<s.consumer, s.destination>> : s \in {x \in Values(sub.subscriptions) : x.change = "subscribe"}}

Wiring(d, c) == LET m == Catalog[d.model[c]] IN
    [model |-> d.model[c],
     peers |-> [p \in DOMAIN m.peers |-> Get(d.configuration[c], p, m.peers[p])],
     options |-> [k \in DOMAIN m.options |-> Get(d.configuration[c], k, m.options[k].default)]]
AskedWiring(sub, c) == LET m == Catalog[AskedModel(sub, c)] IN
    [model |-> AskedModel(sub, c),
     peers |-> [p \in DOMAIN m.peers |-> AskedPeer(sub, c, p)],
     options |-> [k \in DOMAIN m.options |-> AskedOption(sub, c, k)]]

SameDesign == LET d == ApplyOverlay(Normal(submitted)) IN
    /\ \A c \in DOMAIN d.model : Wiring(d, c) = AskedWiring(submitted, c)
    /\ Values(d.owned) = AskedResources(submitted)
    /\ Values(d.subscriptions) = AskedSubscriptions(submitted)
    /\ Packaged.links \subseteq d.links
    /\ \A o \in Values(submitted.parameters) : \A t \in Policy.parameters[o.key].targets : d.values[t] = o.value
    /\ IsPrefix(Packaged.faults, d.faults) /\ IsPrefix(Packaged.actions, d.actions)

NormalFormIsStable == LET n == Normal(submitted) IN Accepted(n) /\ Normal(n) = n

\* The applied document of an accepted overlay is the design the student asked
\* for, whatever entries normalization removed and in whatever order the rest
\* is applied; and the normal form, which the session shows and reloads, is
\* accepted and normal itself (docs/spec/adr/005-architecture-editor.md:280-316;
\* overlay.ts:75-208, architecture-edits.ts:83-391).
OverlayMeansWhatItSays == Accepted(submitted) => SameDesign /\ NormalFormIsStable
=============================================================================
