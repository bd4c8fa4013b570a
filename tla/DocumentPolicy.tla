---------------------------- MODULE DocumentPolicy ----------------------------
(***************************************************************************)
(* The stages of the validation of a scenario document                     *)
(* (packages/scenario/src/document.ts): text, envelope, scenario, overlay  *)
(* policy.  An author edits a document, one member at a time, and has it   *)
(* validated after each edit.  The text stage is DocumentText, the         *)
(* engine's own validation, of which only the seed is kept, that of        *)
(* ScenarioDocument, and composing an overlay that of Overlay: what is     *)
(* kept of it is whether a model's storage and subscriptions are there.    *)
(***************************************************************************)
EXTENDS DocumentEnvelope, FiniteSets

CONSTANTS
    Catalog,         \* <<model, version>> -> kind, fields (its names, in order), needs, consumes
    ReservedNames,   \* spellings of the names of packaged scenarios
    StudentIds,      \* ids with the student prefix
    Limits,          \* list or member -> its limit
    Sample,          \* a valid document
    Edits,           \* what an author may write: at, as, and, for the property, stage, reports, hides
    MaxEdits         \* bound: edits made to the sample

VARIABLES edits, verdict

Items(o, key) == IF o.t = "object" /\ Get(o, key).t = "array" THEN Get(o, key).items ELSE <<>>
Values(o, key) == {Items(o, key)[i] : i \in DOMAIN Items(o, key)}
Member2(o, first, second) == IF Get(o, first).t = "object" THEN Get(Get(o, first), second) ELSE Undefined
\* Same canonical encoding.
Same(v, w) == v.t = w.t /\ v = w
Text(v) == IF v.t = "string" THEN v.v ELSE ""

-----------------------------------------------------------------------------
(* Stage 4: checkScenario                                                   *)

\* scenarioIds: every id a document declares, with its path.
ScenarioIds(scenario) ==
    LET arch == Get(scenario, "architecture")
        of(o, list, path) == {[id |-> Get(Items(o, list)[i], "id"), path |-> path \o <<list, Index[i], "id">>] : i \in DOMAIN Items(o, list)}
        actions == Items(scenario, "actions")
    IN of(arch, "components", <<"scenario", "architecture">>) \cup of(arch, "destinations", <<"scenario", "architecture">>)
       \cup of(scenario, "faults", <<"scenario">>) \cup of(scenario, "assertions", <<"scenario">>)
       \cup of(scenario, "actions", <<"scenario">>)
       \cup {[id |-> Member2(actions[i], "fault", "id"), path |-> <<"scenario", "actions", Index[i], "fault", "id">>] : i \in DOMAIN actions}

LimitDiagnostics(scenario) ==
    LET long(o, list, path) == Unless(Len(Items(o, list)) <= Limits[list], Append(path, list), "DOCUMENT_LIMIT")
        history == Member2(scenario, "configuration", "historyLimit")
    IN UNION {long(Get(scenario, "architecture"), list, <<"scenario", "architecture">>) : list \in {"components", "links"}}
       \cup UNION {long(scenario, list, <<"scenario">>) : list \in {"actions", "faults", "assertions"}}
       \cup Unless(history.t = "integer" => history.v <= Limits.historyLimit, <<"scenario", "configuration", "historyLimit">>, "DOCUMENT_LIMIT")

\* normalizeScenario runs only within the limits.
EngineDiagnostics(scenario) == Needs(Get(scenario, "seed"), <<"scenario", "seed">>, {"string"})

CheckScenario(document) ==
    LET scenario == Get(document, "scenario")
        labels == Member2(document, "presentation", "assertions")
        named == {Text(Get(a, "id")) : a \in Values(scenario, "assertions")}
    IN LimitDiagnostics(scenario)
       \cup Unless(Text(Get(scenario, "name")) \notin ReservedNames, <<"scenario", "name">>, "RESERVED_NAME")
       \cup UNION {Unless(Text(d.id) \notin StudentIds, d.path, "RESERVED_ID") : d \in ScenarioIds(scenario)}
       \cup (IF labels = Undefined THEN {}
             ELSE UNION {Say(<<"presentation", "assertions", id>>, "REFERENCE") : id \in DOMAIN labels.m \ named})
       \cup (IF LimitDiagnostics(scenario) = {} THEN EngineDiagnostics(scenario) ELSE {})

-----------------------------------------------------------------------------
(* Stage 5: checkPolicy, resolveTarget, checkAllowance                      *)

ValueInDomain(v, domain) ==
    CASE Text(Get(domain, "type")) = "boolean" -> v.t = "boolean"
      [] Text(Get(domain, "type")) = "integer" -> v.t = "integer" /\ v.v >= Get(domain, "minimum").v /\ v.v <= Get(domain, "maximum").v
      [] OTHER -> v.t = "string" /\ \E c \in Values(domain, "choices") : Same(c, v)

TargetFieldAllowed(target) ==
    CASE Text(Get(target, "kind")) = "link" -> Text(Get(target, "field")) \in LinkPolicyKeys
      [] Text(Get(target, "kind")) = "destination" -> Text(Get(target, "field")) \in {"deliveryDelay", "ackTimeout", "retryDelay", "maxAttempts", "capacity"}
      [] OTHER -> TRUE

\* The items a target names, by identity, and what of the first holds the field.
Place(scenario, target) ==
    LET arch == Get(scenario, "architecture")
        is(item, key, name) == Text(Get(item, key)) = Text(Get(target, name))
        found(list, Match(_)) == {i \in DOMAIN list : Match(list[i])}
        place(list, name, indexes, holder) == [list |-> list, name |-> name, indexes |-> indexes, holder |-> holder]
    IN CASE Text(Get(target, "kind")) = "component" ->
              LET l == Items(arch, "components") IN place(l, "components", found(l, LAMBDA x : is(x, "id", "component")), "configuration")
         [] Text(Get(target, "kind")) = "link" ->
              LET l == Items(arch, "links") IN
              place(l, "links", found(l, LAMBDA x : is(x, "source", "source") /\ is(x, "target", "target")), "policy")
         [] Text(Get(target, "kind")) = "destination" ->
              LET l == Items(arch, "destinations") IN place(l, "destinations", found(l, LAMBDA x : is(x, "id", "destination")), "")
         [] OTHER ->
              LET l == Items(scenario, "actions") IN
              place(l, "actions", found(l, LAMBDA x : is(x, "id", "action") /\ Text(Get(x, "kind")) = "client"), "data")

\* Resolved to one member of the document, or not at all.
Resolve(scenario, target) ==
    LET p == Place(scenario, target) field == Text(Get(target, "field")) IN
    IF Cardinality(p.indexes) # 1 THEN {}
    ELSE LET i == CHOOSE n \in p.indexes : TRUE
             holder == IF p.holder = "" THEN p.list[i] ELSE Get(p.list[i], p.holder)
         IN IF holder.t # "object" \/ Get(holder, field) = Undefined THEN {}
            ELSE {[path |-> <<p.name, i, field>>, value |-> Get(holder, field)]}

\* Mutant: the places already taken are forgotten at the next parameter.
OrderInList(a, b) == a[1] = b[1] /\ a[2] < b[2]

\* The targets of a policy, in order: parameter, place in its list.
Order(a, b) == a[1] < b[1] \/ (a[1] = b[1] /\ a[2] < b[2])

ParameterDiagnostics(policy, scenario, slots, base) ==
    LET parameters == Items(policy, "parameters")
        targets == UNION {{<<p, t>> : t \in DOMAIN Items(parameters[p], "targets")} : p \in DOMAIN parameters}
        target(x) == Items(parameters[x[1]], "targets")[x[2]]
        at(p) == base \o <<"parameters", Index[p]>>
        default(p) == Member2(parameters[p], "domain", "default")
        location(x) == IF TargetFieldAllowed(target(x)) THEN Resolve(scenario, target(x)) ELSE {}
        taken(x) == \E y \in targets : Order(y, x) /\ {l.path : l \in location(y)} \cap {l.path : l \in location(x)} # {}
        of(x) == LET path == at(x[1]) \o <<"targets", Index[x[2]]>> IN
                 Unless(location(x) # {} /\ ~taken(x), path, "POLICY_TARGET")
                 \cup Unless(Text(Get(target(x), "kind")) = "component" => Text(Get(target(x), "component")) \notin slots, path, "POLICY_ALLOWANCE")
                 \cup Unless(\A l \in location(x) : Same(l.value, default(x[1])), path, "POLICY_DEFAULT")
    IN UNION {Unless(Items(parameters[p], "targets") # <<>>, Append(at(p), "targets"), "POLICY_TARGET")
              \cup Unless(ValueInDomain(default(p), Get(parameters[p], "domain")), at(p) \o <<"domain", "default">>, "POLICY_DEFAULT") : p \in DOMAIN parameters}
       \cup UNION {of(x) : x \in targets}

\* A slot model composes alone, with the attachments and subscriptions it needs
\* and the allowance offers.
Composes(allowance, arch, slot, model) ==
    LET d == Catalog[model]
        of(o, list, key, name) == {Text(Get(x, key)) : x \in {y \in Values(o, list) : Text(Get(y, name)) = slot}}
        owns == {r \in d.needs : of(arch, IF r = "store" THEN "stores" ELSE "databases", "owner", "owner") # {}}
        subscribed == of(arch, "subscriptions", "destination", "consumer")
        attached == (of(allowance, "resources", "resource", "owner") \cap d.needs) \ owns
        added == (of(allowance, "subscriptions", "destination", "consumer") \cap d.consumes) \ subscribed
    IN /\ d.needs \subseteq owns \cup attached
       /\ subscribed \cup added = d.consumes
       /\ 1 + Cardinality(attached) + Cardinality(added) <= Get(allowance, "maxEdits").v

CheckAllowance(allowance, scenario, base) ==
    LET arch == Get(scenario, "architecture")
        component(id) == {c \in Values(arch, "components") : Text(Get(c, "id")) = id}
        kind(id) == {Text(Get(c, "kind")) : c \in component(id)}
        destinations == {Text(Get(d, "id")) : d \in Values(arch, "destinations")}
        each(list, Of(_, _)) == UNION {Of(Items(allowance, list)[i], base \o <<list, Index[i]>>) : i \in DOMAIN Items(allowance, list)}
        fits(slot, m) == LET model == <<Text(Get(m, "model")), Text(Get(m, "version"))>> IN
                         /\ model \in DOMAIN Catalog /\ Catalog[model].kind \in kind(slot)
                         /\ Len(Catalog[model].fields) = Cardinality({Catalog[model].fields[i] : i \in DOMAIN Catalog[model].fields})
                         /\ Composes(allowance, arch, slot, model)
        slots(s, p) == LET id == Text(Get(s, "component")) IN
                       IF component(id) = {} THEN Say(Append(p, "component"), "POLICY_ALLOWANCE")
                       ELSE Each(s, "models", p, LAMBDA m, q : Unless(fits(id, m), q, "POLICY_ALLOWANCE"))
        bindings(b, p) == Unless(component(Text(Get(b, "component"))) # {}, Append(p, "component"), "POLICY_ALLOWANCE")
                          \cup Each(b, "candidates", p, LAMBDA c, q : Unless(component(Text(c)) # {}, q, "POLICY_ALLOWANCE"))
        service(o, key, p) == Unless(kind(Text(Get(o, key))) = {"service"}, Append(p, key), "POLICY_ALLOWANCE")
        subscriptions(s, p) == service(s, "consumer", p)
                               \cup Unless(Text(Get(s, "destination")) \in destinations, Append(p, "destination"), "POLICY_ALLOWANCE")
    IN each("slots", slots) \cup each("bindings", bindings)
       \cup each("resources", LAMBDA r, p : service(r, "owner", p)) \cup each("subscriptions", subscriptions)

CheckPolicy(policy, scenario) ==
    LET base == <<"overlayPolicy">>
        allowance == Get(policy, "architecture")
        slots == IF allowance = Undefined THEN {} ELSE {Text(Get(e, "component")) : e \in Values(allowance, "slots")}
    IN Unless(Same(Get(policy, "lesson"), Get(scenario, "name")), Append(base, "lesson"), "REFERENCE")
       \cup ParameterDiagnostics(policy, scenario, slots, base)
       \cup (IF allowance = Undefined THEN {} ELSE CheckAllowance(allowance, scenario, Append(base, "architecture")))

-----------------------------------------------------------------------------
(* validateScenarioDocument                                                 *)

Outcome(stage, diagnostics) == [stage |-> stage, diagnostics |-> diagnostics]
Validate(root) ==
    IF CheckEnvelope(root) # {} THEN Outcome("envelope", CheckEnvelope(root))
    ELSE IF CheckScenario(root) # {} THEN Outcome("scenario", CheckScenario(root))
    ELSE LET policy == Get(root, "overlayPolicy")
             found == IF policy = Undefined THEN {} ELSE CheckPolicy(policy, Get(root, "scenario"))
         IN Outcome(IF found = {} THEN "ok" ELSE "policy", found)

RECURSIVE Put(_, _, _)
\* The value with another, or none, at a path; a path that is not there is left.
Put(value, path, v) ==
    IF path = <<>> THEN v
    ELSE LET k == Head(path) at(w) == Put(w, Tail(path), v) IN
         CASE value.t = "array" -> Arr([i \in DOMAIN value.items |-> IF Index[i] = k THEN at(value.items[i]) ELSE value.items[i]])
           [] value.t = "object" /\ k \in DOMAIN value.m ->
                LET new == at(value.m[k]) IN Obj([x \in DOMAIN value.m \ (IF new = Undefined THEN {k} ELSE {}) |-> IF x = k THEN new ELSE value.m[x]])
           [] value.t = "object" /\ k \notin DOMAIN value.m /\ Tail(path) = <<>> -> Obj([x \in DOMAIN value.m \cup {k} |-> IF x = k THEN v ELSE value.m[x]])
           [] OTHER -> value

RECURSIVE Edited(_, _)
Edited(value, made) == IF made = {} THEN value ELSE LET e == CHOOSE x \in made : TRUE IN Edited(Put(value, e.at, e.as), made \ {e})

\* Edits of different members.
Below(path, p) == Len(p) <= Len(path) /\ SubSeq(path, 1, Len(p)) = p
Revise(e) ==
    /\ Cardinality(edits) < MaxEdits /\ \A x \in edits : ~Below(x.at, e.at) /\ ~Below(e.at, x.at)
    /\ edits' = edits \cup {e}
    /\ verdict' = Validate(Edited(Sample, edits \cup {e}))

\* The sample is valid: edits that deserve no diagnostic would show if it were not.
Init == edits = {} /\ verdict = Outcome("ok", {})
Next == \E e \in Edits : Revise(e)
Spec == Init /\ [][Next]_<<edits, verdict>>

-----------------------------------------------------------------------------
(* Properties                                                               *)

\* What an edit deserves to be told, unless another edit leaves the place
\* unread or makes it right.
Deserved(stage) ==
    {r \in UNION {e.reports : e \in {x \in edits : x.stage = stage}} :
        \E e \in edits : /\ e.stage = stage /\ r \in e.reports
                         /\ \A x \in edits \ {e} : r \notin x.hides /\ \A p \in x.unread : ~Below(r.path, p)}

\* "Validates a scenario document in stages and stops at the first stage that
\* fails" and "Each stage reports all of its diagnostics" (document.ts:61-65):
\* whatever its author wrote wrong, and wherever, a document is told of exactly
\* that, each at its place, and is accepted when nothing is; one wrong member
\* does not silence a check of another, nor make it fail.
TellsWhatIsWrong ==
    LET stages == SelectSeq(<<"envelope", "scenario", "policy">>, LAMBDA s : Deserved(s) # {})
    IN verdict = IF stages = <<>> THEN Outcome("ok", {}) ELSE Outcome(Head(stages), Deserved(Head(stages)))
=============================================================================
