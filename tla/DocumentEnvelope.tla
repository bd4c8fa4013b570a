--------------------------- MODULE DocumentEnvelope ---------------------------
(***************************************************************************)
(* The third stage of the validation of a scenario document, its envelope, *)
(* and the helpers of every stage (packages/scenario/src/document.ts).     *)
(*                                                                         *)
(* A JSON value is a record tagged with its type; Undefined is an absent   *)
(* member.  A diagnostic is a path, the sequence of its tokens, and a      *)
(* code; since they are sorted and repeated ones dropped, a check is the   *)
(* set of those it pushes.  A text longer than its limit is "long".        *)
(***************************************************************************)
EXTENDS Integers, Sequences

CONSTANT Hosted      \* catalogs of the registry: id -> versions

Obj(members) == [t |-> "object", m |-> members]
Arr(items) == [t |-> "array", items |-> items]
Str(text) == [t |-> "string", v |-> text]
Num(n) == [t |-> "integer", v |-> n]
Undefined == [t |-> "undefined"]
Index == <<"0", "1", "2", "3">>
Get(o, key) == IF key \in DOMAIN o.m THEN o.m[key] ELSE Undefined

-----------------------------------------------------------------------------
(* Helpers                                                                  *)

Say(path, code) == {[path |-> path, code |-> code]}
Unless(ok, path, code) == IF ok THEN {} ELSE Say(path, code)

UnknownKeys(o, path, allowed) == UNION {Say(Append(path, k), "UNSUPPORTED") : k \in DOMAIN o.m \ allowed}
Needs(v, path, types) == IF v = Undefined THEN Say(path, "REQUIRED") ELSE Unless(v.t \in types, path, "TYPE")
String(v, path) == Needs(v, path, {"string"})
NonEmpty(v, path) == String(v, path) \cup Unless(v.t = "string" => v.v # "", path, "REQUIRED")
Limited(v, path) == String(v, path) \cup Unless(v.t = "string" => v.v # "long", path, "DOCUMENT_LIMIT")
Choice(v, path, choices, code) == String(v, path) \cup Unless(v.t = "string" => v.v \in choices, path, code)
Integer(v, path) == Needs(v, path, {"integer"})
CountOf(v, path) == Integer(v, path) \cup Unless(v.t = "integer" => v.v >= 0, path, "TYPE")

Record(v, path, Read(_, _)) == IF v.t = "object" THEN Read(v, path) ELSE Say(path, "TYPE")
Member(o, key, path, Read(_, _)) ==
    LET v == Get(o, key) IN IF v = Undefined THEN Say(Append(path, key), "REQUIRED") ELSE Record(v, Append(path, key), Read)
Each(o, key, path, Read(_, _)) ==
    LET v == Get(o, key) p == Append(path, key) IN
    Needs(v, p, {"array"}) \cup IF v.t # "array" THEN {} ELSE UNION {Read(v.items[i], Append(p, Index[i])) : i \in DOMAIN v.items}
All(o, path, keys, Read(_, _)) == UNION {Read(Get(o, k), Append(path, k)) : k \in keys}

\* The items of a list whose key an earlier one has.
Repeated(o, list, path, key, Valid(_)) ==
    LET v == Get(o, list)
        keyOf(i) == IF v.items[i].t = "object" THEN Get(v.items[i], key) ELSE Undefined
        ok(i) == keyOf(i).t = "string" /\ Valid(keyOf(i).v)
    IN IF v.t # "array" THEN {}
       ELSE UNION {Say(path \o <<list, Index[i], key>>, "DUPLICATE") :
                     i \in {n \in DOMAIN v.items : ok(n) /\ \E e \in 1 .. n - 1 : ok(e) /\ keyOf(e).v = keyOf(n).v}}

-----------------------------------------------------------------------------
(* checkPolicyShape, checkAllowanceShape                                    *)

FaultPoints == {"network.request", "network.response", "message.delivery", "database.commit"}
EffectKinds == {"delay", "drop", "fail", "duplicate", "disconnect"}
ScheduledKinds == {"crash", "external-availability"}
LinkPolicyKeys == {"requestLatency", "responseLatency", "jitter", "timeout", "failureRate"}
DomainKeys == [boolean |-> {}, integer |-> {"minimum", "maximum"}, choice |-> {"choices"}]
TargetKeys == [component |-> {"component", "field"}, link |-> {"source", "target", "field"},
               destination |-> {"destination", "field"}, action |-> {"action", "field"}]

CheckFaults(faults, path) ==
    LET rule(r, p) == UnknownKeys(r, p, {"point", "effects"})
                      \cup Choice(Get(r, "point"), Append(p, "point"), FaultPoints, "FAULT")
                      \cup Each(r, "effects", p, LAMBDA e, q : Choice(e, q, EffectKinds, "FAULT"))
    IN UnknownKeys(faults, path, {"rules", "scheduled", "maxEntries"})
       \cup Each(faults, "rules", path, LAMBDA r, p : Record(r, p, rule))
       \cup Repeated(faults, "rules", path, "point", LAMBDA v : v \in FaultPoints)
       \cup Each(faults, "scheduled", path, LAMBDA k, p : Choice(k, p, ScheduledKinds, "FAULT"))
       \cup CountOf(Get(faults, "maxEntries"), Append(path, "maxEntries"))

\* The type of a domain, the kind of a target decide which members it has.
Variant(o, path, tag, variants, Read(_)) ==
    LET v == Get(o, tag) p == Append(path, tag) known == v.t = "string" /\ v.v \in DOMAIN variants IN
    Choice(v, p, DOMAIN variants, "TYPE") \cup IF known THEN Read(v.v) ELSE {}

CheckDomain(domain, path) ==
    Variant(domain, path, "type", DomainKeys, LAMBDA type :
        UnknownKeys(domain, path, {"type", "default"} \cup DomainKeys[type])
        \cup Unless(Get(domain, "default") # Undefined, Append(path, "default"), "REQUIRED")
        \cup (IF type = "integer" THEN All(domain, path, DomainKeys[type], Integer) ELSE {})
        \cup (IF type = "choice" THEN Each(domain, "choices", path, NonEmpty) ELSE {}))

CheckTarget(target, path) ==
    Variant(target, path, "kind", TargetKeys, LAMBDA kind :
        UnknownKeys(target, path, {"kind"} \cup TargetKeys[kind]) \cup All(target, path, TargetKeys[kind], NonEmpty))

CheckParameter(parameter, path) ==
    UnknownKeys(parameter, path, {"key", "domain", "targets"})
    \cup NonEmpty(Get(parameter, "key"), Append(path, "key"))
    \cup Member(parameter, "domain", path, CheckDomain)
    \cup Each(parameter, "targets", path, LAMBDA t, p : Record(t, p, CheckTarget))

CheckAllowanceShape(value, path) ==
    LET entries(list, texts, Rest(_, _)) ==
            Each(value, list, path, LAMBDA item, p : Record(item, p, LAMBDA i, q :
                All(i, q, texts, NonEmpty) \cup Rest(i, q)))
        only(item, p, keys) == UnknownKeys(item, p, keys)
        model(m, p) == only(m, p, {"model", "version"}) \cup All(m, p, {"model", "version"}, NonEmpty)
        policy(l, p) == only(l, p, LinkPolicyKeys) \cup All(l, p, LinkPolicyKeys, LAMBDA v, q : Needs(v, q, {"integer", "number"}))
    IN only(value, path, {"slots", "bindings", "resources", "subscriptions", "linkPolicy", "maxEdits"})
       \cup entries("slots", {"component"}, LAMBDA i, p : only(i, p, {"component", "models"})
                \cup Each(i, "models", p, LAMBDA m, q : Record(m, q, model)))
       \cup entries("bindings", {"component", "peer"}, LAMBDA i, p : only(i, p, {"component", "peer", "candidates"})
                \cup Each(i, "candidates", p, NonEmpty))
       \cup entries("resources", {"owner"}, LAMBDA i, p : only(i, p, {"owner", "resource"})
                \cup Choice(Get(i, "resource"), Append(p, "resource"), {"database", "store"}, "TYPE"))
       \cup entries("subscriptions", {"consumer", "destination"}, LAMBDA i, p : only(i, p, {"consumer", "destination"}))
       \cup Member(value, "linkPolicy", path, policy)
       \cup CountOf(Get(value, "maxEdits"), Append(path, "maxEdits"))

CheckPolicyShape(value, path) ==
    LET version == Get(value, "version") IN
    UnknownKeys(value, path, {"version", "lesson", "faults", "parameters", "architecture"})
    \cup (IF version = Undefined THEN Say(Append(path, "version"), "REQUIRED")
          ELSE Unless(version.t = "integer" /\ version.v = 1, Append(path, "version"), "VERSION"))
    \cup String(Get(value, "lesson"), Append(path, "lesson"))
    \cup Member(value, "faults", path, CheckFaults)
    \cup Each(value, "parameters", path, LAMBDA v, p : Record(v, p, CheckParameter))
    \cup Repeated(value, "parameters", path, "key", LAMBDA v : v # "")
    \cup (IF Get(value, "architecture") = Undefined THEN {}
          ELSE Record(Get(value, "architecture"), Append(path, "architecture"), CheckAllowanceShape))

-----------------------------------------------------------------------------
(* checkEnvelope                                                            *)

CheckPresentation(presentation, path) ==
    LET optional(key, Read(_, _)) == IF Get(presentation, key) = Undefined THEN {} ELSE Read(Get(presentation, key), Append(path, key))
    IN UnknownKeys(presentation, path, {"title", "summary", "assertions"})
       \cup Limited(Get(presentation, "title"), Append(path, "title"))
       \cup optional("summary", Limited)
       \cup optional("assertions", LAMBDA v, p : Record(v, p, LAMBDA labels, q : All(labels, q, DOMAIN labels.m, Limited)))

\* checkEnvelope on the catalog, resolveHostedCatalog.
CheckCatalog(catalog, path) ==
    LET id == Get(catalog, "id") version == Get(catalog, "version") IN
    UnknownKeys(catalog, path, {"id", "version"}) \cup All(catalog, path, {"id", "version"}, String)
    \cup (IF id.t # "string" \/ version.t # "string" THEN {}
          ELSE IF id.v \notin DOMAIN Hosted THEN Say(Append(path, "id"), "UNKNOWN_CATALOG")
          ELSE Unless(version.v \in Hosted[id.v], Append(path, "version"), "CATALOG_VERSION"))

\* What cannot be read further: a wrong format or version.
CheckFormat(root) ==
    LET format == Get(root, "format") version == Get(root, "formatVersion") IN
    (IF format = Undefined THEN Say(<<"format">>, "REQUIRED")
     ELSE Unless(format.t = "string" /\ format.v = "distlab.scenario", <<"format">>, "FORMAT"))
    \cup Needs(version, <<"formatVersion">>, {"integer", "number"})
    \cup Unless(version.t \in {"integer", "number"} => version = Num(1), <<"formatVersion">>, "FORMAT_VERSION")

CheckMembers(root) ==
    UnknownKeys(root, <<>>, {"format", "formatVersion", "catalog", "presentation", "scenario", "overlayPolicy"})
    \cup Member(root, "presentation", <<>>, CheckPresentation)
    \cup Needs(Get(root, "scenario"), <<"scenario">>, {"object"})
    \cup (IF Get(root, "overlayPolicy") = Undefined THEN {}
          ELSE Record(Get(root, "overlayPolicy"), <<"overlayPolicy">>, CheckPolicyShape))
    \cup Member(root, "catalog", <<>>, CheckCatalog)

CheckEnvelope(value) ==
    IF value.t # "object" THEN Say(<<>>, "TYPE")
    ELSE IF CheckFormat(value) # {} THEN CheckFormat(value) ELSE CheckMembers(value)
=============================================================================
