------------------------------ MODULE DocumentsMC ------------------------------
(***************************************************************************)
(* Documents, one part at a time, the other as it begins: the stages of an *)
(* authored one, with what may be wrong in each; and the text of one.      *)
(***************************************************************************)
EXTENDS DocumentPolicy, TLC

CONSTANTS Names, ProtoKey, Numerals, MaxDepth, MaxText

VARIABLES
    part,
    text, parser

policyVars == <<edits, verdict>>
textVars == <<text, parser>>

\* A document with something of every kind, and what its author may write
\* wrong: members missing, of a wrong type, empty, unknown, repeated, above a
\* limit, or at odds with another part of the document.
HostedDef == "lessons" :> {"1"}
ReservedDef == {"packaged", "packaged "}
StudentDef == {"student-x"}
LimitsDef == [components |-> 3, links |-> 2, actions |-> 2, faults |-> 2, assertions |-> 2, historyLimit |-> 2]

Model(kind, fields, needs, consumes) == [kind |-> kind, fields |-> fields, needs |-> needs, consumes |-> consumes]
CatalogDef ==
    <<"mailer", "1">> :> Model("service", <<"peer", "option">>, {"database"}, {"paid"})
    @@ <<"mailer", "2">> :> Model("service", <<"peer", "peer">>, {"database"}, {"paid"})
    @@ <<"shopper", "1">> :> Model("client", <<>>, {}, {})
    @@ <<"greedy", "1">> :> Model("service", <<>>, {"database", "store"}, {"paid"})

Component(id, kind, configuration) == Obj([id |-> Str(id), kind |-> Str(kind), configuration |-> Obj(configuration)])
Link == Obj([source |-> Str("shop"), target |-> Str("orders"), policy |-> Obj([timeout |-> Num(1)])])
Components == <<Component("orders", "service", [rate |-> Num(1)]), Component("mail", "service", <<>>), Component("shop", "client", <<>>)>>
Scenario == Obj([
    seed |-> Str("seed"), name |-> Str("mine"), configuration |-> Obj([historyLimit |-> Num(2)]),
    architecture |-> Obj([components |-> Arr(Components), links |-> Arr(<<Link>>), subscriptions |-> Arr(<<>>),
        databases |-> Arr(<<>>), stores |-> Arr(<<>>), destinations |-> Arr(<<Obj([id |-> Str("paid"), capacity |-> Num(1)])>>)]),
    faults |-> Arr(<<Obj([id |-> Str("f1")])>>), assertions |-> Arr(<<Obj([id |-> Str("a1")])>>),
    actions |-> Arr(<<Obj([id |-> Str("buy"), kind |-> Str("client"), data |-> Obj([retry |-> Str("no")])]),
                      Obj([id |-> Str("crash"), kind |-> Str("fault"), fault |-> Obj([id |-> Str("f2")])])>>)])
Rule(point, effect) == Obj([point |-> Str(point), effects |-> Arr(<<Str(effect)>>)])
Capacity == Obj([kind |-> Str("destination"), destination |-> Str("paid"), field |-> Str("capacity")])
Parameters == <<
    Obj([key |-> Str("rate"),
         domain |-> Obj([type |-> Str("integer"), default |-> Num(1), minimum |-> Num(0), maximum |-> Num(3)]),
         targets |-> Arr(<<Obj([kind |-> Str("component"), component |-> Str("orders"), field |-> Str("rate")]),
                           Obj([kind |-> Str("link"), source |-> Str("shop"), target |-> Str("orders"), field |-> Str("timeout")]),
                           Capacity>>)]),
    Obj([key |-> Str("retry"), domain |-> Obj([type |-> Str("choice"), default |-> Str("no"), choices |-> Arr(<<Str("no"), Str("yes")>>)]),
         targets |-> Arr(<<Obj([kind |-> Str("action"), action |-> Str("buy"), field |-> Str("retry")])>>)])>>
Allowance == Obj([
    slots |-> Arr(<<Obj([component |-> Str("mail"), models |-> Arr(<<Obj([model |-> Str("mailer"), version |-> Str("1")])>>)])>>),
    bindings |-> Arr(<<Obj([component |-> Str("shop"), peer |-> Str("peer"), candidates |-> Arr(<<Str("orders")>>)])>>),
    resources |-> Arr(<<Obj([owner |-> Str("mail"), resource |-> Str("database")])>>),
    subscriptions |-> Arr(<<Obj([consumer |-> Str("mail"), destination |-> Str("paid")])>>),
    linkPolicy |-> Obj([k \in LinkPolicyKeys |-> Num(1)]), maxEdits |-> Num(3)])
SampleDef == Obj([
    format |-> Str("distlab.scenario"), formatVersion |-> Num(1), catalog |-> Obj([id |-> Str("lessons"), version |-> Str("1")]),
    presentation |-> Obj([title |-> Str("title"), summary |-> Str("summary"), assertions |-> Obj([a1 |-> Str("label")])]),
    scenario |-> Scenario,
    overlayPolicy |-> Obj([version |-> Num(1), lesson |-> Str("mine"), parameters |-> Arr(Parameters), architecture |-> Allowance,
        faults |-> Obj([rules |-> Arr(<<Rule("network.request", "drop"), Rule("database.commit", "fail")>>),
                        scheduled |-> Arr(<<Str("crash")>>), maxEntries |-> Num(2)])])])

-----------------------------------------------------------------------------
Edit(stage, at, as, reports, unread, hides) ==
    [stage |-> stage, at |-> at, as |-> as, reports |-> reports, unread |-> unread, hides |-> hides]

P == <<"overlayPolicy">>
Faults == P \o <<"faults">>
Parameter0 == P \o <<"parameters", "0">>
Parameter1 == P \o <<"parameters", "1">>
Target(i) == Parameter0 \o <<"targets", i>>
Allowed == P \o <<"architecture">>
SlotModel == Allowed \o <<"slots", "0", "models", "0">>

\* The envelope: members of each kind and what a wrong value is told.
Wrong(at, as, code) == Edit("envelope", at, as, Say(at, code), {}, {})
NullValue == [t |-> "null"]
Wrongs(paths, as, code) == {Wrong(p, as, code) : p \in paths}
RequiredMembers == {<<"catalog">>, <<"catalog", "id">>, <<"presentation">>, <<"presentation", "title">>, <<"scenario">>, P \o <<"version">>,
    P \o <<"lesson">>, Faults, Faults \o <<"rules", "1", "effects">>, Faults \o <<"maxEntries">>, P \o <<"parameters">>,
    Parameter1 \o <<"key">>, Parameter1 \o <<"domain">>, Parameter0 \o <<"domain", "default">>, Parameter0 \o <<"domain", "maximum">>,
    Parameter1 \o <<"domain", "choices">>, Target("1") \o <<"target">>, Parameter1 \o <<"targets">>, Allowed \o <<"slots">>,
    SlotModel \o <<"version">>, Allowed \o <<"bindings", "0", "candidates">>, Allowed \o <<"resources", "0", "resource">>,
    Allowed \o <<"linkPolicy">>, Allowed \o <<"linkPolicy", "jitter">>, Allowed \o <<"maxEdits">>}
TypedMembers == {<<"presentation", "summary">>, <<"presentation", "assertions", "a1">>, P, Faults \o <<"rules", "1">>, Parameter1, Target("2"),
    Allowed, Allowed \o <<"slots", "0">>, SlotModel, Allowed \o <<"linkPolicy", "timeout">>}
Named == {Target("0") \o <<"field">>, Parameter1 \o <<"domain", "choices", "1">>, Allowed \o <<"subscriptions", "0", "consumer">>, SlotModel \o <<"model">>}
Objects == {<<>>, <<"catalog">>, <<"presentation">>, P, Faults, Faults \o <<"rules", "1">>, Parameter1, Parameter0 \o <<"domain">>, Target("1"),
    Allowed, SlotModel, Allowed \o <<"resources", "0">>, Allowed \o <<"linkPolicy">>}
\* Unread in a document of another format or version.
Rest == {<<m>> : m \in (DOMAIN SampleDef.m \cup {"extra"}) \ {"format", "formatVersion"}}
Envelope ==
    Wrongs(RequiredMembers, Undefined, "REQUIRED") \cup Wrongs(TypedMembers, NullValue, "TYPE") \cup Wrongs(Named, Str(""), "REQUIRED")
    \cup Wrongs({<<"presentation", "title">>, <<"presentation", "assertions", "a1">>}, Str("long"), "DOCUMENT_LIMIT")
    \cup {Edit("envelope", Append(p, "extra"), Str("x"), Say(Append(p, "extra"), "UNSUPPORTED"), {}, {}) : p \in Objects}
    \cup {Edit("envelope", <<"format">>, Str("other"), Say(<<"format">>, "FORMAT"), Rest, {}),
          Edit("envelope", <<"formatVersion">>, Num(2), Say(<<"formatVersion">>, "FORMAT_VERSION"), Rest, {}),
          Wrong(<<"catalog", "version">>, Str("2"), "CATALOG_VERSION"), Wrong(<<"catalog", "id">>, Str("none"), "UNKNOWN_CATALOG"),
          Wrong(Faults \o <<"rules", "1", "point">>, Str("network.request"), "DUPLICATE"),
          Wrong(Faults \o <<"rules", "1", "point">>, Str("other"), "FAULT"), Wrong(Faults \o <<"scheduled", "0">>, Str("other"), "FAULT"),
          Wrong(Parameter1 \o <<"key">>, Str("rate"), "DUPLICATE"), Wrong(Faults \o <<"maxEntries">>, Num(-1), "TYPE"),
          Wrong(Allowed \o <<"resources", "0", "resource">>, Str("other"), "TYPE"),
          Edit("envelope", Target("1") \o <<"kind">>, Str("other"), Say(Target("1") \o <<"kind">>, "TYPE"), {Target("1")}, {}),
          Edit("envelope", Parameter0 \o <<"domain", "type">>, NullValue, Say(Parameter0 \o <<"domain", "type">>, "TYPE"), {Parameter0 \o <<"domain">>}, {})}

\* An unknown catalog hides a wrong version, and a missing id both.
Catalogs(e) ==
    IF e.at = <<"catalog", "id">> THEN [e EXCEPT !.hides = Say(<<"catalog", "version">>, "CATALOG_VERSION")] ELSE e

-----------------------------------------------------------------------------
S == <<"scenario">>
Arch == S \o <<"architecture">>
Seed == Say(S \o <<"seed">>, "REQUIRED")
Fourth == Arr(Append(Components, Component("more", "client", <<>>)))
InScenario(at, as, reports, hides) == Edit("scenario", at, as, reports, {}, hides)
Label == Say(<<"presentation", "assertions", "a1">>, "REFERENCE")
ScenarioEdits == {
    InScenario(Arch \o <<"components">>, Fourth, Say(Arch \o <<"components">>, "DOCUMENT_LIMIT"), Seed),
    InScenario(S \o <<"configuration", "historyLimit">>, Num(3), Say(S \o <<"configuration", "historyLimit">>, "DOCUMENT_LIMIT"), Seed),
    InScenario(S \o <<"seed">>, Undefined, Seed, {}),
    InScenario(S \o <<"name">>, Str("packaged "), Say(S \o <<"name">>, "RESERVED_NAME"), {}),
    InScenario(S \o <<"assertions", "0", "id">>, Str("a2"), Label, Say(<<"presentation", "assertions", "a2">>, "REFERENCE")),
    InScenario(<<"presentation", "assertions", "a2">>, Str("label"), Say(<<"presentation", "assertions", "a2">>, "REFERENCE"), {}),
    InScenario(<<"presentation", "assertions">>, Undefined, {}, Label)}
    \cup {InScenario(at, Str("student-x"), Say(at, "RESERVED_ID"), {}) : at \in {Arch \o <<"destinations", "0", "id">>,
            S \o <<"faults", "0", "id">>, S \o <<"actions", "0", "id">>, S \o <<"actions", "1", "fault", "id">>}}

-----------------------------------------------------------------------------
InPolicy(at, as, reports, unread, hides) == Edit("policy", at, as, reports, unread, hides)
Refused(path) == Say(path, "POLICY_ALLOWANCE")
Lesson == Say(P \o <<"lesson">>, "REFERENCE")
Default == Parameter0 \o <<"domain", "default">>
Second == Parameter1 \o <<"targets", "0">>
NotDefault == UNION {Say(Target(i), "POLICY_DEFAULT") : i \in {"0", "1", "2"}}
PolicyEdits == {
    InPolicy(P \o <<"lesson">>, Str("other"), Lesson, {}, {}), InPolicy(S \o <<"name">>, Str("another"), Lesson, {}, {}),
    InPolicy(Parameter0 \o <<"targets">>, Arr(<<>>), Say(Parameter0 \o <<"targets">>, "POLICY_TARGET"), {Target("0"), Target("1"), Target("2")},
             Say(Second, "POLICY_TARGET")),
    InPolicy(Default, Num(9), Say(Default, "POLICY_DEFAULT") \cup NotDefault, {}, {}),
    InPolicy(Default, Num(2), NotDefault, {}, Say(Default, "POLICY_DEFAULT")),
    InPolicy(Parameter0 \o <<"domain", "minimum">>, Num(2), Say(Default, "POLICY_DEFAULT"), {}, {}),
    InPolicy(Arch \o <<"destinations", "0", "capacity">>, Num(3), Say(Target("2"), "POLICY_DEFAULT"), {}, {}),
    InPolicy(Target("2") \o <<"field">>, Str("colour"), Say(Target("2"), "POLICY_TARGET"), {}, Say(Target("2"), "POLICY_DEFAULT") \cup Say(Second, "POLICY_TARGET")),
    InPolicy(Target("0") \o <<"component">>, Str("mail"), Say(Target("0"), "POLICY_TARGET") \cup Refused(Target("0")), {}, Say(Target("0"), "POLICY_DEFAULT")),
    InPolicy(Second, Capacity, Say(Second, "POLICY_TARGET") \cup Say(Second, "POLICY_DEFAULT"), {}, {}),
    InPolicy(Arch \o <<"links">>, Arr(<<Link, Link>>), Say(Target("1"), "POLICY_TARGET"), {}, Say(Target("1"), "POLICY_DEFAULT")),
    InPolicy(Allowed \o <<"slots", "0", "component">>, Str("nobody"), Refused(Allowed \o <<"slots", "0", "component">>), {},
             Refused(SlotModel) \cup Refused(Target("0"))),
    InPolicy(SlotModel \o <<"version">>, Str("2"), Refused(SlotModel), {}, {}), InPolicy(SlotModel \o <<"model">>, Str("shopper"), Refused(SlotModel), {}, {}),
    InPolicy(SlotModel \o <<"model">>, Str("greedy"), Refused(SlotModel), {}, {}), InPolicy(Allowed \o <<"maxEdits">>, Num(2), Refused(SlotModel), {}, {}),
    InPolicy(Allowed \o <<"resources">>, Arr(<<>>), Refused(SlotModel), {}, {}),
    InPolicy(Allowed \o <<"resources", "0", "owner">>, Str("shop"), Refused(SlotModel) \cup Refused(Allowed \o <<"resources", "0", "owner">>), {}, {}),
    InPolicy(Allowed \o <<"subscriptions", "0", "destination">>, Str("nowhere"),
             Refused(SlotModel) \cup Refused(Allowed \o <<"subscriptions", "0", "destination">>), {}, {}),
    InPolicy(Allowed \o <<"bindings", "0", "component">>, Str("nobody"), Refused(Allowed \o <<"bindings", "0", "component">>), {}, {}),
    InPolicy(Allowed \o <<"bindings", "0", "candidates", "0">>, Str("nobody"), Refused(Allowed \o <<"bindings", "0", "candidates", "0">>), {}, {}),
    InPolicy(Allowed, Undefined, {}, {Allowed}, Refused(Target("0"))), InPolicy(P, Undefined, {}, {P}, {})}

EditsDef == {Catalogs(e) : e \in Envelope} \cup ScenarioEdits \cup PolicyEdits

\* Texts over two strings and a number, nested past the limit.
Reader == INSTANCE DocumentText WITH
    Strings <- Names, Reserved <- ProtoKey, Scalars <- Numerals, NestingDepth <- MaxDepth, MaxTokens <- MaxText

-----------------------------------------------------------------------------
DocumentsInit ==
    /\ part \in {"policy", "text"}
    /\ Init /\ Reader!Init

Still(p, others) == part = p \/ UNCHANGED others
Others == /\ UNCHANGED part
          /\ Still("policy", policyVars) /\ Still("text", textVars)

DocumentsNext ==
    \/ part = "policy" /\ Next /\ Others
    \/ part = "text" /\ Reader!Next /\ Others

DocumentsSpec == DocumentsInit /\ [][DocumentsNext]_<<part, policyVars, textVars>>

-----------------------------------------------------------------------------
(* Properties, beside TellsWhatIsWrong of the authored document, which      *)
(* holds of the sample while another part is at work; each is stated and    *)
(* commented in the module of its part.                                     *)

\* The parser accepts the JSON texts, and finds what is wrong (DocumentText).
ParsesJson == part = "text" => Reader!ParsesJson
=============================================================================
