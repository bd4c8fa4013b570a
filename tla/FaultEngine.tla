----------------------------- MODULE FaultEngine -----------------------------
(***************************************************************************)
(* The selector of faults, packages/kernel/src/fault-engine.ts: rules that *)
(* count the probes they match and act on some of them, and faults that a  *)
(* scenario applies by hand.  Ports are held across resets.                *)
(*                                                                         *)
(* The check of rules and probes for their form, and the observations, are *)
(* left out; probes are of the components and points the rules know.       *)
(***************************************************************************)
EXTENDS Naturals, Sequences, FiniteSets

CONSTANTS
    Rules,         \* Seq([point, name, from, until, occurrence, max, chance, effect]);
                   \* 0 for no occurrence, "any" for no name; chance "never", "draw", "always"
    Points, Names, Subjects,   \* of the probes
    Faults,        \* identities of scheduled faults
    MaxTime, MaxResets, MaxProbes

VARIABLES
    now,
    generation,                \* attempts: ports of an earlier one are stale
    candidates, applications,  \* of each rule
    probes,                    \* probes that were evaluated: point and subject
    applied,                   \* scheduled faults that took effect
    log                        \* the evaluations of this attempt: probe, time, draws and decision

vars == <<now, generation, candidates, applications, probes, applied, log>>

Matching(rule, probe, t) == /\ rule.point = probe.point
                            /\ rule.name \in {"any", probe.name}
                            /\ rule.from <= t /\ t < rule.until

\* The probe with this ordinal among those the rule matches may be acted upon.
Eligible(rule, ordinal, used) == rule.occurrence \in {0, ordinal} /\ used < rule.max

CouldSelect(i, probe) == /\ Matching(Rules[i], probe, now)
                         /\ Eligible(Rules[i], candidates[i] + 1, applications[i])

\* Whether the chance of a rule selects it, when those in drawn draw low.
Selects(i, drawn) == Rules[i].chance = "always" \/ i \in drawn

\* The rules a probe selects.
Selected(probe, drawn) == {i \in DOMAIN Rules : CouldSelect(i, probe) /\ Selects(i, drawn)}

Has(rules, effects) == \E i \in rules : Rules[i].effect \in effects

\* Rules that duplicate do not overlap: one of them is selected at most.
Decision(rules) == [rules |-> rules,
                    delays |-> {i \in rules : Rules[i].effect = "delay"},
                    drop |-> Has(rules, {"drop", "disconnect"}),
                    copies |-> Has(rules, {"duplicate"}) /\ ~Has(rules, {"drop", "disconnect"}),
                    fail |-> Has(rules, {"fail"})]

\* A port of an earlier attempt, or a probe evaluated before, is refused.
Current(port) == port = generation

\* Faulty variant: only the probes a rule acts upon are counted.
CountedSelected(rules, probe) == [i \in DOMAIN Rules |-> candidates[i] + IF i \in rules THEN 1 ELSE 0]

\* Every probe a rule matches is counted, whether or not it is acted upon.
Counted(rules, probe) == [i \in DOMAIN Rules |-> candidates[i] + IF Matching(Rules[i], probe, now) THEN 1 ELSE 0]

Evaluate(port, probe) ==
    /\ Current(port)
    /\ Len(log) < MaxProbes
    /\ <<probe.point, probe.subject>> \notin probes
    /\ probes' = probes \cup {<<probe.point, probe.subject>>}
    /\ \E drawn \in SUBSET {i \in DOMAIN Rules : Rules[i].chance = "draw" /\ CouldSelect(i, probe)} :
         LET rules == Selected(probe, drawn) IN
         /\ candidates' = Counted(rules, probe)
         /\ applications' = [i \in DOMAIN Rules |-> applications[i] + IF i \in rules THEN 1 ELSE 0]
         /\ log' = Append(log, [probe |-> probe, time |-> now, drawn |-> drawn, decision |-> Decision(rules), port |-> port])
    /\ UNCHANGED <<now, generation, applied>>

\* The effect of a scheduled fault is its port's; when that fails, the fault
\* may be applied again.
Apply(port, fault) ==
    /\ Current(port)
    /\ fault \notin applied
    /\ \E done \in BOOLEAN : applied' = IF done THEN applied \cup {fault} ELSE applied
    /\ UNCHANGED <<now, generation, candidates, applications, probes, log>>

Fresh == [i \in DOMAIN Rules |-> 0]

Reset == /\ generation < MaxResets
         /\ generation' = generation + 1
         /\ candidates' = Fresh /\ applications' = Fresh
         /\ probes' = {} /\ applied' = {} /\ log' = <<>> /\ now' = 0

Pass == now < MaxTime /\ now' = now + 1 /\ UNCHANGED <<generation, candidates, applications, probes, applied, log>>

Init == /\ now = 0
        /\ generation = 0
        /\ candidates = Fresh /\ applications = Fresh
        /\ probes = {} /\ applied = {} /\ log = <<>>

Next == \/ \E port \in 0..generation, probe \in [point : Points, name : Names, subject : Subjects] : Evaluate(port, probe)
        \/ \E port \in 0..generation, fault \in Faults : Apply(port, fault)
        \/ Reset
        \/ Pass

Spec == Init /\ [][Next]_vars

-----------------------------------------------------------------------------

Ordinal(i, k) == Cardinality({j \in 1..k : Matching(Rules[i], log[j].probe, log[j].time)})
Used(i, k) == Cardinality({j \in 1..k : i \in log[j].decision.rules})

\* Every decision is what the probes and draws of this attempt so far call
\* for: a rule acts on the occurrence it names, counted over the probes it
\* matches whether or not chance selected them, as often as it may, in its
\* window; a drop leaves no copies; stale ports count for nothing
\* (fault-engine.ts:91-107, 129-154).
DecisionsFollowProbes == \A k \in DOMAIN log : LET d == log[k] IN
    /\ d.port = generation
    /\ \A i \in DOMAIN Rules :
          i \in d.decision.rules <=>
              /\ Matching(Rules[i], d.probe, d.time)
              /\ Rules[i].occurrence # 0 => Ordinal(i, k) = Rules[i].occurrence
              /\ Used(i, k - 1) < Rules[i].max
              /\ Selects(i, d.drawn)
    /\ d.decision.drop => ~d.decision.copies
=============================================================================
