---------------------------- MODULE CircuitBreaker ----------------------------
(***************************************************************************)
(* The protected dependency of the commerce catalog,                       *)
(* packages/catalogs/src/commerce/circuit.ts with breaker: true: calls of  *)
(* POST /check wait for the dependency; the breaker admits or rejects      *)
(* them.  Metrics, logs and the run without breaker are left out.          *)
(***************************************************************************)
EXTENDS Integers

CONSTANTS
    Calls,       \* the requests the service receives, each once
    Timeout,     \* of the link to the dependency
    Cooldown,    \* 30 in the code
    MaxTime      \* bound: virtual time of a run

ASSUME CircuitAssumption == Timeout \in Nat \ {0} /\ Cooldown \in Nat \ {0} /\ MaxTime \in Nat

VARIABLES
    now,
    breaker,     \* state
    openedAt,
    failures,
    status,      \* of each call
    started,     \* when it was admitted
    probe        \* the calls admitted from OPEN

vars == <<now, breaker, openedAt, failures, status, started, probe>>

Waiting(c) == status[c] = "waiting"

-----------------------------------------------------------------------------
(* POST /check                                                              *)

Admit(c) ==
    /\ status' = [status EXCEPT ![c] = "waiting"]
    /\ started' = [started EXCEPT ![c] = now]
    /\ UNCHANGED <<now, openedAt, failures>>

CooledDown == breaker = "OPEN" /\ now - openedAt >= Cooldown

Call(c) == breaker = "CLOSED" /\ Admit(c) /\ UNCHANGED <<breaker, probe>>
\* Faulty variant: the state stays OPEN until the probe is answered.
ProbeWhileOpen(c) == CooledDown /\ Admit(c) /\ probe' = probe \cup {c} /\ UNCHANGED breaker

Probe(c) == CooledDown /\ Admit(c) /\ probe' = probe \cup {c} /\ breaker' = "HALF_OPEN"
Reject(c) ==
    /\ breaker # "CLOSED" /\ ~CooledDown
    /\ status' = [status EXCEPT ![c] = "rejected"]
    /\ UNCHANGED <<now, breaker, openedAt, failures, started, probe>>
Receive(c) == status[c] = "new" /\ (Call(c) \/ Probe(c) \/ Reject(c))

\* The dependency approves.
Succeed(c) ==
    /\ Waiting(c)
    /\ status' = [status EXCEPT ![c] = "approved"]
    /\ failures' = 0
    /\ breaker' = IF breaker = "HALF_OPEN" THEN "CLOSED" ELSE breaker
    /\ UNCHANGED <<now, openedAt, started, probe>>

\* Another answer, or the timeout; the late outcome of any call counts.
Trips == breaker = "HALF_OPEN" \/ (breaker = "CLOSED" /\ failures + 1 >= 2)
Fail(c) ==
    /\ Waiting(c)
    /\ status' = [status EXCEPT ![c] = "failed"]
    /\ failures' = failures + 1
    /\ breaker' = IF Trips THEN "OPEN" ELSE breaker
    /\ openedAt' = IF Trips THEN now ELSE openedAt
    /\ UNCHANGED <<now, started, probe>>

\* A crash abandons the handlers; the restart instantiates the model again.
Restart ==
    /\ status' = [c \in Calls |-> IF Waiting(c) THEN "abandoned" ELSE status[c]]
    /\ breaker' = "CLOSED" /\ openedAt' = 0 /\ failures' = 0
    /\ UNCHANGED <<now, started, probe>>

\* A call has its outcome when its deadline passes.
Tick ==
    /\ now < MaxTime
    /\ \A c \in Calls : Waiting(c) => now < started[c] + Timeout
    /\ now' = now + 1
    /\ UNCHANGED <<breaker, openedAt, failures, status, started, probe>>

Init ==
    /\ now = 0 /\ breaker = "CLOSED" /\ openedAt = 0 /\ failures = 0
    /\ status = [c \in Calls |-> "new"]
    /\ started = [c \in Calls |-> 0]
    /\ probe = {}

Next == Tick \/ Restart \/ \E c \in Calls : Receive(c) \/ Succeed(c) \/ Fail(c)
Spec == Init /\ [][Next]_vars

-----------------------------------------------------------------------------
(* Properties                                                               *)

\* "One half-open probe at a time" (circuit.ts:7): while a probe waits the
\* breaker is half open and nothing else waits, so that the probe alone decides
\* what the breaker does next; late outcomes of calls admitted while it was
\* closed do not.
OneProbe ==
    /\ \A p \in probe : Waiting(p) => breaker = "HALF_OPEN" /\ \A c \in Calls : Waiting(c) => c = p
    /\ breaker = "HALF_OPEN" => \E p \in probe : Waiting(p)
=============================================================================
