----------------------------- MODULE PaymentRetry -----------------------------
(***************************************************************************)
(* The retry lesson of the commerce catalog: the payment service of        *)
(* packages/catalogs/src/commerce/retry.ts and the client of common.ts,    *)
(* all of whose requests carry the same idempotency key.  The revision of  *)
(* the service's database is the number of its payments; a payment is      *)
(* known by its number.                                                    *)
(***************************************************************************)
EXTENDS Integers

CONSTANT Clients     \* actions "request" of the clients

VARIABLES
    idempotent,  \* configuration of the service
    payments,    \* rows of the table payments
    result,      \* the row of the key in the table results, 0 when there is none
    handler,     \* of each attempt: step, base of its transaction, payment answered
    client       \* of each action: attempt, attempts allowed, step, payment told

vars == <<idempotent, payments, result, handler, client>>

Attempts == Clients \X (1 .. 2)

-----------------------------------------------------------------------------
(* POST /pay                                                                *)

Set(a, step, n) == handler' = [handler EXCEPT ![a] = [step |-> step, base |-> IF step = "committing" THEN payments ELSE 0, payment |-> n]]

Previous(a) ==
    /\ handler[a].step = "sent" /\ idempotent /\ result # 0
    /\ Set(a, "answered", result)
    /\ UNCHANGED <<idempotent, payments, result, client>>

Pay(a) ==
    /\ handler[a].step = "sent" /\ ~(idempotent /\ result # 0)
    /\ Set(a, "committing", payments + 1)
    /\ UNCHANGED <<idempotent, payments, result, client>>

\* Faulty variant: the commit does not compare revisions.
CommitOver(a) ==
    /\ handler[a].step = "committing"
    /\ payments' = payments + 1
    /\ result' = IF idempotent THEN handler[a].payment ELSE result
    /\ Set(a, "answered", handler[a].payment)
    /\ UNCHANGED <<idempotent, client>>

\* The commit event; another commit since the begin is a conflict.
Commit(a) ==
    /\ handler[a].step = "committing" /\ handler[a].base = payments
    /\ payments' = payments + 1
    /\ result' = IF idempotent THEN handler[a].payment ELSE result
    /\ Set(a, "answered", handler[a].payment)
    /\ UNCHANGED <<idempotent, client>>

\* A conflict, a fault of the commit: the reply has the status "error".
Refuse(a) ==
    /\ handler[a].step = "committing"
    /\ Set(a, "answered", 0)
    /\ UNCHANGED <<idempotent, payments, result, client>>

\* The request is dropped, or its handler crashes.
Lose(a) ==
    /\ handler[a].step \in {"sent", "committing"}
    /\ Set(a, "lost", 0)
    /\ UNCHANGED <<idempotent, payments, result, client>>

-----------------------------------------------------------------------------
(* The action "request" of a client                                         *)

Send(c) ==
    /\ client[c].step \in {"new", "sleeping"}
    /\ client' = [client EXCEPT ![c].step = "waiting", ![c].attempt = @ + 1]
    /\ Set(<<c, client[c].attempt + 1>>, "sent", 0)
    /\ UNCHANGED <<idempotent, payments, result>>

Reply(c) ==
    LET a == <<c, client[c].attempt>> IN
    /\ client[c].step = "waiting" /\ handler[a].step = "answered"
    /\ client' = [client EXCEPT ![c].step = "replied", ![c].told = handler[a].payment]
    /\ UNCHANGED <<idempotent, payments, result, handler>>

\* The network's timeout may come at any time, whatever became of the handler.
TimeOut(c) ==
    /\ client[c].step = "waiting"
    /\ client' = [client EXCEPT ![c].step = IF client[c].attempt < client[c].allowed THEN "sleeping" ELSE "UNKNOWN"]
    /\ UNCHANGED <<idempotent, payments, result, handler>>

-----------------------------------------------------------------------------
Init ==
    /\ idempotent \in BOOLEAN
    /\ payments = 0 /\ result = 0
    /\ handler = [a \in Attempts |-> [step |-> "none", base |-> 0, payment |-> 0]]
    /\ client \in [Clients -> [attempt : {0}, allowed : {1, 2}, step : {"new"}, told : {0}]]

Next ==
    \/ \E a \in Attempts : Previous(a) \/ Pay(a) \/ Commit(a) \/ Refuse(a) \/ Lose(a)
    \/ \E c \in Clients : Send(c) \/ Reply(c) \/ TimeOut(c)
Spec == Init /\ [][Next]_vars

-----------------------------------------------------------------------------
(* Properties                                                               *)

Told == {c \in Clients : client[c].told # 0}

\* "A retried payment request charges the order once" (scenarios.ts:269) with
\* idempotent, whatever is lost, retried or answered late, and whoever is told
\* of a payment is told of that one; without it every payment answered is a
\* row of its own, at most one for each attempt: none is reported that was not
\* persisted, and none overwrites another (retry.ts:20-24).
ChargedOnce ==
    /\ \A c \in Told : client[c].told <= payments
    /\ idempotent => payments <= 1 /\ result = payments
    /\ ~idempotent => \A a, b \in Attempts :
           a # b /\ handler[a].step = "answered" /\ handler[a].payment # 0 => handler[b].step # "answered" \/ handler[a].payment # handler[b].payment
=============================================================================
