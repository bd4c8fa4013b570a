-------------------------------- MODULE Outbox --------------------------------
(***************************************************************************)
(* The outbox lessons of the commerce catalog,                             *)
(* packages/catalogs/src/commerce/outbox.ts: Payments, whose relay         *)
(* publishes the events of the table outbox, and Notifications.  There is  *)
(* one order, hence one event.  The message bus may deliver what was       *)
(* published any number of times, in any order.                            *)
(***************************************************************************)
EXTENDS Integers

CONSTANTS
    Pays,        \* requests POST /pay
    Relays,      \* requests POST /relay
    Deliveries   \* bound: attempts of the bus to deliver the event

VARIABLES
    useOutbox,   \* configuration of Payments
    idempotent,  \* and of Notifications
    db,          \* Payments: revision, paid, and sent of the outbox row
    inbox,       \* Notifications: revision, rows of notifications and of inbox
    published,   \* the event was published
    task         \* each handler: step, base of its transaction

vars == <<useOutbox, idempotent, db, inbox, published, task>>

Step(t, step) == task[t].step = step
Set(t, step, base) == task' = [task EXCEPT ![t] = [step |-> step, base |-> base]]
End(t, step) == Set(t, step, 0)

-----------------------------------------------------------------------------
(* Payments                                                                 *)

\* POST /pay; the insertion of a second payment of the order is an error.
Pay(t) ==
    /\ Step(t, "new")
    /\ IF db.paid THEN End(t, "failed") ELSE Set(t, "paying", db.revision)
    /\ UNCHANGED <<useOutbox, idempotent, db, inbox, published>>

CommitPayment(t) ==
    /\ Step(t, "paying") /\ task[t].base = db.revision
    /\ db' = [revision |-> db.revision + 1, paid |-> TRUE, sent |-> IF useOutbox THEN "no" ELSE "none"]
    /\ End(t, "sleeping")
    /\ UNCHANGED <<useOutbox, idempotent, inbox, published>>

\* After 10 ms.
Wake(t) ==
    /\ Step(t, "sleeping")
    /\ published' = (published \/ ~useOutbox)
    /\ End(t, "paid")
    /\ UNCHANGED <<useOutbox, idempotent, db, inbox>>

\* POST /relay schedules the relay, which reads the rows not sent.
Relay(t) ==
    /\ Step(t, "relay")
    /\ End(t, IF db.sent = "no" THEN "publishing" ELSE "relayed")
    /\ UNCHANGED <<useOutbox, idempotent, db, inbox, published>>

Publish(t) ==
    /\ Step(t, "publishing")
    /\ published' = TRUE
    /\ Set(t, "marking", db.revision)
    /\ UNCHANGED <<useOutbox, idempotent, db, inbox>>

CommitMark(t) ==
    /\ Step(t, "marking") /\ task[t].base = db.revision
    /\ db' = [db EXCEPT !.revision = @ + 1, !.sent = "yes"]
    /\ End(t, "relayed")
    /\ UNCHANGED <<useOutbox, idempotent, inbox, published>>

-----------------------------------------------------------------------------
(* Notifications, the consumer of PaymentApproved                           *)

Consume(t) ==
    /\ Step(t, "copy") /\ published
    /\ IF idempotent /\ inbox.rows > 0 THEN End(t, "ignored") ELSE Set(t, "noting", inbox.revision)
    /\ UNCHANGED <<useOutbox, idempotent, db, inbox, published>>

\* Faulty variant: the transaction of the inbox is one of its own.
CommitNoteAlone(t) ==
    /\ Step(t, "noting")
    /\ inbox' = [revision |-> inbox.revision + 1, notes |-> inbox.notes + 1,
                 rows |-> IF idempotent THEN inbox.rows + 1 ELSE inbox.rows]
    /\ End(t, "acknowledging")
    /\ UNCHANGED <<useOutbox, idempotent, db, published>>

CommitNote(t) ==
    /\ Step(t, "noting") /\ task[t].base = inbox.revision
    /\ inbox' = [revision |-> inbox.revision + 1, notes |-> inbox.notes + 1,
                 rows |-> IF idempotent THEN inbox.rows + 1 ELSE inbox.rows]
    /\ End(t, "acknowledging")
    /\ UNCHANGED <<useOutbox, idempotent, db, published>>

\* After 5 ms.
Acknowledge(t) ==
    /\ Step(t, "acknowledging")
    /\ End(t, "acknowledged")
    /\ UNCHANGED <<useOutbox, idempotent, db, inbox, published>>

-----------------------------------------------------------------------------
\* A conflict or a fault of a commit, a message of the network lost, or the
\* crash of the service: the handler ends where it is.
Fail(t) ==
    /\ task[t].step \in {"paying", "sleeping", "relay", "publishing", "marking", "copy", "noting", "acknowledging"}
    /\ End(t, "failed")
    /\ UNCHANGED <<useOutbox, idempotent, db, inbox, published>>

Init ==
    /\ useOutbox \in BOOLEAN /\ idempotent \in BOOLEAN
    /\ db = [revision |-> 0, paid |-> FALSE, sent |-> "none"]
    /\ inbox = [revision |-> 0, notes |-> 0, rows |-> 0]
    /\ published = FALSE
    /\ task = [t \in Pays \cup Relays \cup Deliveries |->
                  [step |-> IF t \in Pays THEN "new" ELSE IF t \in Relays THEN "relay" ELSE "copy", base |-> 0]]

Next == \E t \in Pays \cup Relays \cup Deliveries :
    \/ Pay(t) \/ CommitPayment(t) \/ Wake(t)
    \/ Relay(t) \/ Publish(t) \/ CommitMark(t)
    \/ Consume(t) \/ CommitNote(t) \/ Acknowledge(t)
    \/ Fail(t)
Spec == Init /\ [][Next]_vars

-----------------------------------------------------------------------------
(* Properties                                                               *)

\* "An approved payment's event is recorded and published", "produces exactly
\* one notification" (scenarios.ts:286-287): with the outbox the event of a
\* payment is never lost, since a row tells the next relay of it until it was
\* published, whatever crashes between the publication and the mark
\* (outbox.ts:33); nobody is notified of a payment that is not of record; and
\* an idempotent consumer makes one notification of however many deliveries.
NotifiedOnce ==
    /\ useOutbox => (db.paid <=> db.sent # "none")
    /\ useOutbox /\ db.paid => db.sent = "no" \/ published
    /\ published => db.paid
    /\ inbox.notes > 0 => db.paid
    /\ idempotent => inbox.notes <= 1 /\ inbox.rows = inbox.notes
=============================================================================
