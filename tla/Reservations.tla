----------------------------- MODULE Reservations -----------------------------
(***************************************************************************)
(* The inventory service of the commerce catalog,                          *)
(* packages/catalogs/src/commerce/inventory.ts: reservations of one SKU,   *)
(* with and without the option optimistic.  The database is that of        *)
(* Database.tla: a commit decides, when its event comes, against the       *)
(* revision its transaction began at, and its task goes on in that event.  *)
(***************************************************************************)
EXTENDS Integers, FiniteSets

CONSTANTS
    Requests,    \* reservations asked for, one handler each
    Units        \* the stock to begin with

ASSUME ReservationsAssumption == Units \in Nat

ATTEMPTS == 2

VARIABLES
    optimistic,  \* configuration of the instance
    stock,       \* of the stock row
    revision,    \* of the database
    reserved,    \* ACTIVE reservations
    request      \* each handler: step, base and seen of its transaction, attempt

reservationsVars == <<optimistic, stock, revision, reserved, request>>

Request == [step : {"new", "validating", "committing", "RESERVED", "OUT_OF_STOCK", "CONFLICT", "FAILED", "lost"},
            base : Nat, seen : Int, attempt : 1 .. ATTEMPTS]

Running(r) == request[r].step \in {"validating", "committing"}
To(r, step) == request' = [request EXCEPT ![r].step = step]

-----------------------------------------------------------------------------
(* POST /reserve                                                            *)

\* begin and get: the stock is read, and refused when there is none.
Check(r, attempt) ==
    request' = [request EXCEPT ![r] =
        IF stock < 1 THEN [@ EXCEPT !.step = "OUT_OF_STOCK"]
        ELSE [step |-> "validating", base |-> revision, seen |-> stock, attempt |-> attempt]]

Reserve(r) ==
    /\ request[r].step = "new"
    /\ Check(r, 1)
    /\ UNCHANGED <<optimistic, stock, revision, reserved>>

\* Faulty variant: the safe handler also begins again before it writes.
WriteAfresh(r) ==
    /\ request[r].step = "validating"
    /\ request' = [request EXCEPT ![r].step = "committing", ![r].base = revision, ![r].seen = stock]
    /\ UNCHANGED <<optimistic, stock, revision, reserved>>

\* After VALIDATION ms.  The unsafe handler begins again and takes one from
\* the stock it finds now.
Write(r) ==
    /\ request[r].step = "validating"
    /\ request' = [request EXCEPT ![r] = IF optimistic THEN [@ EXCEPT !.step = "committing"]
                                         ELSE [@ EXCEPT !.step = "committing", !.base = revision, !.seen = stock]]
    /\ UNCHANGED <<optimistic, stock, revision, reserved>>

\* The commit event.
Accept(r) ==
    /\ request[r].step = "committing" /\ request[r].base = revision
    /\ stock' = request[r].seen - 1
    /\ reserved' = reserved \cup {r}
    /\ revision' = revision + 1
    /\ To(r, "RESERVED")
    /\ UNCHANGED optimistic

Conflict(r) ==
    /\ request[r].step = "committing" /\ request[r].base # revision
    /\ IF optimistic /\ request[r].attempt < ATTEMPTS THEN Check(r, request[r].attempt + 1) ELSE To(r, "CONFLICT")
    /\ UNCHANGED <<optimistic, stock, revision, reserved>>

\* A fault refuses the commit.
CommitFails(r) ==
    /\ request[r].step = "committing"
    /\ To(r, "FAILED")
    /\ UNCHANGED <<optimistic, stock, revision, reserved>>

\* A crash abandons the handlers and their transactions.
Crash ==
    /\ request' = [r \in Requests |-> IF Running(r) THEN [request[r] EXCEPT !.step = "lost"] ELSE request[r]]
    /\ UNCHANGED <<optimistic, stock, revision, reserved>>

ReservationsInit ==
    /\ optimistic \in BOOLEAN
    /\ stock = Units /\ revision = 0 /\ reserved = {}
    /\ request = [r \in Requests |-> [step |-> "new", base |-> 0, seen |-> 0, attempt |-> 1]]

ReservationsNext == Crash \/ \E r \in Requests : Reserve(r) \/ Write(r) \/ Accept(r) \/ Conflict(r) \/ CommitFails(r)
ReservationsSpec == ReservationsInit /\ [][ReservationsNext]_reservationsVars

-----------------------------------------------------------------------------
(* Properties                                                               *)

\* Every unit that left the stock has its reservation, in both modes.
CountsMatch == stock = Units - Cardinality(reserved)

\* With optimistic, stock never goes below zero.
NeverNegative == optimistic => stock >= 0

\* Whoever is told there is none left is told the truth for good, and whoever
\* lost both attempts lost them to reservations.
RefusedForCause ==
    \A r \in Requests :
        /\ request[r].step = "OUT_OF_STOCK" => stock < 1
        /\ request[r].step = "CONFLICT" => Cardinality(reserved) >= IF optimistic THEN ATTEMPTS ELSE 1

\* A unit is sold once: "stock is never negative" and "a unit has at most one
\* active reservation" (docs/commerce-lessons.md:499-500) whatever the order
\* of reads, commits, failures and crashes (inventory.ts:43-68).
NoOversell == CountsMatch /\ NeverNegative /\ RefusedForCause
=============================================================================
