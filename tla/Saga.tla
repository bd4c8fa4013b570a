--------------------------------- MODULE Saga ---------------------------------
(***************************************************************************)
(* The saga lesson of the commerce catalog,                                *)
(* packages/catalogs/src/commerce/saga.ts, with compensate: true: one      *)
(* checkout, the handler of which calls Inventory, Payments and the        *)
(* carrier in turn.  A call does its work or not, and the caller sees the  *)
(* reply, an error reply, or the timeout, which throws.                    *)
(***************************************************************************)
EXTENDS Naturals

VARIABLES
    pc,          \* where the handler is
    order,       \* status of the row in Orders
    resource,    \* of Inventory and Payments: the row of table state
    shipped      \* the state of the carrier

vars == <<pc, order, resource, shipped>>

Compensates == {"refund", "release"}
Target == [reserve |-> "inventory", charge |-> "payments", refund |-> "payments", release |-> "inventory"]
After == [create |-> "reserve", reserve |-> "charge", charge |-> "ship", ship |-> "confirm", confirm |-> "finished",
          doubt |-> "refund", refund |-> "release", release |-> "cancel", cancel |-> "finished"]

\* save(ctx, "orders", ...): the commit succeeds, or throws.
Saves == [create |-> "CREATED", confirm |-> "CONFIRMED", doubt |-> "NEEDS_COMPENSATION", cancel |-> "CANCELLED"]
Save ==
    /\ pc \in DOMAIN Saves
    /\ order' = Saves[pc] /\ pc' = After[pc]
    /\ UNCHANGED <<resource, shipped>>

\* POST /apply and POST /compensate of a resource commit a row each.
Work(t) == resource' = [resource EXCEPT ![t] = IF pc \in Compensates THEN "compensated" ELSE "forward"]
Done ==
    /\ pc \in DOMAIN Target
    /\ Work(Target[pc])
    /\ pc' = After[pc]
    /\ UNCHANGED <<order, shipped>>

\* Mutant: the status of the reply is not looked at.
ErrorReplyUnread ==
    /\ pc \in DOMAIN Target
    /\ pc' = After[pc]
    /\ UNCHANGED <<order, resource, shipped>>

\* The commit of the resource failed: the reply has the status "error", which
\* only the calls of POST /apply are checked for.
ErrorReply ==
    /\ pc \in DOMAIN Target
    /\ pc' = IF pc \in Compensates THEN After[pc] ELSE "failed"
    /\ UNCHANGED <<order, resource, shipped>>

\* The carrier ships, or refuses while it is unavailable: both are replies.
Ship ==
    /\ pc = "ship"
    /\ shipped' \in BOOLEAN
    /\ pc' = After[pc]
    /\ UNCHANGED <<order, resource>>

\* A timeout, whatever the callee did; only that of the carrier is caught.
TimeOut ==
    /\ pc \in DOMAIN Target \cup {"ship"}
    /\ \/ pc # "ship" /\ Work(Target[pc]) /\ UNCHANGED shipped
       \/ pc = "ship" /\ shipped' \in BOOLEAN /\ UNCHANGED resource
       \/ UNCHANGED <<resource, shipped>>
    /\ pc' = IF pc = "ship" THEN "doubt" ELSE "failed"
    /\ UNCHANGED order

\* A commit of Orders fails, or Orders crashes.
Fail ==
    /\ pc \notin {"finished", "failed"}
    /\ pc' = "failed"
    /\ UNCHANGED <<order, resource, shipped>>

Init ==
    /\ pc = "create" /\ order = "none" /\ shipped = FALSE
    /\ resource = [t \in {"inventory", "payments"} |-> "none"]

Next == Save \/ Done \/ ErrorReply \/ Ship \/ TimeOut \/ Fail
Spec == Init /\ [][Next]_vars

-----------------------------------------------------------------------------
(* Properties                                                               *)

\* An order is confirmed only on stock that is reserved and money that is paid,
\* and shipped only after both; nothing is undone while the order may still be
\* confirmed, and an order in doubt is never confirmed.  A timeout does not
\* tell what the callee did (saga.ts:43): what holds is what the order of the
\* calls and the replies looked at give.
OrderStandsOnBoth ==
    /\ order = "CONFIRMED" \/ shipped => \A t \in DOMAIN resource : resource[t] # "none"
    /\ order = "CONFIRMED" => \A t \in DOMAIN resource : resource[t] = "forward"
    /\ (\E t \in DOMAIN resource : resource[t] = "compensated") => order \in {"NEEDS_COMPENSATION", "CANCELLED"}
=============================================================================
