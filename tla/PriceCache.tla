------------------------------ MODULE PriceCache ------------------------------
(***************************************************************************)
(* The caching lessons of the commerce catalog,                            *)
(* packages/catalogs/src/commerce/cache.ts: Catalog, which caches the      *)
(* price of one SKU, Cart with one cart, and Orders, whose checkouts ask   *)
(* both.  Requests and replies take any time.  An order is a record with   *)
(* the step of its handler, when it began, the expiresAt of the cart and   *)
(* the version of the price it was told, and its checkedOutAt.             *)
(***************************************************************************)
EXTENDS Integers, Sequences

CONSTANTS
    Changes,     \* requests POST /price
    Orders,      \* requests POST /checkout
    Lifetime,    \* of a cached price: 100 in the code
    CartLifetime,\* 30 in the code
    MaxTime      \* bound: virtual time of a run

VARIABLES
    now,
    invalidate,  \* configuration of Catalog
    history,     \* price-history: validFrom of each version
    cached,      \* the entry price:sku
    cart,        \* expiresAt of the entry cart:cartId
    change,      \* each handler: step, version read, validFrom
    order

vars == <<now, invalidate, history, cached, cart, change, order>>

Version == Len(history)
NoChange == [step |-> "new", version |-> 0, from |-> 0]
NoOrder == [step |-> "new", began |-> 0, expiresAt |-> 0, version |-> 0, checkedOutAt |-> 0]

-----------------------------------------------------------------------------
(* Catalog                                                                  *)

\* GET /price: from the cache, or from the database into the cache.
Hit == cached.version # 0 /\ now < cached.expires
Price == IF Hit THEN cached.version ELSE Version
Fill == cached' = IF Hit THEN cached ELSE [version |-> Version, expires |-> now + Lifetime]

View == Fill /\ UNCHANGED <<now, invalidate, history, cart, change, order>>

\* POST /price reads the version; its commit decides in an event of its own,
\* at the same time.
BeginChange(c) ==
    /\ change[c].step = "new"
    /\ change' = [change EXCEPT ![c] = [step |-> "committing", version |-> Version, from |-> now]]
    /\ UNCHANGED <<now, invalidate, history, cached, cart, order>>

\* Faulty variant: the key stays.
CommitChangeKeepingKey(c) ==
    /\ change[c].step = "committing" /\ change[c].version = Version
    /\ history' = Append(history, change[c].from)
    /\ change' = [change EXCEPT ![c].step = "UPDATED"]
    /\ UNCHANGED <<now, invalidate, cached, cart, order>>

CommitChange(c) ==
    /\ change[c].step = "committing" /\ change[c].version = Version
    /\ history' = Append(history, change[c].from)
    /\ change' = [change EXCEPT ![c].step = "UPDATED"]
    /\ cached' = IF invalidate THEN [version |-> 0, expires |-> 0] ELSE cached
    /\ UNCHANGED <<now, invalidate, cart, order>>

\* A conflict with another change, a fault, or a crash of Catalog.
ChangeFails(c) ==
    /\ change[c].step = "committing"
    /\ change' = [change EXCEPT ![c] = [NoChange EXCEPT !.step = "failed"]]
    /\ UNCHANGED <<now, invalidate, history, cached, cart, order>>

-----------------------------------------------------------------------------
(* Cart and Orders                                                          *)

SaveCart ==
    /\ cart' = now + CartLifetime
    /\ UNCHANGED <<now, invalidate, history, cached, change, order>>

Checkout(o) ==
    /\ order[o].step = "new"
    /\ order' = [order EXCEPT ![o].step = "asksCart", ![o].began = now]
    /\ UNCHANGED <<now, invalidate, history, cached, cart, change>>

\* GET /cart: an expired cart is absent.
GetCart(o) ==
    /\ order[o].step = "asksCart"
    /\ order' = [order EXCEPT ![o].step = "toldCart", ![o].expiresAt = IF now < cart THEN cart ELSE 0]
    /\ UNCHANGED <<now, invalidate, history, cached, cart, change>>

ReadCart(o) ==
    /\ order[o].step = "toldCart"
    /\ order' = [order EXCEPT ![o].step = IF order[o].expiresAt = 0 THEN "rejecting" ELSE "asksPrice"]
    /\ UNCHANGED <<now, invalidate, history, cached, cart, change>>

GetPrice(o) ==
    /\ order[o].step = "asksPrice"
    /\ order' = [order EXCEPT ![o].step = "toldPrice", ![o].version = Price]
    /\ Fill
    /\ UNCHANGED <<now, invalidate, history, cart, change>>

ReadPrice(o) ==
    /\ order[o].step = "toldPrice"
    /\ order' = [order EXCEPT ![o].step = "placing", ![o].checkedOutAt = now]
    /\ UNCHANGED <<now, invalidate, history, cached, cart, change>>

\* The commit of the row.
Save(o) ==
    /\ order[o].step \in {"rejecting", "placing"}
    /\ order' = [order EXCEPT ![o].step = IF @ = "placing" THEN "PLACED" ELSE "REJECTED"]
    /\ UNCHANGED <<now, invalidate, history, cached, cart, change>>

\* A call timed out or was refused, the commit failed, or Orders crashed.
GiveUp(o) ==
    /\ order[o].step \in {"asksCart", "toldCart", "asksPrice", "toldPrice", "rejecting", "placing"}
    /\ order' = [order EXCEPT ![o] = [NoOrder EXCEPT !.step = "failed"]]
    /\ UNCHANGED <<now, invalidate, history, cached, cart, change>>

-----------------------------------------------------------------------------
Init ==
    /\ now = 0 /\ invalidate \in BOOLEAN
    /\ history = <<0>>
    /\ cached = [version |-> 0, expires |-> 0] /\ cart = 0
    /\ change = [c \in Changes |-> NoChange]
    /\ order = [o \in Orders |-> NoOrder]

\* A commit is an event of the present time (scheduleStorage): it is dispatched
\* before time goes on.
Committing == \/ \E c \in Changes : change[c].step = "committing"
              \/ \E o \in Orders : order[o].step \in {"placing", "rejecting"}

Tick ==
    /\ now < MaxTime /\ ~Committing
    /\ now' = now + 1
    /\ UNCHANGED <<invalidate, history, cached, cart, change, order>>

Next ==
    \/ Tick \/ View \/ SaveCart
    \/ \E c \in Changes : BeginChange(c) \/ CommitChange(c) \/ ChangeFails(c)
    \/ \E o \in Orders : \/ Checkout(o) \/ GetCart(o) \/ ReadCart(o) \/ GetPrice(o) \/ ReadPrice(o)
                         \/ Save(o) \/ GiveUp(o)
Spec == Init /\ [][Next]_vars

-----------------------------------------------------------------------------
(* Properties                                                               *)

Placed == {o \in Orders : order[o].step = "PLACED"}

\* Version v was the price of record at some time from t to u.
OfRecord(v, t, u) == history[v] <= u /\ (v < Version => t <= history[v + 1])

\* A price is never staler than the design allows (cache.ts:14-20, hazard
\* cache.ts:56): with invalidate a live entry is the price of record, without
\* it it was so less than its TTL ago; and an order placed has a price that was
\* of record that recently while it was checked out, and relied on a cart that
\* was live when it was asked for.  More does not hold: prices change at the
\* instant of a checkout, and a cart may expire while Catalog is asked, though
\* scenarios.ts:308 has it that "An expired cart cannot be checked out".
BoundedStaleness ==
    LET Age == IF invalidate THEN 0 ELSE Lifetime IN
    /\ Hit => IF invalidate THEN cached.version = Version
              ELSE OfRecord(cached.version, cached.expires - Lifetime, now)
    /\ \A o \in Placed : /\ OfRecord(order[o].version, order[o].began - Age, order[o].checkedOutAt)
                         /\ order[o].began < order[o].expiresAt
=============================================================================
