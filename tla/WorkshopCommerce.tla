---------------------------- MODULE WorkshopCommerce ----------------------------
(***************************************************************************)
(* The paid Workshop: checkouts, polls and provider events handled by      *)
(* several server processes, against Stripe and its customers.             *)
(***************************************************************************)
EXTENDS WorkshopSettlement

Serving(w) ==
    \/ \E k \in Keys, s \in Scopes : Checkout(w, k, s)
    \/ \E o \in Orders : Poll(w, o)
    \/ \E o \in Orders, k \in Kinds : Receive(w, o, k)
    \/ CheckoutStep(w) \/ SettlementStep(w)

Next ==
    \/ \E w \in Servers : Serving(w) \/ Crash(w)
    \/ \E o \in Orders : Outside(o) \/ Tick(o)

Spec == Init /\ [][Next]_vars

(***************************************************************************)
(* Safety.                                                                 *)
(***************************************************************************)
\* An order the customer is told to replace ("new_key", commerce_service.py:347-348)
\* can never be charged any more, however its expiry, its payment and the provider
\* calls interleaved: otherwise the replacement would be a second charge.
ReplacedNeverCharged ==
    \A o \in Orders : order[o].status = "expired" =>
        provider[o].session = "expired" /\ provider[o].intent \in {"none", "canceled"}

\* Once the completion of a paid session has been handled the customer owns the
\* scope, or a refund took it back: no event that settles is swallowed or
\* quarantined (commerce_service.py:409-440, 450-465).
CompletionNotLost ==
    \A o \in Orders : event[o]["completed"] \in {"fulfilled", "failed"} =>
        order[o].status \in {"paid", "revoked"}

\* No other order of the scope ever stands in the way of one that was paid: the
\* indexes that keep a scope to one owner cannot abort its settlement for good
\* (commerce_service.py:450-465, 040_workshop_commerce.sql:44-46, 70-72).
SettlementNotBlocked ==
    \A o \in Orders : provider[o].session = "complete" =>
        order[o].status = "revoked" \/ NoOtherOwner(o)

\* The account is charged at most once for a scope, reads it only after a settled
\* charge, and never again after a refund, whatever order the events come in
\* ("Only verified settled payment matching the stored order ... may do so",
\* docs/architecture/workshop-commerce.md:47-50).
Charges(s) == {o \in InScope(s) : provider[o].intent = "succeeded"}

Access(s) ==
    CASE \E o \in InScope(s) : order[o].status = "revoked" -> "closed"
      [] \E o \in InScope(s) : order[o].entitlement = "active" -> "granted"
      [] OTHER -> "none"

Promised == INSTANCE PurchaseOnce WITH
    Receipts <- Orders,
    charges <- [s \in Scopes |-> Charges(s)], access <- [s \in Scopes |-> Access(s)]

SellsOnce == Promised!Promise
=============================================================================
