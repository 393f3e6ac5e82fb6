--------------------------- MODULE WorkshopSettlement ---------------------------
(***************************************************************************)
(* CommerceService.reconcile_event: a signed event is recorded pending,    *)
(* Stripe is asked what is true now, and the outcome is committed under    *)
(* the scope lock.  Events of an order come in any order and repeatedly,   *)
(* from the webhook and from the reconciler that retries pending ones.     *)
(***************************************************************************)
EXTENDS WorkshopCheckout

AfterRecord(k, row) ==
    CASE k \in {"completed", "succeeded"} -> "settle"
      [] k = "revoking" -> "intent"
      [] k = "expired" -> "retrieve"
      [] OTHER -> "finish"

Handle(w, o, k) ==
    server' = [server EXCEPT ![w] = [Idle EXCEPT !.pc = AfterRecord(k, order[o]), !.order = o,
                                                 !.event = k, !.session = order[o].session]]

Handled(o, k) == event[o][k] \in {"fulfilled", "failed"}

\* The first transaction: record the event, unless it is known and handled.
Receive(w, o, k) ==
    /\ At(w, "idle") /\ order[o].status # "absent"
    /\ Emitted(o, k) \/ event[o][k] = "pending"
    /\ ~Handled(o, k)
    /\ event' = [event EXCEPT ![o][k] = "pending"]
    /\ Handle(w, o, k)
    /\ UNCHANGED <<order, binding, provider>>

\* validate_settlement.
Settled(o) == provider[o].session = "complete" /\ provider[o].intent = "succeeded"

\* The session an event is about: its own, or the one the order has stored.  A
\* payment intent's event names none, and waits until the order has one.
KnowsSession(w) == server[w].event = "completed" \/ server[w].session

Settle(w) ==
    LET o == server[w].order IN
    /\ At(w, "settle")
    /\ \/ /\ ~KnowsSession(w)
          /\ Done(w)
       \/ /\ KnowsSession(w)
          /\ Goto(w, IF Settled(o) THEN "finish" ELSE "quarantine")
    /\ UNCHANGED <<db, provider>>

\* A refund is believed once the provider confirms whose payment it is.
ReadIntent(w) ==
    /\ At(w, "intent")
    /\ Goto(w, "finish")
    /\ UNCHANGED <<db, provider>>

Quarantine(w) ==
    LET o == server[w].order IN
    /\ At(w, "quarantine")
    /\ event' = [event EXCEPT ![o][server[w].event] = "failed"]
    /\ Done(w)
    /\ UNCHANGED <<order, binding, provider>>

Revoked(row) ==
    [row EXCEPT !.status = "revoked",
                !.entitlement = IF @ = "none" THEN "none" ELSE "revoked"]

Paid(row) == [row EXCEPT !.status = "paid", !.session = TRUE, !.entitlement = "active"]

\* Variant: the settlement that was validated is committed whatever happened since.
MayGrantAsRead(row) == row.status # "paid"

\* Variant: only an order that is open can be settled.
MayGrantOpen(row) == row.status = "open"

MayGrant(row) == row.status \notin {"paid", "revoked"}

RowAfter(k, row) ==
    CASE k = "revoking" -> Revoked(row)
      [] k \in {"completed", "succeeded"} /\ MayGrant(row) -> Paid(row)
      [] OTHER -> row

\* workshop_orders_live_scope_idx and entitlements_active_customer_scope_idx.
NoOtherOwner(o) ==
    \A p \in InScope(order[o].scope) \ {o} : ~Live(p) /\ order[p].entitlement # "active"

\* The final transaction: the order, its entitlement and the event together.  A
\* violated index aborts it and leaves the event pending.
Finish(w) ==
    LET o == server[w].order
        k == server[w].event
        row == RowAfter(k, order[o])
    IN
    /\ At(w, "finish")
    /\ row.status = "paid" => NoOtherOwner(o)
    /\ order' = [order EXCEPT ![o] = row]
    /\ event' = [event EXCEPT ![o][k] = "fulfilled"]
    /\ Done(w)
    /\ UNCHANGED <<binding, provider>>

SettlementStep(w) == Settle(w) \/ ReadIntent(w) \/ Quarantine(w) \/ Finish(w)
=============================================================================
