---------------------------- MODULE WorkshopCheckout ----------------------------
(***************************************************************************)
(* CommerceService.checkout and order_status: each is a transaction under  *)
(* the scope lock, calls to Stripe outside any transaction, and a second   *)
(* transaction under the lock.  Other processes act between any two, a     *)
(* call may fail before or after it took effect, and the process may die.  *)
(***************************************************************************)
EXTENDS WorkshopOrders

ScopeRevoked(s) == \E o \in InScope(s) : order[o].status = "revoked"
EntitlementRevoked(s) == \E o \in InScope(s) : order[o].entitlement = "revoked"

\* An open order whose provider_expires_at has passed.
Lapsed(o) == order[o].status = "open" /\ order[o].age > 0

\* What checkout does with the order once its first transaction committed.
AfterLookup(row) ==
    CASE row.status = "creating" /\ row.age = 2 -> "abandon"
      [] row.status = "creating" /\ row.age < 2 -> "create"
      [] row.status = "open" /\ row.age > 0 -> "retrieve"
      [] OTHER -> "idle"

Serve(w, o, row) ==
    server' = [server EXCEPT ![w] =
        IF AfterLookup(row) = "idle" THEN Idle
        ELSE [Idle EXCEPT !.pc = AfterLookup(row), !.order = o, !.session = row.session]]

\* A key that is bound already leads to its order and never to another one.
Replay(w, k, s) ==
    /\ binding[k] \in InScope(s)
    /\ Serve(w, binding[k], order[binding[k]])
    /\ UNCHANGED <<order, binding>>

Reuse(w, k, s) ==
    /\ binding[k] = None /\ ~ScopeRevoked(s)
    /\ \E o \in InScope(s) :
        /\ Live(o)
        /\ binding' = [binding EXCEPT ![k] = o]
        /\ Serve(w, o, order[o])
    /\ UNCHANGED order

Place(w, k, s) ==
    /\ binding[k] = None /\ ~ScopeRevoked(s)
    /\ \A o \in InScope(s) : ~Live(o)
    /\ \E o \in Orders :
        LET row == [NoOrder EXCEPT !.scope = s, !.status = "creating"] IN
        /\ order[o].status = "absent"
        /\ order' = [order EXCEPT ![o] = row]
        /\ binding' = [binding EXCEPT ![k] = o]
        /\ Serve(w, o, row)

\* checkout, its first transaction.
Checkout(w, k, s) ==
    /\ At(w, "idle") /\ ~EntitlementRevoked(s)
    /\ Replay(w, k, s) \/ Reuse(w, k, s) \/ Place(w, k, s)
    /\ UNCHANGED <<event, provider>>

\* order_status.
Poll(w, o) ==
    /\ At(w, "idle") /\ Lapsed(o)
    /\ Serve(w, o, order[o])
    /\ UNCHANGED <<db, provider>>

(***************************************************************************)
(* An order whose creation is 23 hours old is left to a person: Stripe may *)
(* forget its idempotency key and create a second session.                 *)
(***************************************************************************)
Abandon(w) ==
    LET o == server[w].order IN
    /\ At(w, "abandon")
    /\ order' = IF order[o].status = "creating"
                THEN [order EXCEPT ![o].status = "reconciliation_required"] ELSE order
    /\ Done(w)
    /\ UNCHANGED <<binding, event, provider>>

\* create_order_checkout: the idempotency key returns the session that exists; a new
\* one is refused once its expiry would be too near.
Create(w) ==
    LET o == server[w].order IN
    /\ At(w, "create")
    /\ provider[o].session # "none" \/ order[o].age = 0
    /\ provider' = IF provider[o].session = "none"
                   THEN [provider EXCEPT ![o].session = "open"] ELSE provider
    /\ Goto(w, "attach") \/ Done(w)
    /\ UNCHANGED db

\* Variant: the order waits for its payment under a status the migration allows.
StatusWhileProcessing(status) == IF status = "creating" THEN "processing" ELSE status

StatusWithSession(status) == IF status = "creating" THEN "open" ELSE status

Attach(w) ==
    LET o == server[w].order IN
    /\ At(w, "attach")
    /\ order' = [order EXCEPT ![o].session = TRUE,
                              ![o].status = StatusWithSession(order[o].status)]
    /\ Done(w)
    /\ UNCHANGED <<binding, event, provider>>

(***************************************************************************)
(* _reconcile_expiry: two provider calls at most, then the transaction.    *)
(* Called for an event, it returns to the event, which is then fulfilled.  *)
(***************************************************************************)
Return(w) == IF server[w].event = None THEN Done(w) ELSE Goto(w, "finish")

\* Variant: the expired session is taken to have settled the matter.
CanceledOrExpired(o) == TRUE

\* An expanded canceled intent is authoritative.
CanceledOrNone(o) == provider[o].intent \in {"none", "canceled"}

Retrieve(w) ==
    LET o == server[w].order IN
    /\ At(w, "retrieve")
    /\ \/ /\ server[w].session /\ provider[o].session = "open"
          /\ Goto(w, "expire")
       \/ /\ server[w].session /\ provider[o].session = "expired"
          /\ Goto(w, IF CanceledOrNone(o) THEN "close" ELSE "cancel")
       \/ Return(w)  \* complete, no stored session, or the call failed
    /\ UNCHANGED <<db, provider>>

\* The answer to the expiry does not expand an intent: if there is one, nothing
\* is decided until it has been canceled, on a later call.
ExpireSession(w) ==
    LET o == server[w].order IN
    /\ At(w, "expire")
    /\ \/ /\ Expirable(o)
          /\ provider' = [provider EXCEPT ![o].session = "expired"]
          /\ \/ provider[o].intent = "none" /\ Goto(w, "close")
             \/ Return(w)
       \/ UNCHANGED provider /\ Return(w)
    /\ UNCHANGED db

CancelIntent(w) ==
    LET o == server[w].order IN
    /\ At(w, "cancel")
    /\ \/ /\ provider[o].intent \in {"unpaid", "canceled"}
          /\ provider' = [provider EXCEPT ![o].intent = "canceled"]
          /\ Goto(w, "close") \/ Return(w)
       \/ UNCHANGED provider /\ Return(w)
    /\ UNCHANGED db

StillOpen(o) == order[o].status = "open"

CloseOrder(w) ==
    LET o == server[w].order IN
    /\ At(w, "close")
    /\ order' = IF StillOpen(o) THEN [order EXCEPT ![o].status = "expired"] ELSE order
    /\ Return(w)
    /\ UNCHANGED <<binding, event, provider>>

\* The process dies, or an exception ends the request.
Crash(w) ==
    /\ ~At(w, "idle")
    /\ Done(w)
    /\ UNCHANGED <<db, provider>>

CheckoutStep(w) ==
    \/ Abandon(w) \/ Create(w) \/ Attach(w)
    \/ Retrieve(w) \/ ExpireSession(w) \/ CancelIntent(w) \/ CloseOrder(w)
=============================================================================
