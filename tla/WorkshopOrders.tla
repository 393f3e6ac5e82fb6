---------------------------- MODULE WorkshopOrders ----------------------------
(***************************************************************************)
(* The rows of the paid Workshop (workshop_orders, their entitlements,     *)
(* workshop_checkout_requests, the workshop rows of payment_events), what  *)
(* Stripe holds of each order, and the local state of the server processes *)
(* that handle checkouts, order polls, webhooks and reconciled events.     *)
(*                                                                         *)
(* A scope is an account, a configuration and a region.  An order carries  *)
(* its own provider idempotency key, so Stripe holds at most one session   *)
(* of it, and the order names the session and its payment intent.  Time is *)
(* the age of an order: 0 while its session may be created and paid, 1     *)
(* once the session's hour is over, 2 from the 23rd hour on.               *)
(***************************************************************************)
EXTENDS Naturals, FiniteSets

CONSTANTS
    Scopes,   \* what is sold once to an account
    Orders,   \* identities workshop_orders rows may take
    Keys,     \* client idempotency keys
    Kinds,    \* kinds of provider events
    Servers,  \* processes handling requests
    None

EventKinds == {"completed", "succeeded", "expired", "revoking", "harmless"}

ASSUME OrdersAssumption ==
    /\ Kinds \subseteq EventKinds /\ "completed" \in Kinds
    /\ None \notin Scopes \cup Orders \cup EventKinds

VARIABLES
    order,     \* workshop_orders, each with its entitlement
    binding,   \* workshop_checkout_requests: the order of a client key
    event,     \* payment_events of each order, by kind
    provider,  \* Stripe: the session and the payment intent of each order
    server     \* local state of each server process

db == <<order, binding, event>>
vars == <<order, binding, event, provider, server>>

Status == {"absent", "creating", "open", "paid", "expired", "reconciliation_required", "revoked"}

OrderRow == [scope : Scopes \cup {None}, status : Status, session : BOOLEAN, age : 0 .. 2,
             entitlement : {"none", "active", "revoked"}]

EventStatus == {"absent", "pending", "fulfilled", "failed"}

ProviderRow == [session : {"none", "open", "complete", "expired"},
                intent : {"none", "unpaid", "succeeded", "canceled"}, refunded : BOOLEAN]

\* event is the kind being reconciled, None in a checkout or a poll; session says
\* whether the order, as the process read it, had a session stored.
ServerRow == [pc : {"idle", "abandon", "create", "attach", "retrieve", "expire", "cancel",
                    "close", "settle", "intent", "quarantine", "finish"},
              order : Orders \cup {None}, event : Kinds \cup {None}, session : BOOLEAN]

TypeOK ==
    /\ order \in [Orders -> OrderRow]
    /\ binding \in [Keys -> Orders \cup {None}]
    /\ event \in [Orders -> [Kinds -> EventStatus]]
    /\ provider \in [Orders -> ProviderRow]
    /\ server \in [Servers -> ServerRow]

NoOrder == [scope |-> None, status |-> "absent", session |-> FALSE, age |-> 0,
            entitlement |-> "none"]

Idle == [pc |-> "idle", order |-> None, event |-> None, session |-> FALSE]

Init ==
    /\ order = [o \in Orders |-> NoOrder]
    /\ binding = [k \in Keys |-> None]
    /\ event = [o \in Orders |-> [k \in Kinds |-> "absent"]]
    /\ provider = [o \in Orders |-> [session |-> "none", intent |-> "none", refunded |-> FALSE]]
    /\ server = [w \in Servers |-> Idle]

\* Variant: an order that waits for reconciliation does not hold its scope.
LiveUnlessAbandoned(o) == order[o].status \in {"creating", "open", "paid"}

\* LIVE and the predicate of workshop_orders_live_scope_idx.
Live(o) == order[o].status \in {"creating", "open", "paid", "reconciliation_required"}

InScope(s) == {o \in Orders : order[o].scope = s}

At(w, pc) == server[w].pc = pc

Goto(w, pc) == server' = [server EXCEPT ![w].pc = pc]

Done(w) == server' = [server EXCEPT ![w] = Idle]

(***************************************************************************)
(* Stripe, as the adapter uses it.  A payment needs an open session to     *)
(* begin; the code never infers from the clock that an intent begun in     *)
(* time can no longer succeed, and neither does the model.                 *)
(***************************************************************************)
BeginPayment(o) ==
    /\ provider[o].session = "open" /\ provider[o].intent = "none"
    /\ provider' = [provider EXCEPT ![o].intent = "unpaid"]

Charge(o) ==
    /\ provider[o].intent = "unpaid"
    /\ provider' = [provider EXCEPT ![o].intent = "succeeded"]

CompleteSession(o) ==
    /\ provider[o].session = "open" /\ provider[o].intent = "succeeded"
    /\ provider' = [provider EXCEPT ![o].session = "complete"]

\* An open session whose payment has not gone through may lapse or be expired.
Expirable(o) == provider[o].session = "open" /\ provider[o].intent # "succeeded"

LapseSession(o) ==
    /\ order[o].age > 0 /\ Expirable(o)
    /\ provider' = [provider EXCEPT ![o].session = "expired"]

\* A full refund, or a dispute that is lost.
Refund(o) ==
    /\ provider[o].intent = "succeeded" /\ ~provider[o].refunded
    /\ provider' = [provider EXCEPT ![o].refunded = TRUE]

\* The facts Stripe sends signed events about; a partial refund or a dispute that
\* is won is harmless.
Emitted(o, k) ==
    \/ k = "completed" /\ provider[o].session = "complete"
    \/ k = "expired" /\ provider[o].session = "expired"
    \/ k \in {"succeeded", "harmless"} /\ provider[o].intent = "succeeded"
    \/ k = "revoking" /\ provider[o].refunded

Outside(o) ==
    /\ BeginPayment(o) \/ Charge(o) \/ CompleteSession(o) \/ LapseSession(o) \/ Refund(o)
    /\ UNCHANGED <<db, server>>

Tick(o) ==
    /\ order[o].status # "absent" /\ order[o].age < 2
    /\ order' = [order EXCEPT ![o].age = @ + 1]
    /\ UNCHANGED <<binding, event, provider, server>>
=============================================================================
