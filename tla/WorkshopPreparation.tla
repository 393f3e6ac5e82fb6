-------------------------- MODULE WorkshopPreparation --------------------------
(***************************************************************************)
(* Preparation of the library a paid order bought: passes of the           *)
(* reconciler lease paid orders, have the catalog scheduler ensure the     *)
(* index of the order's configuration, and acknowledge what it answered.   *)
(* Lease, schedule and acknowledgement are three transactions; orders are  *)
(* paid and revoked, and other passes take over expired leases, between    *)
(* them.  The orders are of one configuration, whose index is the catalog  *)
(* scope of CatalogCoverage; their payment is what PurchaseOnce promises.  *)
(***************************************************************************)
EXTENDS CatalogCoverage

CONSTANTS
    Orders,  \* orders of the configuration, each of an account of its own
    Passes,  \* processes running reconciliation passes
    None

ASSUME PreparationAssumption == None \notin Orders \cup Passes

VARIABLES
    charges, access,  \* PurchaseOnce: an order is paid while access is granted
    preparation,      \* preparation_state and preparation_lease_owner of each order
    pass              \* local state of each pass

vars == <<charges, access, preparation, pass, catalog>>

Sale == INSTANCE PurchaseOnce WITH Scopes <- Orders, Receipts <- Orders

PreparationState == {"pending", "index_queued", "index_ready", "retry", "blocked"}

PassRow == [pc : {"idle", "schedule", "acknowledge"}, batch : SUBSET Orders,
            order : Orders \cup {None}, found : PreparationState]

TypeOK ==
    /\ CatalogTypeOK
    /\ charges \in [Orders -> SUBSET Orders]
    /\ access \in [Orders -> {"none", "granted", "closed"}]
    /\ preparation \in [Orders -> [state : PreparationState, owner : Passes \cup {None}]]
    /\ pass \in [Passes -> PassRow]

IdlePass == [pc |-> "idle", batch |-> {}, order |-> None, found |-> "pending"]

Init ==
    /\ CatalogInit /\ Sale!Unsold
    /\ preparation = [o \in Orders |-> [state |-> "pending", owner |-> None]]
    /\ pass = [q \in Passes |-> IdlePass]

Paid(o) == access[o] = "granted"

Sell ==
    /\ Sale!PurchaseNext
    /\ UNCHANGED <<preparation, pass, catalog>>

Due(o) == Paid(o) /\ preparation[o].state # "index_ready"

\* The lease of a batch.  A lease that is held may have run out: it covers the whole
\* batch from the moment the pass read its clock.
Lease(q) ==
    /\ pass[q].pc = "idle"
    /\ \E batch \in SUBSET {o \in Orders : Due(o)} :
        /\ batch # {}
        /\ preparation' = [o \in Orders |->
                IF o \in batch THEN [preparation[o] EXCEPT !.owner = q] ELSE preparation[o]]
        /\ pass' = [pass EXCEPT ![q] = [IdlePass EXCEPT !.pc = "schedule", !.batch = batch]]
    /\ UNCHANGED <<charges, access, catalog>>

\* Variant: the scheduler's word for a finished index is stored as it is.
AcknowledgedAsAnswered(rows) ==
    CASE \E p \in Providers : JobActive(rows[p]) -> "index_queued"
      [] \A p \in Providers : rows[p].job = "completed" -> "completed"
      [] OTHER -> "blocked"

\* Variant: a scheduler that finds nothing to do reports the index ready.
ReadyUnlessActive(rows) ==
    IF \E p \in Providers : JobActive(rows[p]) THEN "index_queued" ELSE "index_ready"

\* The state of the scheduler's acknowledgement, from the rows of its transaction.
Acknowledged(rows) ==
    CASE \E p \in Providers : JobActive(rows[p]) -> "index_queued"
      [] \A p \in Providers : rows[p].job = "completed" -> "index_ready"
      [] OTHER -> "blocked"

\* The scheduler commits and answers, or its answer is lost or it fails before.
Schedule(q) ==
    /\ pass[q].pc = "schedule"
    /\ \E o \in pass[q].batch :
        LET answered(state) ==
            pass' = [pass EXCEPT ![q] = [pc |-> "acknowledge", batch |-> pass[q].batch \ {o},
                                         order |-> o, found |-> state]]
        IN
        \/ Ensure /\ answered(Acknowledged(Ensured))
        \/ Ensure /\ answered("retry")
        \/ UNCHANGED catalog /\ answered("retry")
    /\ UNCHANGED <<charges, access, preparation>>

\* Variant: the acknowledgement is written whoever holds the lease by now.
OwnsAny(q, o) == TRUE

Owns(q, o) == preparation[o].owner = q

Acknowledge(q) ==
    LET o == pass[q].order IN
    /\ pass[q].pc = "acknowledge"
    /\ preparation' = IF Owns(q, o) /\ Paid(o)
                      THEN [preparation EXCEPT ![o] = [state |-> pass[q].found, owner |-> None]]
                      ELSE preparation
    /\ pass' = [pass EXCEPT ![q] =
                    IF pass[q].batch = {} THEN IdlePass
                    ELSE [@ EXCEPT !.pc = "schedule", !.order = None, !.found = "pending"]]
    /\ UNCHANGED <<charges, access, catalog>>

PassStops(q) ==
    /\ pass[q].pc # "idle"
    /\ pass' = [pass EXCEPT ![q] = IdlePass]
    /\ UNCHANGED <<charges, access, preparation, catalog>>

Reconciling(q) == Lease(q) \/ Schedule(q) \/ Acknowledge(q)

CatalogWork == CatalogNext /\ UNCHANGED <<charges, access, preparation, pass>>

Next == Sell \/ CatalogWork \/ \E q \in Passes : Reconciling(q) \/ PassStops(q)

Spec == Init /\ [][Next]_vars

(***************************************************************************)
(* What the customer of a paid order sees.                                 *)
(***************************************************************************)
\* A library reported ready has been indexed completely at least once, whatever
\* passes, refreshes and failed jobs came between (commerce_service.py:616-641).
ReadyIsIndexed ==
    \A o \in Orders : preparation[o].state = "index_ready" =>
        \A p \in Providers : scope[p].completed # Null

\* A pass that lost its lease while it was waiting for the scheduler takes nothing
\* back that a later pass acknowledged, and a revoked order stays as it was
\* (commerce_service.py:634-641).
ReadyNotTakenBack ==
    [][\A o \in Orders :
        preparation[o].state = "index_ready" \/ access[o] = "closed" =>
            preparation'[o].state = preparation[o].state]_vars
=============================================================================
