---------------------------- MODULE DatasetPayments ----------------------------
(***************************************************************************)
(* The request API, payment reconciliation and revocation.  Each is one    *)
(* transaction.  A pass of the reconciler lists the pending events in a    *)
(* transaction of its own and two passes may overlap, so an event that has *)
(* been fulfilled meanwhile can be reconciled again.                       *)
(***************************************************************************)
EXTENDS DatasetState

\* postgresRequestStore.Create.
CreateRequest ==
    /\ request.status = "absent"
    /\ request' = [request EXCEPT !.status = "fast_lane_processing"]
    /\ UNCHANGED <<payment, entitlement, content, message, worker, faults>>

\* The snapshot a request starts from is given to it from outside.
AssignSnapshot ==
    /\ request.status = "fast_lane_processing" /\ request.snapshot = None
    /\ \E s \in Snapshots : request' = [request EXCEPT !.snapshot = s]
    /\ UNCHANGED <<payment, entitlement, content, message, worker, faults>>

\* Variant: a second payment of the request is not told from the first.
RefusedUnlessOpen(p) == p \in Misdirected \/ request.status = "revoked"

\* The checks of an event whose request is there.
Refused(p) ==
    \/ p \in Misdirected \/ request.status = "revoked"
    \/ entitlement.payment \notin {None, p}
    \/ entitlement.status = "revoked"

Wait(p) ==
    /\ request.status = "absent"
    /\ payment' = [payment EXCEPT ![p] = "pending"]
    /\ UNCHANGED <<entitlement, message>>

Refuse(p) ==
    /\ request.status # "absent" /\ Refused(p)
    /\ payment' = [payment EXCEPT ![p] = "failed"]
    /\ UNCHANGED <<entitlement, message>>

\* Access is granted at once; the fast lane is asked once there is a snapshot.
Fulfil(p) ==
    /\ request.status # "absent" /\ ~Refused(p)
    /\ entitlement' = [status |-> "active", payment |-> p]
    /\ payment' = [payment EXCEPT ![p] = IF request.snapshot = None THEN "pending" ELSE "fulfilled"]
    /\ message' = IF request.snapshot = None THEN message ELSE Emitted({Fast(request.snapshot)})

\* reconcile_payment_event, of a new event or of one known already.
Reconcile(p) ==
    /\ Wait(p) \/ Refuse(p) \/ Fulfil(p)
    /\ UNCHANGED <<request, content, worker, faults>>

\* revoke_entitlement.
Revoke ==
    /\ entitlement.status # "none"
    /\ entitlement' = [entitlement EXCEPT !.status = "revoked"]
    /\ request' = [request EXCEPT !.status = "revoked"]
    /\ message' = Emitted({Revocation})
    /\ UNCHANGED <<payment, content, worker, faults>>
=============================================================================
