---------------------------- MODULE DatasetPipeline ----------------------------
(***************************************************************************)
(* From a payment to the sections of its dataset.                          *)
(***************************************************************************)
EXTENDS DatasetLanes

Next ==
    \/ CreateRequest \/ AssignSnapshot \/ Revoke
    \/ \E p \in Payments : Reconcile(p)
    \/ \E w \in Workers : Consuming(w) \/ Crash(w)
    \/ \E m \in Messages : Duplicate(m)

Spec == Init /\ [][Next]_vars

(***************************************************************************)
(* Fairness: consumers are loops that get on with what they do.  None for  *)
(* the reconciler: a pass takes the pending events in order and ends where *)
(* one of them raises, so it need not come to the later ones.              *)
(***************************************************************************)
FairSpec ==
    /\ Spec
    /\ \A w \in Workers : WF_vars(Consuming(w))

(***************************************************************************)
(* Safety.                                                                 *)
(***************************************************************************)
\* Of the payments made for a request one is fulfilled, the one that holds the
\* entitlement; the others are reported failed, in whatever order and however often
\* the reconciler runs (payment_reconciliation.py:287-338).
OnePaymentFulfilled ==
    \A p \in Payments : payment[p] = "fulfilled" => entitlement.payment = p

\* The sections published, each with the snapshot it is of.
Jobs == {j \in Sections \X Snapshots : j[2] \in published[j[1]]}

\* The first revision and one for each section and snapshot it was published for:
\* redelivery makes no other ("Re-delivery must not create duplicate jobs",
\* docs/architecture/contracts.md:288).
OneRevisionPerJob ==
    revision.number =
        IF revision.number = 0 THEN 0
        ELSE 1 + Cardinality(Jobs)

\* Beyond single states: one payment is ever taken, access opens with it and closes for
\* good, and editions are made only while it is open, one part each, of which none
\* is dropped (payment_reconciliation.py:287-338, publisher.py:148-365).
Customer == INSTANCE PaidDataset WITH
    Parts <- Sections \X Snapshots,
    buyer <- entitlement.payment,
    access <- entitlement.status,
    taken <- {p \in Payments : payment[p] = "fulfilled"},
    edition <- revision.number,
    parts <- Jobs

DeliversWhatWasPaid == Customer!Promise

\* The message is to be delivered, now or again, or it is among the dead letters.
Open(m) == message[m].status \in {"queued", "dead"}

\* What was paid for is never stuck without a message: a paid request that has no
\* dataset yet, a dataset whose sections are not scheduled and a section that is not
\* published each have an open message that asks for them, whoever crashed between a
\* handler and its acknowledgement or handled the message twice (consumer.py,
\* viewable_consumer.py:60-89, deep_consumer.py:87).
NothingIsLost ==
    /\ \A p \in Payments :
        payment[p] = "fulfilled" /\ request.status = "fast_lane_processing" =>
            \E s \in Snapshots : Open(Fast(s))
    /\ revision.number > 0 => Open(Viewable) \/ \A d \in Sections : section[d] # "absent"
    /\ \A d \in Sections : section[d] = "pending" => \E s \in Snapshots : Open(Deep(d, s))

\* What customers read stays: later jobs, failures and second fast jobs drop no
\* section of a revision and take no published dataset back to processing or review
\* ("a failure in one section must not change the already-published viewable
\* revision", contracts.md:288).
PublishedStays ==
    [][/\ revision.number <= revision'.number /\ revision.sections \subseteq revision'.sections
       /\ revision.number > 0 =>
            request'.status \in {"viewable", "enriching", "revoked"}]_vars

\* Once revoked a dataset gets no revision, section or request of work any more,
\* from handlers that were running as well ("Revoked requests or entitlements are
\* never reactivated by replay").
RevokedStaysClosed ==
    [][request.status = "revoked" =>
        /\ UNCHANGED <<request, content>>
        /\ \A m \in Messages \ {Revocation} :
            message[m].status = "absent" => message'[m].status = "absent"]_vars

(***************************************************************************)
(* Liveness.                                                               *)
(***************************************************************************)
\* A payment that is fulfilled gets its dataset, or a review of it, or an entry among the
\* dead letters, unless the dataset is revoked (payment_reconciliation.py:287-338,
\* consumer.py).
PaidIsServed ==
    \A p \in Payments :
        payment[p] = "fulfilled" ~>
            \/ request.status \in {"needs_review", "viewable", "enriching", "revoked"}
            \/ \E s \in Snapshots : message[Fast(s)].status = "dead"

\* A section that was scheduled is published, or its request is among the dead
\* letters, unless the dataset is revoked.
SectionIsSettled ==
    \A d \in Sections :
        section[d] = "pending" ~>
            \/ section[d] = "complete" \/ request.status = "revoked"
            \/ \E s \in Snapshots : message[Deep(d, s)].status = "dead"
=============================================================================
