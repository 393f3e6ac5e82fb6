------------------------------ MODULE DatasetLanes ------------------------------
(***************************************************************************)
(* The consumers of the dataset events: the fast lane that publishes the   *)
(* first revision, the fan-out of a viewable dataset into section          *)
(* requests, and the deep lane that publishes each section as a revision   *)
(* of its own.  A consumer acknowledges a message after its handler's      *)
(* transaction; a message that is not acknowledged in time is delivered    *)
(* again, to another process as well, while the first still handles it.    *)
(***************************************************************************)
EXTENDS DatasetPayments

Handling(w, kind, pc) == worker[w].pc = pc /\ worker[w].message.kind = kind

Step(w, pc) == worker' = [worker EXCEPT ![w].pc = pc]

\* Variant: the message is acknowledged as it is fetched.
AcknowledgedFirst(row) == "done"

StatusWhenFetched(row) == row.status

\* fetch: last says that this delivery is not retried when its handler fails.
Deliver(w, m) ==
    LET n == IF message[m].deliveries = MaxDeliveries THEN MaxDeliveries
             ELSE message[m].deliveries + 1
    IN
    /\ worker[w].pc = "idle" /\ message[m].status = "queued" /\ m # Revocation
    /\ message' = [message EXCEPT ![m] = [status |-> StatusWhenFetched(message[m]), deliveries |-> n]]
    /\ worker' = [worker EXCEPT ![w] =
                    [pc |-> "handle", message |-> m, last |-> n = MaxDeliveries]]
    /\ UNCHANGED <<access, content, faults>>

\* A handler raises; an invalid request, or one nobody can handle, is not retried.
Fail(w) ==
    /\ worker[w].pc \in {"handle", "publish"}
    /\ \E invalid \in BOOLEAN :
        worker' = [worker EXCEPT ![w] = [@ EXCEPT !.pc = "error", !.last = @ \/ invalid]]
    /\ UNCHANGED <<access, content, message, faults>>

\* The acknowledgement of a delivery counts unless an earlier one did.
Ended(m, status) ==
    message' = IF message[m].status = "queued"
               THEN [message EXCEPT ![m] = [status |-> status, deliveries |-> 0]] ELSE message

Acknowledge(w) ==
    /\ worker[w].pc = "acknowledge"
    /\ Ended(worker[w].message, "done")
    /\ worker' = [worker EXCEPT ![w] = Idle]
    /\ UNCHANGED <<access, content, faults>>

\* Dead-lettered and acknowledged, or handed back for a later delivery.
Reject(w) ==
    /\ worker[w].pc = "error"
    /\ IF worker[w].last THEN Ended(worker[w].message, "dead") ELSE UNCHANGED message
    /\ worker' = [worker EXCEPT ![w] = Idle]
    /\ UNCHANGED <<access, content, faults>>

Crash(w) ==
    /\ worker[w].pc # "idle" /\ faults < MaxFaults
    /\ faults' = faults + 1
    /\ worker' = [worker EXCEPT ![w] = Idle]
    /\ UNCHANGED <<access, content, message>>

\* The relay sends a row again that the stream no longer recognizes.
Duplicate(m) ==
    /\ message[m].status \in {"done", "dead"} /\ faults < MaxFaults
    /\ faults' = faults + 1
    /\ message' = [message EXCEPT ![m] = [status |-> "queued", deliveries |-> 0]]
    /\ UNCHANGED <<access, content, worker>>

(***************************************************************************)
(* The fast lane: the source is fetched, and may have changed since the    *)
(* request named its snapshot; everything is stored in one transaction.    *)
(***************************************************************************)
\* Variant: a dataset whose source is not ready goes to review whatever it is.
ReviewAlways(status) == "needs_review"

StatusNotReady(status) == IF status = "fast_lane_processing" THEN "needs_review" ELSE status

StoreForReview(s) ==
    /\ request' = [status |-> StatusNotReady(request.status), snapshot |-> s]
    /\ UNCHANGED <<revision, message>>

\* Variant: a second fast job publishes a revision of its own.
NextFastRevision == [revision EXCEPT !.number = @ + 1]

\* Revision 1 is inserted once.
FastRevision == IF revision.number = 0 THEN [revision EXCEPT !.number = 1] ELSE revision

StoreViewable(s) ==
    /\ revision' = FastRevision
    /\ request' = [status |-> "viewable", snapshot |-> s]
    /\ message' = Emitted({Viewable})

\* publish_fast_lane_revision; a job completed by an earlier delivery is left alone.
HandleFast(w) ==
    LET key == worker[w].message.snapshot IN
    /\ Handling(w, "fast", "handle") /\ Entitled
    /\ \/ key \in job /\ UNCHANGED <<request, revision, job, message>>
       \/ /\ key \notin job /\ job' = job \cup {key}
          /\ \E s \in Snapshots : StoreForReview(s) \/ StoreViewable(s)
    /\ Step(w, "acknowledge")
    /\ UNCHANGED <<payment, entitlement, section, published, faults>>

(***************************************************************************)
(* Fan-out and the deep lane.                                              *)
(***************************************************************************)
Enrichable == request.status \in {"viewable", "enriching", "needs_review"}

\* schedule_deep_sections.
HandleViewable(w) ==
    /\ Handling(w, "viewable", "handle") /\ Entitled /\ Enrichable
    /\ section' = [d \in Sections |-> IF section[d] = "complete" THEN "complete" ELSE "pending"]
    /\ message' = Emitted({Deep(d, request.snapshot) : d \in Sections})
    /\ request' = [request EXCEPT !.status = IF @ = "viewable" THEN "enriching" ELSE @]
    /\ Step(w, "acknowledge")
    /\ UNCHANGED <<payment, entitlement, job, revision, published, faults>>

\* load_approved_source_evidence, a transaction of its own: there is evidence of the
\* message's snapshot only while the request is on it.
LoadEvidence(w) ==
    /\ Handling(w, "deep", "handle") /\ Entitled
    /\ request.snapshot = worker[w].message.snapshot
    /\ Step(w, "publish")
    /\ UNCHANGED <<access, content, message, faults>>

\* Variant: the dataset was entitled when its evidence was loaded.
EntitledWhenLoaded == TRUE

EntitledNow == Entitled /\ Enrichable

\* Variant: a section that is published completes the request.
CompleteWithSection(status) == "complete"

StatusWithSection(status) == IF status \in {"viewable", "needs_review"} THEN "enriching" ELSE status

\* publish_deep_section: the job is of the snapshot the request is on by now.
PublishSection(w) ==
    LET d == worker[w].message.section
        s == request.snapshot
    IN
    /\ Handling(w, "deep", "publish") /\ EntitledNow
    /\ IF s \in published[d]
       THEN UNCHANGED <<request, revision, section, published>>
       ELSE /\ published' = [published EXCEPT ![d] = @ \cup {s}]
            /\ revision' = [number |-> revision.number + 1, sections |-> revision.sections \cup {d}]
            /\ section' = [section EXCEPT ![d] = "complete"]
            /\ request' = [request EXCEPT !.status = StatusWithSection(@)]
    /\ Step(w, "acknowledge")
    /\ UNCHANGED <<payment, entitlement, job, message, faults>>

Consuming(w) ==
    \/ \E m \in Messages : Deliver(w, m)
    \/ HandleFast(w) \/ HandleViewable(w) \/ LoadEvidence(w) \/ PublishSection(w)
    \/ Fail(w) \/ Acknowledge(w) \/ Reject(w)
=============================================================================
