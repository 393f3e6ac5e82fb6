------------------------------ MODULE DatasetState ------------------------------
(***************************************************************************)
(* One dataset request of the legacy dataset pipeline: the payments made   *)
(* for it, the entitlement and projection they open, the revisions and     *)
(* sections of the projection, and the events that drive the workers.      *)
(*                                                                         *)
(* An event is an outbox row until the relay has delivered it; from then   *)
(* on it is a JetStream message, redelivered until it is acknowledged      *)
(* (the relay is the module Outbox, and may send a row more than once).    *)
(* Payments are of the organization that made the request.                 *)
(***************************************************************************)
EXTENDS Naturals, FiniteSets

CONSTANTS
    Payments,       \* provider events of checkouts of this request
    Misdirected,    \* those that paid for another product
    Snapshots,      \* source snapshots
    Sections,       \* sections the deep lane publishes
    Workers,        \* consumer processes
    MaxDeliveries,  \* deliveries of a message before it is dead-lettered
    MaxFaults,      \* bound: crashes and duplicated messages
    None

ASSUME DatasetAssumption ==
    /\ Misdirected \subseteq Payments
    /\ MaxDeliveries \in Nat \ {0} /\ MaxFaults \in Nat
    /\ None \notin Payments \cup Snapshots \cup Sections

VARIABLES
    payment,      \* fulfillment_status of each payment event
    request,      \* dataset_requests
    entitlement,  \* entitlements, with the projection
    job,          \* fast jobs completed, by the snapshot that keys them
    revision,     \* the latest dataset_revisions row
    section,      \* dataset_section_status of the deep sections
    published,    \* snapshots a section was published for
    message,      \* publication_events and their deliveries
    worker,       \* local state of each consumer process
    faults        \* crashes and duplications so far

vars == <<payment, request, entitlement, job, revision, section, published, message, worker, faults>>
access == <<payment, request, entitlement>>
content == <<job, revision, section, published>>

Fast(s) == [kind |-> "fast", section |-> None, snapshot |-> s]
Viewable == [kind |-> "viewable", section |-> None, snapshot |-> None]
Deep(d, s) == [kind |-> "deep", section |-> d, snapshot |-> s]
Revocation == [kind |-> "revoked", section |-> None, snapshot |-> None]

Messages ==
    {Fast(s) : s \in Snapshots} \cup {Viewable, Revocation}
        \cup {Deep(d, s) : d \in Sections, s \in Snapshots}

MessageRow == [status : {"absent", "queued", "done", "dead"}, deliveries : 0 .. MaxDeliveries]

WorkerRow == [pc : {"idle", "handle", "publish", "acknowledge", "error"},
              message : Messages \cup {None}, last : BOOLEAN]

\* No running code completes a request: it stays enriching.
TypeOK ==
    /\ payment \in [Payments -> {"absent", "pending", "fulfilled", "failed"}]
    /\ request \in [status : {"absent", "fast_lane_processing", "needs_review", "viewable",
                              "enriching", "revoked"}, snapshot : Snapshots \cup {None}]
    /\ entitlement \in [status : {"none", "active", "revoked"}, payment : Payments \cup {None}]
    /\ job \subseteq Snapshots
    /\ revision \in [number : Nat, sections : SUBSET Sections]
    /\ section \in [Sections -> {"absent", "pending", "complete"}]
    /\ published \in [Sections -> SUBSET Snapshots]
    /\ message \in [Messages -> MessageRow]
    /\ worker \in [Workers -> WorkerRow]
    /\ faults \in 0 .. MaxFaults

Idle == [pc |-> "idle", message |-> None, last |-> FALSE]

Init ==
    /\ payment = [p \in Payments |-> "absent"]
    /\ request = [status |-> "absent", snapshot |-> None]
    /\ entitlement = [status |-> "none", payment |-> None]
    /\ job = {}
    /\ revision = [number |-> 0, sections |-> {}]
    /\ section = [d \in Sections |-> "absent"]
    /\ published = [d \in Sections |-> {}]
    /\ message = [m \in Messages |-> [status |-> "absent", deliveries |-> 0]]
    /\ worker = [w \in Workers |-> Idle]
    /\ faults = 0

\* An insert into publication_events, idempotent by key.
Emitted(new) ==
    [m \in Messages |->
        IF m \in new /\ message[m].status = "absent"
        THEN [message[m] EXCEPT !.status = "queued"] ELSE message[m]]

Entitled == request.status # "revoked" /\ entitlement.status = "active"
=============================================================================
