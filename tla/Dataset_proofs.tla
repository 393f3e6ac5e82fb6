---------------------------- MODULE Dataset_proofs ----------------------------
(***************************************************************************)
(* Proofs about the dataset pipeline, for any number of payments,          *)
(* snapshots, sections and consumers, and any bounds.                      *)
(*                                                                         *)
(* The argument.  A message that was sent is never unsent and a section    *)
(* that was scheduled stays scheduled, so what a consumer at its           *)
(* acknowledgement has done cannot be undone meanwhile.  Sections are      *)
(* requested only of a dataset that has a revision, and a dataset with a   *)
(* revision is viewable, enriching or revoked: a second fast job finds     *)
(* nothing it could send to review.  What a message asks for is there      *)
(* before it is done (Served), and what is there was asked for.            *)
(***************************************************************************)
EXTENDS DatasetPipeline, FiniteSetTheorems, TLAPS

\* What a message is about is there before it is sent.
MessageInv ==
    /\ \A m \in Messages :
        m.kind \in {"viewable", "deep"} /\ message[m].status # "absent" => revision.number > 0
    /\ message[Viewable].status = "done" => \A d \in Sections : section[d] # "absent"

\* A consumer handles a message that was sent, and acknowledges the fan-out it did.
Handles(row) ==
    /\ row.message \in Messages /\ message[row.message].status # "absent"
    /\ row.pc = "acknowledge" /\ row.message = Viewable =>
            \A d \in Sections : section[d] # "absent"

WorkerInv == \A w \in Workers : worker[w].pc # "idle" => Handles(worker[w])

RequestInv ==
    /\ request.status \in {"viewable", "enriching", "needs_review"} => request.snapshot # None
    /\ revision.number > 0 => request.status \in {"viewable", "enriching", "revoked"}

PaymentInv == \A p \in Payments : payment[p] = "fulfilled" => entitlement.payment = p

RevisionInv ==
    /\ IsFiniteSet(Jobs)
    /\ revision.number = 0 => Jobs = {}
    /\ revision.number > 0 => revision.number = 1 + Cardinality(Jobs)

IInv == TypeOK /\ MessageInv /\ WorkerInv /\ RequestInv /\ PaymentInv /\ RevisionInv

\* What a step never undoes.
Kept ==
    /\ \A m \in Messages : message[m].status # "absent" => message'[m].status # "absent"
    /\ \A d \in Sections : section[d] # "absent" => section'[d] # "absent"
    /\ revision.number <= revision'.number
    /\ revision.sections \subseteq revision'.sections

USE DatasetAssumption

LEMMA InitInv == Init => IInv
<1> SUFFICES ASSUME Init PROVE IInv
  OBVIOUS
<1>1. TypeOK
  BY DEF Init, TypeOK, MessageRow, WorkerRow, Idle
<1>2. Viewable \in Messages
  BY DEF Messages
<1>3. MessageInv /\ WorkerInv /\ RequestInv /\ PaymentInv
  BY <1>2 DEF Init, MessageInv, WorkerInv, RequestInv, PaymentInv, Idle
<1>4. Jobs = {}
  BY DEF Init, Jobs
<1> QED
  BY <1>1, <1>3, <1>4, FS_EmptySet DEF IInv, RevisionInv, Init

(***************************************************************************)
(* Messages and consumers.                                                 *)
(***************************************************************************)
LEMMA MessageKinds ==
    /\ Viewable \in Messages /\ Viewable.kind = "viewable"
    /\ Revocation \in Messages /\ Revocation.kind = "revoked"
    /\ \A s \in Snapshots : Fast(s) \in Messages /\ Fast(s).kind = "fast"
    /\ \A d \in Sections, s \in Snapshots : Deep(d, s) \in Messages /\ Deep(d, s).kind = "deep"
    /\ \A m \in Messages : m.kind = "fast" => m.snapshot \in Snapshots
    /\ \A m \in Messages : m.kind = "deep" => m.section \in Sections
    /\ \A m \in Messages : m.kind = "viewable" => m = Viewable
<1>1. Viewable \in Messages /\ Viewable.kind = "viewable"
  BY DEF Messages, Viewable
<1>2. Revocation \in Messages /\ Revocation.kind = "revoked"
  BY DEF Messages, Revocation
<1>3. \A s \in Snapshots : Fast(s) \in Messages /\ Fast(s).kind = "fast" /\ Fast(s).snapshot = s
  BY DEF Messages, Fast
<1>4. \A d \in Sections, s \in Snapshots :
        Deep(d, s) \in Messages /\ Deep(d, s).kind = "deep" /\ Deep(d, s).section = d
  BY DEF Messages, Deep
<1>5. \A m \in Messages : \/ \E s \in Snapshots : m = Fast(s)
                          \/ m = Viewable \/ m = Revocation
                          \/ \E d \in Sections, s \in Snapshots : m = Deep(d, s)
  BY DEF Messages
<1> QED
  BY <1>1, <1>2, <1>3, <1>4, <1>5

LEMMA EmittedTyped ==
    ASSUME TypeOK, NEW new, message' = Emitted(new)
    PROVE  /\ message' \in [Messages -> MessageRow]
           /\ \A m \in Messages : message[m].status # "absent" => message'[m] = message[m]
           /\ \A m \in Messages : m \notin new => message'[m] = message[m]
           /\ \A m \in Messages : message'[m].status # "done" \/ message'[m] = message[m]
<1>1. \A m \in Messages : message[m] \in MessageRow
  BY DEF TypeOK
<1>2. \A m \in Messages :
        message'[m] = IF m \in new /\ message[m].status = "absent"
                      THEN [message[m] EXCEPT !.status = "queued"] ELSE message[m]
  BY DEF Emitted
<1>3. message' = [m \in Messages |-> message'[m]]
  BY DEF Emitted
<1>4. \A m \in Messages : [message[m] EXCEPT !.status = "queued"] \in MessageRow
  BY <1>1 DEF MessageRow
<1>5. \A m \in Messages : [message[m] EXCEPT !.status = "queued"].status = "queued"
  BY <1>1 DEF MessageRow
<1> QED
  BY <1>1, <1>2, <1>3, <1>4, <1>5

LEMMA WorkerStep ==
    ASSUME WorkerInv, Kept,
           \A v \in Workers :
            worker'[v] = worker[v] \/ worker'[v].pc = "idle" \/ Handles(worker[v])'
    PROVE  WorkerInv'
<1> SUFFICES ASSUME NEW v \in Workers, worker'[v] = worker[v], worker'[v].pc # "idle"
             PROVE  Handles(worker[v])'
  BY DEF WorkerInv
<1>1. Handles(worker[v])
  BY DEF WorkerInv
<1> QED
  BY <1>1 DEF Handles, Kept

LEMMA SameWorkers ==
    ASSUME WorkerInv, Kept, worker' = worker
    PROVE  WorkerInv'
BY DEF WorkerInv, Handles, Kept

LEMMA IdleTyped == Idle \in WorkerRow /\ Idle.pc = "idle"
BY DEF Idle, WorkerRow

LEMMA RowTyped ==
    ASSUME TypeOK, NEW w \in Workers, NEW row \in WorkerRow, worker' = [worker EXCEPT ![w] = row]
    PROVE  /\ worker' \in [Workers -> WorkerRow]
           /\ worker'[w] = row
           /\ \A v \in Workers \ {w} : worker'[v] = worker[v]
BY DEF TypeOK

LEMMA StepTyped ==
    ASSUME TypeOK, NEW w \in Workers, NEW pc \in {"publish", "acknowledge"}, Step(w, pc)
    PROVE  /\ worker' \in [Workers -> WorkerRow]
           /\ worker'[w].pc = pc /\ worker'[w].message = worker[w].message
           /\ \A v \in Workers \ {w} : worker'[v] = worker[v]
<1> DEFINE row == [worker[w] EXCEPT !.pc = pc]
<1>1. worker[w] \in WorkerRow
  BY DEF TypeOK
<1>2. row \in WorkerRow /\ row.pc = pc /\ row.message = worker[w].message
  BY <1>1 DEF WorkerRow
<1>3. worker' = [worker EXCEPT ![w] = row]
  BY DEF Step
<1> HIDE DEF row
<1> QED
  BY <1>2, <1>3, RowTyped

(***************************************************************************)
(* Parts of the invariant a step keeps, by what it leaves alone.           *)
(***************************************************************************)
LEMMA SameRevision ==
    ASSUME RevisionInv, UNCHANGED <<revision, published>>
    PROVE  RevisionInv'
BY DEF RevisionInv, Jobs

LEMMA SameRequest ==
    ASSUME RequestInv, UNCHANGED <<request, revision>>
    PROVE  RequestInv'
BY DEF RequestInv

LEMMA SamePayment ==
    ASSUME PaymentInv, UNCHANGED <<payment, entitlement>>
    PROVE  PaymentInv'
BY DEF PaymentInv

\* Messages of a revision that is there, and none done anew.
LEMMA MessagesSent ==
    ASSUME TypeOK, MessageInv, Kept, NEW new, message' = Emitted(new),
           \A m \in new : m.kind \in {"viewable", "deep"} => revision'.number > 0,
           revision'.number \in Nat
    PROVE  MessageInv'
<1>1. ASSUME NEW m \in Messages, m.kind \in {"viewable", "deep"}, message'[m].status # "absent"
      PROVE  revision'.number > 0
  <2>1. revision.number \in Nat
    BY DEF TypeOK
  <2>2. CASE m \in new
    BY <1>1, <2>2
  <2>3. CASE m \notin new
    BY <1>1, <2>1, <2>3, EmittedTyped DEF MessageInv, Kept
  <2> QED
    BY <2>2, <2>3
<1>2. ASSUME message'[Viewable].status = "done"
      PROVE  \A d \in Sections : section'[d] # "absent"
  <2>1. message'[Viewable] = message[Viewable]
    BY <1>2, EmittedTyped, MessageKinds
  <2> QED
    BY <1>2, <2>1 DEF MessageInv, Kept
<1> QED
  BY <1>1, <1>2 DEF MessageInv

LEMMA SameMessages ==
    ASSUME TypeOK, MessageInv, Kept, message' = message, revision'.number \in Nat
    PROVE  MessageInv'
BY DEF MessageInv, Kept, TypeOK

LEMMA SentKept ==
    ASSUME TypeOK, NEW new, message' = Emitted(new),
           \A d \in Sections : section[d] # "absent" => section'[d] # "absent",
           revision'.number \in Nat, revision.number <= revision'.number,
           revision.sections \subseteq revision'.sections
    PROVE  Kept
BY EmittedTyped DEF Kept

LEMMA NumberTyped ==
    ASSUME TypeOK
    PROVE  revision.number \in Nat /\ revision.number <= revision.number
BY DEF TypeOK

(***************************************************************************)
(* Requests and payments.                                                  *)
(***************************************************************************)
LEMMA CreateStep == IInv /\ CreateRequest => IInv' /\ Kept
<1> SUFFICES ASSUME IInv, CreateRequest PROVE IInv' /\ Kept
  OBVIOUS
<1>1. request' = [request EXCEPT !.status = "fast_lane_processing"]
      /\ UNCHANGED <<payment, entitlement, job, revision, section, published, message, worker, faults>>
      /\ request.status = "absent"
  BY DEF CreateRequest, content
<1>2. TypeOK'
  BY <1>1 DEF IInv, TypeOK
<1>3. Kept
  BY <1>1 DEF Kept, IInv, TypeOK
<1>4. RequestInv'
  BY <1>1 DEF IInv, RequestInv, TypeOK
<1> QED
  BY <1>1, <1>2, <1>3, <1>4, SameRevision, SamePayment, SameWorkers, SameMessages DEF IInv, TypeOK

LEMMA AssignStep == IInv /\ AssignSnapshot => IInv' /\ Kept
<1> SUFFICES ASSUME IInv, AssignSnapshot PROVE IInv' /\ Kept
  OBVIOUS
<1>1. UNCHANGED <<payment, entitlement, job, revision, section, published, message, worker, faults>>
      /\ request.status = "fast_lane_processing"
  BY DEF AssignSnapshot, content
<1>2. PICK s \in Snapshots : request' = [request EXCEPT !.snapshot = s]
  BY DEF AssignSnapshot
<1>3. TypeOK'
  BY <1>1, <1>2 DEF IInv, TypeOK
<1>4. Kept
  BY <1>1 DEF Kept, IInv, TypeOK
<1>5. RequestInv'
  BY <1>1, <1>2 DEF IInv, RequestInv, TypeOK
<1> QED
  BY <1>1, <1>3, <1>4, <1>5, SameRevision, SamePayment, SameWorkers, SameMessages DEF IInv, TypeOK

LEMMA RevokeStep == IInv /\ Revoke => IInv' /\ Kept
<1> SUFFICES ASSUME IInv, Revoke PROVE IInv' /\ Kept
  OBVIOUS
<1>1. /\ entitlement' = [entitlement EXCEPT !.status = "revoked"]
      /\ request' = [request EXCEPT !.status = "revoked"]
      /\ message' = Emitted({Revocation})
      /\ UNCHANGED <<payment, job, revision, section, published, worker, faults>>
  BY DEF Revoke, content
<1>0. TypeOK /\ revision.number \in Nat /\ revision.number <= revision.number
  BY NumberTyped DEF IInv
<1>2. TypeOK'
  <2>1. message' \in [Messages -> MessageRow]
    BY <1>0, <1>1, EmittedTyped
  <2> QED
    BY <1>1, <2>1 DEF IInv, TypeOK
<1>3. Kept
  BY <1>0, <1>1, SentKept
<1>4. RequestInv' /\ PaymentInv'
  BY <1>1 DEF IInv, RequestInv, PaymentInv, TypeOK
<1>5. MessageInv'
  BY <1>1, <1>3, MessageKinds, MessagesSent DEF IInv, TypeOK
<1> QED
  BY <1>1, <1>2, <1>3, <1>4, <1>5, SameRevision, SameWorkers DEF IInv

LEMMA ReconcileStep == ASSUME NEW p \in Payments PROVE IInv /\ Reconcile(p) => IInv' /\ Kept
<1> SUFFICES ASSUME IInv, Reconcile(p) PROVE IInv' /\ Kept
  OBVIOUS
<1>1. UNCHANGED <<request, job, revision, section, published, worker, faults>>
  BY DEF Reconcile, content
<1>2. RequestInv' /\ RevisionInv'
  BY <1>1, SameRevision, SameRequest DEF IInv
<1>3. CASE UNCHANGED <<entitlement, message>>
           /\ \E status \in {"pending", "failed"} : payment' = [payment EXCEPT ![p] = status]
  <2>1. TypeOK'
    BY <1>1, <1>3 DEF IInv, TypeOK
  <2>2. Kept
    BY <1>1, <1>3 DEF Kept, IInv, TypeOK
  <2>3. PaymentInv'
    BY <1>3 DEF IInv, PaymentInv, TypeOK
  <2> QED
    BY <1>1, <1>2, <1>3, <2>1, <2>2, <2>3, SameWorkers, SameMessages DEF IInv, TypeOK
<1>4. CASE Fulfil(p)
  <2>1. ~Refused(p) /\ entitlement' = [status |-> "active", payment |-> p]
        /\ \E status \in {"pending", "fulfilled"} : payment' = [payment EXCEPT ![p] = status]
    BY <1>4 DEF Fulfil
  <2>2. PaymentInv'
    BY <2>1 DEF IInv, PaymentInv, TypeOK, Refused, DatasetAssumption
  <2>3. CASE message' = message
    <3>1. TypeOK'
      BY <1>1, <2>1, <2>3 DEF IInv, TypeOK
    <3>2. Kept
      BY <1>1, <2>3 DEF Kept, IInv, TypeOK
    <3> QED
      BY <1>1, <1>2, <2>2, <2>3, <3>1, <3>2, SameWorkers, SameMessages DEF IInv, TypeOK
  <2>4. CASE request.snapshot # None /\ message' = Emitted({Fast(request.snapshot)})
    <3>0. TypeOK /\ revision.number \in Nat /\ revision.number <= revision.number
      BY NumberTyped DEF IInv
    <3>5. message' \in [Messages -> MessageRow]
      BY <2>4, <3>0, EmittedTyped
    <3>1. TypeOK'
      BY <1>1, <2>1, <3>5 DEF IInv, TypeOK
    <3>2. Kept
      BY <1>1, <2>4, <3>0, SentKept
    <3>3. Fast(request.snapshot).kind = "fast"
      BY DEF Fast
    <3>4. MessageInv'
      BY <1>1, <2>4, <3>2, <3>3, MessagesSent DEF IInv, TypeOK
    <3> QED
      BY <1>1, <1>2, <2>2, <3>1, <3>2, <3>4, SameWorkers DEF IInv
  <2> QED
    BY <1>4, <2>3, <2>4 DEF Fulfil
<1> QED
  BY <1>3, <1>4 DEF Reconcile, Wait, Refuse

(***************************************************************************)
(* Deliveries.                                                             *)
(***************************************************************************)
\* A message a delivery step changed was sent, and is done only if it was fanned out.
Settled(m) ==
    /\ message[m].status # "absent" /\ message'[m].status # "absent"
    /\ m = Viewable /\ message'[m].status = "done" => \A d \in Sections : section[d] # "absent"

LEMMA DeliveryStep ==
    ASSUME IInv, UNCHANGED <<access, content>>, faults' \in 0 .. MaxFaults,
           worker' \in [Workers -> WorkerRow], message' \in [Messages -> MessageRow],
           \A m \in Messages : message'[m] = message[m] \/ Settled(m),
           \A v \in Workers :
            worker'[v] = worker[v] \/ worker'[v].pc = "idle" \/ Handles(worker[v])'
    PROVE  IInv' /\ Kept
<1>1. UNCHANGED <<payment, request, entitlement, job, revision, section, published>>
  BY DEF access, content
<1>2. TypeOK'
  BY <1>1 DEF IInv, TypeOK
<1>3. Kept
  BY <1>1, NumberTyped DEF Kept, Settled, IInv
<1>4. MessageInv'
  <2>1. \A m \in Messages : message[m].status = "absent" => message'[m].status = "absent"
    BY DEF Settled
  <2>2. message'[Viewable] = message[Viewable] \/ Settled(Viewable)
    BY MessageKinds
  <2> QED
    BY <1>1, <2>1, <2>2, MessageKinds DEF IInv, MessageInv, Settled
<1>5. WorkerInv'
  BY <1>3, WorkerStep DEF IInv
<1> QED
  BY <1>1, <1>2, <1>3, <1>4, <1>5, SameRevision, SameRequest, SamePayment DEF IInv

LEMMA DeliverStep ==
    ASSUME NEW w \in Workers, NEW m \in Messages
    PROVE  IInv /\ Deliver(w, m) => IInv' /\ Kept
<1> SUFFICES ASSUME IInv, Deliver(w, m) PROVE IInv' /\ Kept
  OBVIOUS
<1> DEFINE n == IF message[m].deliveries = MaxDeliveries THEN MaxDeliveries
                ELSE message[m].deliveries + 1
           row == [status |-> message[m].status, deliveries |-> n]
           delivery == [pc |-> "handle", message |-> m, last |-> n = MaxDeliveries]
<1>1. /\ worker[w].pc = "idle" /\ message[m].status = "queued"
      /\ message' = [message EXCEPT ![m] = row] /\ worker' = [worker EXCEPT ![w] = delivery]
      /\ UNCHANGED <<access, content, faults>>
  BY DEF Deliver, StatusWhenFetched
<1>2. TypeOK /\ message \in [Messages -> MessageRow] /\ worker \in [Workers -> WorkerRow]
      /\ faults \in 0 .. MaxFaults /\ message[m] \in MessageRow
  BY DEF IInv, TypeOK
<1>3. row \in MessageRow /\ row.status = "queued"
  <2>1. message[m].deliveries \in 0 .. MaxDeliveries
    BY <1>2 DEF MessageRow
  <2>2. n \in 0 .. MaxDeliveries
    BY <2>1, DatasetAssumption
  <2> QED
    BY <1>1, <1>2, <2>2 DEF MessageRow
<1>4. delivery \in WorkerRow /\ delivery.message = m /\ delivery.pc = "handle"
  <2>1. (n = MaxDeliveries) \in BOOLEAN
    OBVIOUS
  <2> HIDE DEF n
  <2> QED
    BY <2>1 DEF WorkerRow
<1> HIDE DEF row, delivery
<1>5. message' \in [Messages -> MessageRow] /\ worker' \in [Workers -> WorkerRow]
  BY <1>1, <1>2, <1>3, <1>4
<1>6. message'[m] = row /\ \A k \in Messages \ {m} : message'[k] = message[k]
  BY <1>1, <1>2
<1>7. Settled(m)
  BY <1>1, <1>3, <1>6 DEF Settled
<1>8. worker'[w] = delivery /\ \A v \in Workers \ {w} : worker'[v] = worker[v]
  BY <1>1, <1>2
<1>9. Handles(worker[w])'
  BY <1>3, <1>4, <1>6, <1>8 DEF Handles
<1> QED
  BY <1>1, <1>2, <1>5, <1>6, <1>7, <1>8, <1>9, DeliveryStep

\* A consumer goes idle, or on with its message but not to the acknowledgement.
LEMMA MovesOn ==
    ASSUME IInv, NEW w \in Workers, NEW row \in WorkerRow, worker' = [worker EXCEPT ![w] = row],
           row.pc = "idle" \/
            (worker[w].pc # "idle" /\ row.message = worker[w].message /\ row.pc # "acknowledge"),
           UNCHANGED <<access, content>>, faults' \in 0 .. MaxFaults,
           message' \in [Messages -> MessageRow],
           \A m \in Messages : message'[m] = message[m] \/ Settled(m)
    PROVE  IInv' /\ Kept
<1>1. worker' \in [Workers -> WorkerRow] /\ worker'[w] = row
      /\ \A v \in Workers \ {w} : worker'[v] = worker[v]
  BY RowTyped DEF IInv
<1>2. CASE row.pc = "idle"
  BY <1>1, <1>2, DeliveryStep
<1>3. CASE worker[w].pc # "idle" /\ row.message = worker[w].message /\ row.pc # "acknowledge"
  <2>1. Handles(worker[w])
    BY <1>3 DEF IInv, WorkerInv
  <2>2. Handles(worker[w])'
    BY <1>1, <1>3, <2>1 DEF Handles, Settled
  <2> QED
    BY <1>1, <2>2, DeliveryStep
<1> QED
  BY <1>2, <1>3

LEMMA FailStep == ASSUME NEW w \in Workers PROVE IInv /\ Fail(w) => IInv' /\ Kept
<1> SUFFICES ASSUME IInv, Fail(w) PROVE IInv' /\ Kept
  OBVIOUS
<1>1. PICK invalid \in BOOLEAN :
        worker' = [worker EXCEPT ![w] = [@ EXCEPT !.pc = "error", !.last = @ \/ invalid]]
  BY DEF Fail
<1>2. worker[w] \in WorkerRow /\ worker \in [Workers -> WorkerRow]
      /\ message \in [Messages -> MessageRow] /\ faults \in 0 .. MaxFaults
  BY DEF IInv, TypeOK
<1>3. worker'[w] \in WorkerRow /\ worker'[w].pc = "error"
      /\ worker'[w].message = worker[w].message
  BY <1>1, <1>2 DEF WorkerRow
<1>4. worker[w].pc # "idle" /\ UNCHANGED <<access, content, message, faults>>
  BY DEF Fail
<1>5. worker' = [worker EXCEPT ![w] = worker'[w]]
  BY <1>1, <1>2
<1> QED
  BY <1>2, <1>3, <1>4, <1>5, MovesOn

LEMMA CrashStep == ASSUME NEW w \in Workers PROVE IInv /\ Crash(w) => IInv' /\ Kept
<1> SUFFICES ASSUME IInv, Crash(w) PROVE IInv' /\ Kept
  OBVIOUS
<1>1. worker' = [worker EXCEPT ![w] = Idle] /\ UNCHANGED <<access, content, message>>
  BY DEF Crash
<1>2. message \in [Messages -> MessageRow] /\ faults' \in 0 .. MaxFaults
  BY DatasetAssumption DEF Crash, IInv, TypeOK
<1> QED
  BY <1>1, <1>2, IdleTyped, MovesOn

LEMMA DuplicateStep == ASSUME NEW m \in Messages PROVE IInv /\ Duplicate(m) => IInv' /\ Kept
<1> SUFFICES ASSUME IInv, Duplicate(m) PROVE IInv' /\ Kept
  OBVIOUS
<1> DEFINE row == [status |-> "queued", deliveries |-> 0]
<1>1. message[m].status # "absent" /\ message' = [message EXCEPT ![m] = row]
      /\ UNCHANGED <<access, content, worker>>
  BY DEF Duplicate
<1>2. message \in [Messages -> MessageRow] /\ worker \in [Workers -> WorkerRow]
      /\ faults' \in 0 .. MaxFaults
  BY DatasetAssumption DEF Duplicate, IInv, TypeOK
<1>3. row \in MessageRow /\ row.status = "queued"
  BY DatasetAssumption DEF MessageRow
<1> HIDE DEF row
<1>4. message' \in [Messages -> MessageRow] /\ message'[m] = row
      /\ \A k \in Messages \ {m} : message'[k] = message[k]
  BY <1>1, <1>2, <1>3
<1>5. Settled(m)
  BY <1>1, <1>3, <1>4 DEF Settled
<1> QED
  BY <1>1, <1>2, <1>4, <1>5, DeliveryStep

LEMMA EndedSettles ==
    ASSUME IInv, NEW m \in Messages, NEW status \in {"done", "dead"}, Ended(m, status),
           status = "done" /\ m = Viewable => \A d \in Sections : section[d] # "absent"
    PROVE  /\ message' \in [Messages -> MessageRow]
           /\ \A k \in Messages : message'[k] = message[k] \/ Settled(k)
<1> DEFINE row == [status |-> status, deliveries |-> 0]
<1>1. message \in [Messages -> MessageRow]
  BY DEF IInv, TypeOK
<1>2. row \in MessageRow /\ row.status = status
  BY DatasetAssumption DEF MessageRow
<1>3. CASE message[m].status = "queued"
  <2>1. message' = [message EXCEPT ![m] = row]
    BY <1>3 DEF Ended
  <2> HIDE DEF row
  <2>2. message' \in [Messages -> MessageRow] /\ message'[m] = row
        /\ \A k \in Messages \ {m} : message'[k] = message[k]
    BY <1>1, <1>2, <2>1
  <2>3. Settled(m)
    BY <1>2, <1>3, <2>2 DEF Settled
  <2> QED
    BY <2>2, <2>3
<1>4. CASE message[m].status # "queued"
  BY <1>1, <1>4 DEF Ended
<1> QED
  BY <1>3, <1>4

LEMMA AcknowledgeStep == ASSUME NEW w \in Workers PROVE IInv /\ Acknowledge(w) => IInv' /\ Kept
<1> SUFFICES ASSUME IInv, Acknowledge(w) PROVE IInv' /\ Kept
  OBVIOUS
<1>1. worker[w].pc = "acknowledge" /\ Ended(worker[w].message, "done")
      /\ worker' = [worker EXCEPT ![w] = Idle] /\ UNCHANGED <<access, content, faults>>
  BY DEF Acknowledge
<1>2. Handles(worker[w])
  BY <1>1 DEF IInv, WorkerInv
<1>3. worker[w].message \in Messages
      /\ (worker[w].message = Viewable => \A d \in Sections : section[d] # "absent")
  BY <1>1, <1>2 DEF Handles
<1>4. message' \in [Messages -> MessageRow]
      /\ \A k \in Messages : message'[k] = message[k] \/ Settled(k)
  BY <1>1, <1>3, EndedSettles
<1>5. faults' \in 0 .. MaxFaults
  BY <1>1 DEF IInv, TypeOK
<1> QED
  BY <1>1, <1>4, <1>5, IdleTyped, MovesOn

LEMMA RejectStep == ASSUME NEW w \in Workers PROVE IInv /\ Reject(w) => IInv' /\ Kept
<1> SUFFICES ASSUME IInv, Reject(w) PROVE IInv' /\ Kept
  OBVIOUS
<1>1. worker[w].pc = "error" /\ (Ended(worker[w].message, "dead") \/ message' = message)
      /\ worker' = [worker EXCEPT ![w] = Idle] /\ UNCHANGED <<access, content, faults>>
  BY DEF Reject
<1>2. worker[w].message \in Messages
  BY <1>1 DEF IInv, WorkerInv, Handles
<1>3. message \in [Messages -> MessageRow] /\ faults' \in 0 .. MaxFaults
  BY <1>1 DEF IInv, TypeOK
<1>4. message' \in [Messages -> MessageRow]
      /\ \A k \in Messages : message'[k] = message[k] \/ Settled(k)
  BY <1>1, <1>2, <1>3, EndedSettles
<1> QED
  BY <1>1, <1>3, <1>4, IdleTyped, MovesOn

LEMMA LoadStep == ASSUME NEW w \in Workers PROVE IInv /\ LoadEvidence(w) => IInv' /\ Kept
<1> SUFFICES ASSUME IInv, LoadEvidence(w) PROVE IInv' /\ Kept
  OBVIOUS
<1> DEFINE row == [worker[w] EXCEPT !.pc = "publish"]
<1>1. worker[w].pc = "handle" /\ worker' = [worker EXCEPT ![w] = row]
      /\ UNCHANGED <<access, content, message, faults>>
  BY DEF LoadEvidence, Handling, Step
<1>2. worker[w] \in WorkerRow /\ message \in [Messages -> MessageRow] /\ faults \in 0 .. MaxFaults
  BY DEF IInv, TypeOK
<1>3. row \in WorkerRow /\ row.pc = "publish" /\ row.message = worker[w].message
  BY <1>2 DEF WorkerRow
<1> HIDE DEF row
<1> QED
  BY <1>1, <1>2, <1>3, MovesOn

(***************************************************************************)
(* Handlers that end at the acknowledgement.                               *)
(***************************************************************************)
LEMMA Finished ==
    ASSUME IInv, Kept, NEW w \in Workers, worker[w].pc # "idle", Step(w, "acknowledge"),
           worker[w].message = Viewable => \A d \in Sections : section'[d] # "absent"
    PROVE  WorkerInv'
<1>1. worker'[w].message = worker[w].message
      /\ \A v \in Workers \ {w} : worker'[v] = worker[v]
  BY StepTyped DEF IInv
<1>2. Handles(worker[w])
  BY DEF IInv, WorkerInv
<1>3. Handles(worker[w])'
  BY <1>1, <1>2 DEF Handles, Kept
<1> QED
  BY <1>1, <1>3, WorkerStep DEF IInv

LEMMA HandleFastStep == ASSUME NEW w \in Workers PROVE IInv /\ HandleFast(w) => IInv' /\ Kept
<1> SUFFICES ASSUME IInv, HandleFast(w) PROVE IInv' /\ Kept
  OBVIOUS
<1>1. /\ worker[w].pc = "handle" /\ worker[w].message.kind = "fast" /\ Step(w, "acknowledge")
      /\ Entitled /\ UNCHANGED <<payment, entitlement, section, published, faults>>
  BY DEF HandleFast, Handling
<1>2. worker[w].message \in Messages /\ worker[w].message # Viewable
      /\ worker[w].message.snapshot \in Snapshots
  BY <1>1, MessageKinds DEF IInv, WorkerInv, Handles
<1>3. TypeOK /\ revision.number \in Nat /\ revision.number <= revision.number
      /\ revision \in [number : Nat, sections : SUBSET Sections]
      /\ request.status \in {"absent", "fast_lane_processing", "needs_review", "viewable",
                             "enriching", "revoked"}
  BY NumberTyped DEF IInv, TypeOK
<1>4. worker' \in [Workers -> WorkerRow]
  BY <1>1, StepTyped DEF IInv
<1>5. job' \subseteq Snapshots
  BY <1>2, <1>3 DEF HandleFast, TypeOK
<1>6. PaymentInv'
  BY <1>1, SamePayment DEF IInv
<1>7. CASE UNCHANGED <<request, revision, message>>
  <2>1. TypeOK'
    BY <1>1, <1>4, <1>5, <1>7 DEF IInv, TypeOK
  <2>2. Kept
    BY <1>1, <1>3, <1>7 DEF Kept
  <2> QED
    BY <1>1, <1>2, <1>3, <1>6, <1>7, <2>1, <2>2, Finished, SameRevision, SameRequest, SameMessages
       DEF IInv
<1>8. ASSUME NEW s \in Snapshots, StoreForReview(s) PROVE IInv' /\ Kept
  <2>1. request' = [status |-> StatusNotReady(request.status), snapshot |-> s]
        /\ UNCHANGED <<revision, message>>
    BY <1>8 DEF StoreForReview
  <2>2. TypeOK'
    BY <1>1, <1>3, <1>4, <1>5, <2>1 DEF TypeOK, StatusNotReady
  <2>3. Kept
    BY <1>1, <1>3, <2>1 DEF Kept
  <2>4. RequestInv'
    BY <2>1, DatasetAssumption DEF IInv, RequestInv, StatusNotReady
  <2> QED
    BY <1>1, <1>2, <1>3, <1>6, <2>1, <2>2, <2>3, <2>4, Finished, SameRevision, SameMessages
       DEF IInv
<1>9. ASSUME NEW s \in Snapshots, StoreViewable(s) PROVE IInv' /\ Kept
  <2>1. revision' = FastRevision /\ request' = [status |-> "viewable", snapshot |-> s]
        /\ message' = Emitted({Viewable})
    BY <1>9 DEF StoreViewable
  <2>2. /\ revision'.number = IF revision.number = 0 THEN 1 ELSE revision.number
        /\ revision'.sections = revision.sections
        /\ revision' \in [number : Nat, sections : SUBSET Sections]
    BY <1>3, <2>1 DEF FastRevision
  <2>3. message' \in [Messages -> MessageRow]
    BY <1>3, <2>1, EmittedTyped
  <2>4. TypeOK'
    BY <1>1, <1>4, <1>5, <2>1, <2>2, <2>3 DEF IInv, TypeOK
  <2>5. Kept
    BY <1>1, <1>3, <2>1, <2>2, SentKept
  <2>6. RequestInv'
    BY <2>1, DatasetAssumption DEF RequestInv
  <2>7. MessageInv'
    BY <1>3, <2>1, <2>2, <2>5, MessagesSent DEF IInv
  <2>8. RevisionInv'
    <3>1. Jobs' = Jobs
      BY <1>1 DEF Jobs
    <3>2. Jobs = {} => Cardinality(Jobs) = 0
      BY FS_EmptySet
    <3> QED
      BY <1>3, <2>2, <3>1, <3>2 DEF IInv, RevisionInv
  <2> QED
    BY <1>1, <1>2, <1>6, <2>4, <2>5, <2>6, <2>7, <2>8, Finished DEF IInv
<1> QED
  BY <1>7, <1>8, <1>9 DEF HandleFast, StoreForReview, StoreViewable

LEMMA HandleViewableStep ==
    ASSUME NEW w \in Workers PROVE IInv /\ HandleViewable(w) => IInv' /\ Kept
<1> SUFFICES ASSUME IInv, HandleViewable(w) PROVE IInv' /\ Kept
  OBVIOUS
<1> DEFINE new == {Deep(d, request.snapshot) : d \in Sections}
<1>1. /\ worker[w].pc = "handle" /\ worker[w].message.kind = "viewable" /\ Step(w, "acknowledge")
      /\ section' = [d \in Sections |-> IF section[d] = "complete" THEN "complete" ELSE "pending"]
      /\ message' = Emitted(new)
      /\ request' = [request EXCEPT !.status = IF @ = "viewable" THEN "enriching" ELSE @]
      /\ UNCHANGED <<payment, entitlement, job, revision, published, faults>>
  BY DEF HandleViewable, Handling
<1>2. TypeOK /\ revision.number \in Nat /\ revision.number <= revision.number
  BY NumberTyped DEF IInv
<1>3. worker[w].message \in Messages /\ revision.number > 0
  BY <1>1 DEF IInv, WorkerInv, Handles, MessageInv
<1>4. section' \in [Sections -> {"absent", "pending", "complete"}]
      /\ \A d \in Sections : section'[d] # "absent"
  BY <1>1
<1>5. worker' \in [Workers -> WorkerRow]
  BY <1>1, StepTyped DEF IInv
<1>6. message' \in [Messages -> MessageRow]
  BY <1>1, <1>2, EmittedTyped
<1>7. TypeOK'
  BY <1>1, <1>4, <1>5, <1>6 DEF IInv, TypeOK
<1>8. Kept
  BY <1>1, <1>2, <1>4, SentKept
<1>9. RequestInv'
  BY <1>1 DEF IInv, TypeOK, RequestInv
<1>10. MessageInv'
  BY <1>1, <1>2, <1>3, <1>8, MessagesSent DEF IInv
<1> QED
  BY <1>1, <1>4, <1>7, <1>8, <1>9, <1>10, Finished, SameRevision, SamePayment DEF IInv

LEMMA PublishStep ==
    ASSUME NEW w \in Workers PROVE IInv /\ PublishSection(w) => IInv' /\ Kept
<1> SUFFICES ASSUME IInv, PublishSection(w) PROVE IInv' /\ Kept
  OBVIOUS
<1> DEFINE d == worker[w].message.section
           s == request.snapshot
<1>1. /\ worker[w].pc = "publish" /\ worker[w].message.kind = "deep" /\ Step(w, "acknowledge")
      /\ Enrichable /\ UNCHANGED <<payment, entitlement, job, message, faults>>
      /\ \/ UNCHANGED <<request, revision, section, published>>
         \/ /\ s \notin published[d]
            /\ published' = [published EXCEPT ![d] = @ \cup {s}]
            /\ revision' = [number |-> revision.number + 1, sections |-> revision.sections \cup {d}]
            /\ section' = [section EXCEPT ![d] = "complete"]
            /\ request' = [request EXCEPT !.status = StatusWithSection(@)]
  BY DEF PublishSection, Handling, EntitledNow
<1>2. TypeOK /\ revision.number \in Nat /\ revision.number <= revision.number
  BY NumberTyped DEF IInv
<1>3. worker[w].message \in Messages /\ revision.number > 0 /\ worker[w].message # Viewable
      /\ d \in Sections
  BY <1>1, MessageKinds DEF IInv, WorkerInv, Handles, MessageInv
<1>4. s \in Snapshots
  BY <1>1 DEF IInv, TypeOK, RequestInv, Enrichable
<1>5. worker' \in [Workers -> WorkerRow]
  BY <1>1, StepTyped DEF IInv
<1>6. PaymentInv'
  BY <1>1, SamePayment DEF IInv
<1>7. CASE UNCHANGED <<request, revision, section, published>>
  <2>1. TypeOK'
    BY <1>1, <1>5, <1>7 DEF IInv, TypeOK
  <2>2. Kept
    BY <1>1, <1>2, <1>7 DEF Kept
  <2> QED
    BY <1>1, <1>2, <1>3, <1>6, <1>7, <2>1, <2>2, Finished, SameRevision, SameRequest, SameMessages
       DEF IInv
<1>8. CASE /\ s \notin published[d]
           /\ published' = [published EXCEPT ![d] = @ \cup {s}]
           /\ revision' = [number |-> revision.number + 1, sections |-> revision.sections \cup {d}]
           /\ section' = [section EXCEPT ![d] = "complete"]
           /\ request' = [request EXCEPT !.status = StatusWithSection(@)]
  <2> HIDE DEF d, s
  <2>1. revision'.number = revision.number + 1 /\ revision.sections \subseteq revision'.sections
        /\ revision' \in [number : Nat, sections : SUBSET Sections]
    BY <1>2, <1>3, <1>8 DEF TypeOK
  <2>2. section' \in [Sections -> {"absent", "pending", "complete"}]
        /\ published' \in [Sections -> SUBSET Snapshots]
        /\ \A e \in Sections : section[e] # "absent" => section'[e] # "absent"
    BY <1>2, <1>3, <1>4, <1>8 DEF TypeOK
  <2>3. request' \in [status : {"absent", "fast_lane_processing", "needs_review", "viewable",
                                "enriching", "revoked"}, snapshot : Snapshots \cup {None}]
    BY <1>2, <1>8 DEF TypeOK, StatusWithSection
  <2>4. TypeOK'
    BY <1>1, <1>2, <1>5, <2>1, <2>2, <2>3 DEF TypeOK
  <2>5. Kept
    BY <1>1, <1>2, <2>1, <2>2 DEF Kept
  <2>6. RequestInv'
    BY <1>1, <1>2, <1>3, <1>8 DEF IInv, TypeOK, RequestInv, StatusWithSection
  <2>7. RevisionInv'
    <3>1. Jobs' = Jobs \cup {<<d, s>>} /\ <<d, s>> \notin Jobs
      BY <1>2, <1>3, <1>4, <1>8 DEF Jobs, TypeOK
    <3>2. IsFiniteSet(Jobs) /\ revision.number = 1 + Cardinality(Jobs)
      BY <1>3 DEF IInv, RevisionInv
    <3>3. IsFiniteSet(Jobs') /\ Cardinality(Jobs') = Cardinality(Jobs) + 1
      BY <3>1, <3>2, FS_AddElement
    <3>4. Cardinality(Jobs) \in Nat
      BY <3>2, FS_CardinalityType
    <3> QED
      BY <2>1, <3>2, <3>3, <3>4 DEF RevisionInv
  <2> QED
    BY <1>1, <1>2, <1>3, <1>6, <2>1, <2>4, <2>5, <2>6, <2>7, Finished, SameMessages DEF IInv
<1> QED
  BY <1>1, <1>7, <1>8

(***************************************************************************)
(* The inductive invariant, and what follows from it.                      *)
(***************************************************************************)
LEMMA StutterStep == IInv /\ UNCHANGED vars => IInv' /\ Kept
<1> SUFFICES ASSUME IInv, UNCHANGED vars PROVE IInv' /\ Kept
  OBVIOUS
<1>1. UNCHANGED <<access, content, message, worker, faults>>
  BY DEF vars, access, content
<1>2. worker' \in [Workers -> WorkerRow] /\ message' \in [Messages -> MessageRow]
      /\ faults' \in 0 .. MaxFaults
  BY <1>1 DEF IInv, TypeOK
<1> QED
  BY <1>1, <1>2, DeliveryStep

LEMMA NextStep == IInv /\ [Next]_vars => IInv' /\ Kept
<1> SUFFICES ASSUME IInv, [Next]_vars PROVE IInv' /\ Kept
  OBVIOUS
<1>1. CASE CreateRequest
  BY <1>1, CreateStep
<1>2. CASE AssignSnapshot
  BY <1>2, AssignStep
<1>3. CASE Revoke
  BY <1>3, RevokeStep
<1>4. CASE \E p \in Payments : Reconcile(p)
  BY <1>4, ReconcileStep
<1>5. CASE \E w \in Workers : Consuming(w)
  BY <1>5, DeliverStep, HandleFastStep, HandleViewableStep, LoadStep, PublishStep, FailStep,
     AcknowledgeStep, RejectStep DEF Consuming
<1>6. CASE \E w \in Workers : Crash(w)
  BY <1>6, CrashStep
<1>7. CASE \E m \in Messages : Duplicate(m)
  BY <1>7, DuplicateStep
<1>8. CASE UNCHANGED vars
  BY <1>8, StutterStep
<1> QED
  BY <1>1, <1>2, <1>3, <1>4, <1>5, <1>6, <1>7, <1>8 DEF Next

LEMMA Invariant == Spec => []IInv
<1>1. IInv /\ [Next]_vars => IInv'
  BY NextStep
<1> QED
  BY InitInv, <1>1, PTL DEF Spec

\* The rows of the pipeline stay typed: no event, job or message leads to a status the
\* code does not know.
THEOREM TypeCorrect == Spec => []TypeOK
<1>1. IInv => TypeOK
  BY DEF IInv
<1> QED
  BY Invariant, <1>1, PTL

\* Of any number of payments for one request only the one that holds the entitlement is
\* ever reported fulfilled (reconcile_payment_event).
THEOREM PaymentFulfilledOnce == Spec => []OnePaymentFulfilled
<1>1. IInv => OnePaymentFulfilled
  BY DEF IInv, PaymentInv, OnePaymentFulfilled
<1> QED
  BY Invariant, <1>1, PTL

\* However often a message is delivered and by whomever, each section and snapshot makes
\* one revision, beside the first (publish_deep_section, publish_fast_lane_revision).
THEOREM RevisionPerJob == Spec => []OneRevisionPerJob
<1>1. IInv => OneRevisionPerJob
  BY DEF IInv, TypeOK, RevisionInv, OneRevisionPerJob
<1> QED
  BY Invariant, <1>1, PTL

\* No section that was published is dropped, and no published dataset returns to
\* processing or review, whatever jobs, failures and second fast jobs follow.
THEOREM PublishedNotTakenBack == Spec => PublishedStays
<1> DEFINE Stays ==
            /\ revision.number <= revision'.number /\ revision.sections \subseteq revision'.sections
            /\ revision.number > 0 => request'.status \in {"viewable", "enriching", "revoked"}
<1>1. IInv /\ [Next]_vars => Stays
  <2> SUFFICES ASSUME IInv, [Next]_vars PROVE Stays
    OBVIOUS
  <2>1. IInv' /\ Kept
    BY NextStep
  <2>2. revision.number \in Nat /\ revision'.number \in Nat
    BY <2>1 DEF IInv, TypeOK
  <2> QED
    BY <2>1, <2>2 DEF IInv, RequestInv, Kept
<1> QED
  BY Invariant, <1>1, PTL DEF Spec, PublishedStays

\* What a step of a revoked dataset leaves alone.
Closed ==
    request.status = "revoked" =>
        /\ UNCHANGED <<request, content>>
        /\ \A m \in Messages \ {Revocation} :
            message[m].status = "absent" => message'[m].status = "absent"

LEMMA ClosedStep == TypeOK /\ [Next]_vars => Closed
<1> SUFFICES ASSUME TypeOK, [Next]_vars, request.status = "revoked" PROVE Closed
  BY DEF Closed
<1>1. CASE CreateRequest \/ AssignSnapshot
  BY <1>1 DEF CreateRequest, AssignSnapshot
<1>2. CASE Revoke
  <2>1. request' = request
    BY <1>2 DEF Revoke, TypeOK
  <2> QED
    BY <1>2, <2>1, EmittedTyped DEF Revoke, Closed
<1>3. CASE \E p \in Payments : Reconcile(p)
  BY <1>3 DEF Reconcile, Wait, Refuse, Fulfil, Refused, Closed
<1>4. CASE \E w \in Workers, m \in Messages : Deliver(w, m)
  BY <1>4 DEF Deliver, StatusWhenFetched, access, TypeOK, Closed
<1>5. CASE \E w \in Workers :
             HandleFast(w) \/ HandleViewable(w) \/ LoadEvidence(w) \/ PublishSection(w)
  BY <1>5 DEF HandleFast, HandleViewable, LoadEvidence, PublishSection, EntitledNow, Entitled
<1>6. CASE \E w \in Workers : Fail(w) \/ Crash(w)
  BY <1>6 DEF Fail, Crash, access, Closed
<1>7. CASE \E w \in Workers : Acknowledge(w) \/ Reject(w)
  BY <1>7 DEF Acknowledge, Reject, Ended, access, TypeOK, Closed
<1>8. CASE \E m \in Messages : Duplicate(m)
  BY <1>8 DEF Duplicate, access, TypeOK, Closed
<1>9. CASE UNCHANGED vars
  BY <1>9 DEF vars, content, Closed
<1> QED
  BY <1>1, <1>2, <1>3, <1>4, <1>5, <1>6, <1>7, <1>8, <1>9 DEF Next, Consuming

\* A revoked dataset gets no revision, section or request of work, from handlers that
\* were running as well (the entitlement checks of every handler's transaction).
THEOREM RevocationFinal == Spec => RevokedStaysClosed
<1>1. IInv /\ [Next]_vars => Closed
  BY ClosedStep DEF IInv
<1> QED
  BY Invariant, <1>1, PTL DEF Spec, RevokedStaysClosed, Closed

(***************************************************************************)
(* Nothing is lost: a message is done only when what it asks for is there, *)
(* and what is there, or paid for, was asked for.                          *)
(***************************************************************************)
Served(m) ==
    /\ m.kind = "fast" => m.snapshot \in job
    /\ m.kind = "viewable" => \A d \in Sections : section[d] # "absent"
    /\ m.kind = "deep" => section[m.section] = "complete"

ServedInv ==
    /\ \A m \in Messages : message[m].status = "done" => Served(m)
    /\ \A w \in Workers : worker[w].pc = "acknowledge" => Served(worker[w].message)

AskedInv ==
    /\ \A p \in Payments :
        payment[p] = "fulfilled" => \E s \in Snapshots : message[Fast(s)].status # "absent"
    /\ revision.number > 0 => message[Viewable].status # "absent"
    /\ \A d \in Sections :
        section[d] # "absent" => \E s \in Snapshots : message[Deep(d, s)].status # "absent"

JobInv ==
    /\ entitlement.status # "none" => request.status # "absent"
    /\ job # {} => request.status \notin {"absent", "fast_lane_processing"}
    /\ \A d \in Sections : published[d] # {} => section[d] = "complete"

LostInv == ServedInv /\ AskedInv /\ JobInv

\* What is there stays.
Grown ==
    /\ job \subseteq job'
    /\ \A d \in Sections :
        /\ section[d] # "absent" => section'[d] # "absent"
        /\ section[d] = "complete" => section'[d] = "complete"

LEMMA InitLost == Init => LostInv
BY MessageKinds DEF Init, LostInv, ServedInv, AskedInv, JobInv, Idle

LEMMA MessageParts ==
    /\ \A s \in Snapshots : Fast(s).snapshot = s
    /\ \A m \in Messages :
        m.kind = "deep" => m.section \in Sections /\ \E s \in Snapshots : m = Deep(m.section, s)
<1>1. \A s \in Snapshots : Fast(s).snapshot = s /\ Fast(s).kind = "fast"
  BY DEF Fast
<1>2. \A d \in Sections, s \in Snapshots : Deep(d, s).section = d
  BY DEF Deep
<1>3. Viewable.kind = "viewable" /\ Revocation.kind = "revoked"
  BY DEF Viewable, Revocation
<1>4. \A m \in Messages : \/ \E s \in Snapshots : m = Fast(s)
                          \/ m = Viewable \/ m = Revocation
                          \/ \E d \in Sections, s \in Snapshots : m = Deep(d, s)
  BY DEF Messages
<1> QED
  BY <1>1, <1>2, <1>3, <1>4

\* A message inserted is there, unless it was already.
LEMMA EmittedSent ==
    ASSUME TypeOK, NEW new, message' = Emitted(new), NEW m \in Messages, m \in new
    PROVE  message'[m].status # "absent"
<1>1. message[m] \in MessageRow
  BY DEF TypeOK
<1>2. message'[m] = IF message[m].status = "absent"
                    THEN [message[m] EXCEPT !.status = "queued"] ELSE message[m]
  BY DEF Emitted
<1> QED
  BY <1>1, <1>2 DEF MessageRow

LEMMA StillServed ==
    ASSUME Grown, NEW m \in Messages, Served(m)
    PROVE  Served(m)'
BY MessageParts DEF Grown, Served

\* A step that ends no message and acknowledges none but what it served.
LEMMA ServedStep ==
    ASSUME ServedInv, WorkerInv, Grown,
           \A m \in Messages :
            message'[m].status = "done" => message[m].status = "done" \/ Served(m),
           \A w \in Workers :
            worker'[w].pc = "acknowledge" =>
                worker'[w] = worker[w] \/ \E m \in Messages : worker'[w].message = m /\ Served(m)'
    PROVE  ServedInv'
<1>1. ASSUME NEW m \in Messages, message'[m].status = "done" PROVE Served(m)'
  <2>1. Served(m)
    BY <1>1 DEF ServedInv
  <2> QED
    BY <2>1, StillServed
<1>2. ASSUME NEW w \in Workers, worker'[w].pc = "acknowledge" PROVE Served(worker[w].message)'
  <2>1. PICK m \in Messages : worker'[w].message = m /\ Served(m)'
    <3>1. CASE worker'[w] = worker[w]
      <4>1. worker[w].message \in Messages /\ Served(worker[w].message)
        BY <1>2, <3>1 DEF ServedInv, WorkerInv, Handles
      <4> DEFINE k == worker[w].message
      <4>2. PICK m \in Messages : m = k
        BY <4>1
      <4>3. Served(m)'
        BY <4>1, <4>2, StillServed
      <4> QED
        BY <3>1, <4>2, <4>3
    <3> QED
      BY <1>2, <3>1
  <2> QED
    BY <2>1 DEF Served
<1> QED
  BY <1>1, <1>2 DEF ServedInv

LEMMA StillAsked ==
    ASSUME AskedInv, Kept,
           \A p \in Payments :
            payment'[p] = "fulfilled" =>
                payment[p] = "fulfilled" \/ \E s \in Snapshots : message'[Fast(s)].status # "absent",
           revision'.number > 0 => revision.number > 0 \/ message'[Viewable].status # "absent",
           \A d \in Sections :
            section'[d] # "absent" =>
                section[d] # "absent" \/ \E s \in Snapshots : message'[Deep(d, s)].status # "absent"
    PROVE  AskedInv'
BY MessageKinds DEF AskedInv, Kept

(***************************************************************************)
(* Steps that leave what is there as it is.                                *)
(***************************************************************************)
LEMMA SameContent ==
    ASSUME UNCHANGED content
    PROVE  Grown /\ revision' = revision /\ section' = section /\ job' = job /\ published' = published
BY DEF content, Grown

LEMMA AccessLost ==
    ASSUME IInv, LostInv, Kept, UNCHANGED <<content, worker>>,
           NEW new, message' = message \/ message' = Emitted(new),
           \A p \in Payments :
            payment'[p] = "fulfilled" =>
                payment[p] = "fulfilled" \/ \E s \in Snapshots : message'[Fast(s)].status # "absent",
           entitlement'.status # "none" => request'.status # "absent",
           request.status = request'.status \/ request'.status = "revoked"
                \/ request.status = "absent"
    PROVE  LostInv'
<1>1. Grown /\ UNCHANGED <<revision, section, job, published, worker>>
  BY SameContent
<1>2. \A m \in Messages : message'[m].status = "done" => message[m].status = "done"
  BY EmittedTyped DEF IInv
<1>3. ServedInv'
  BY <1>1, <1>2, ServedStep DEF IInv, LostInv
<1>4. AskedInv'
  BY <1>1, StillAsked DEF LostInv
<1>5. JobInv'
  BY <1>1 DEF LostInv, JobInv
<1> QED
  BY <1>3, <1>4, <1>5 DEF LostInv

LEMMA DeliveryLost ==
    ASSUME IInv, LostInv, Kept, UNCHANGED <<access, content>>,
           \A m \in Messages :
            message'[m].status = "done" => message[m].status = "done" \/ Served(m),
           \A w \in Workers : worker'[w].pc = "acknowledge" => worker'[w] = worker[w]
    PROVE  LostInv'
<1>1. Grown /\ UNCHANGED <<revision, section, job, published, payment, request, entitlement>>
  BY SameContent DEF access
<1>2. ServedInv'
  BY <1>1, ServedStep DEF IInv, LostInv
<1>3. AskedInv'
  BY <1>1, StillAsked DEF LostInv
<1>4. JobInv'
  BY <1>1 DEF LostInv, JobInv
<1> QED
  BY <1>2, <1>3, <1>4 DEF LostInv

LEMMA CreateLost == IInv /\ LostInv /\ Kept /\ CreateRequest => LostInv'
<1> SUFFICES ASSUME IInv, LostInv, Kept, CreateRequest PROVE LostInv'
  OBVIOUS
<1>1. request.status = "absent" /\ request'.status = "fast_lane_processing"
      /\ UNCHANGED <<payment, entitlement, content, message, worker>>
  BY DEF CreateRequest, IInv, TypeOK
<1> QED
  BY <1>1, AccessLost

LEMMA AssignLost == IInv /\ LostInv /\ Kept /\ AssignSnapshot => LostInv'
<1> SUFFICES ASSUME IInv, LostInv, Kept, AssignSnapshot PROVE LostInv'
  OBVIOUS
<1>1. request'.status = request.status
      /\ UNCHANGED <<payment, entitlement, content, message, worker>>
  BY DEF AssignSnapshot, IInv, TypeOK
<1> QED
  BY <1>1, AccessLost DEF LostInv, JobInv

LEMMA RevokeLost == IInv /\ LostInv /\ Kept /\ Revoke => LostInv'
<1> SUFFICES ASSUME IInv, LostInv, Kept, Revoke PROVE LostInv'
  OBVIOUS
<1>1. request'.status = "revoked" /\ message' = Emitted({Revocation})
      /\ UNCHANGED <<payment, content, worker>>
  BY DEF Revoke, IInv, TypeOK
<1> QED
  BY <1>1, AccessLost

LEMMA ReconcileLost ==
    ASSUME NEW p \in Payments PROVE IInv /\ LostInv /\ Kept /\ Reconcile(p) => LostInv'
<1> SUFFICES ASSUME IInv, LostInv, Kept, Reconcile(p) PROVE LostInv'
  OBVIOUS
<1>1. UNCHANGED <<request, content, worker>>
  BY DEF Reconcile
<1>2. payment \in [Payments -> {"absent", "pending", "fulfilled", "failed"}] /\ TypeOK
  BY DEF IInv, TypeOK
<1>3. CASE Wait(p) \/ Refuse(p)
  <2>1. message' = message /\ entitlement' = entitlement
        /\ \A q \in Payments : payment'[q] = "fulfilled" => payment[q] = "fulfilled"
    BY <1>2, <1>3 DEF Wait, Refuse
  <2> QED
    BY <1>1, <2>1, AccessLost DEF LostInv, JobInv
<1>4. CASE Fulfil(p) /\ request.snapshot = None
  <2>1. message' = message /\ request.status # "absent"
        /\ \A q \in Payments : payment'[q] = "fulfilled" => payment[q] = "fulfilled"
    BY <1>2, <1>4 DEF Fulfil
  <2> QED
    BY <1>1, <2>1, AccessLost
<1>5. CASE Fulfil(p) /\ request.snapshot # None
  <2> DEFINE s == request.snapshot
  <2>1. s \in Snapshots
    BY <1>2, <1>5 DEF TypeOK
  <2>2. message' = Emitted({Fast(s)}) /\ request.status # "absent"
    BY <1>5 DEF Fulfil
  <2>3. message'[Fast(s)].status # "absent"
    BY <1>2, <2>1, <2>2, EmittedSent, MessageKinds
  <2> HIDE DEF s
  <2> QED
    BY <1>1, <2>1, <2>2, <2>3, AccessLost
<1> QED
  BY <1>3, <1>4, <1>5 DEF Reconcile

(***************************************************************************)
(* Deliveries.                                                             *)
(***************************************************************************)
LEMMA QuietLost ==
    ASSUME NEW w \in Workers, IInv, LostInv, Kept,
           \/ \E m \in Messages : Deliver(w, m)
           \/ Fail(w) \/ Crash(w) \/ LoadEvidence(w)
    PROVE  LostInv'
<1>1. UNCHANGED <<access, content>> /\ worker \in [Workers -> WorkerRow]
      /\ message \in [Messages -> MessageRow]
  BY DEF Deliver, Fail, Crash, LoadEvidence, IInv, TypeOK
<1>2. \A m \in Messages : message'[m].status = "done" => message[m].status = "done"
  <2>1. CASE \E m \in Messages : Deliver(w, m)
    BY <1>1, <2>1 DEF Deliver, StatusWhenFetched
  <2>2. CASE message' = message
    BY <2>2
  <2> QED
    BY <2>1, <2>2 DEF Fail, Crash, LoadEvidence
<1>3. \A v \in Workers : worker'[v].pc = "acknowledge" => worker'[v] = worker[v]
  <2>1. CASE \E m \in Messages : Deliver(w, m)
    BY <1>1, <2>1 DEF Deliver
  <2>2. CASE Fail(w)
    BY <1>1, <2>2 DEF Fail, WorkerRow
  <2>3. CASE Crash(w)
    BY <1>1, <2>3, IdleTyped DEF Crash
  <2>4. CASE LoadEvidence(w)
    BY <1>1, <2>4 DEF LoadEvidence, Step, WorkerRow
  <2> QED
    BY <2>1, <2>2, <2>3, <2>4
<1> QED
  BY <1>1, <1>2, <1>3, DeliveryLost

LEMMA EndLost ==
    ASSUME NEW w \in Workers, IInv, LostInv, Kept, Acknowledge(w) \/ Reject(w)
    PROVE  LostInv'
<1>1. UNCHANGED <<access, content>> /\ worker' = [worker EXCEPT ![w] = Idle]
      /\ worker \in [Workers -> WorkerRow] /\ message \in [Messages -> MessageRow]
  BY DEF Acknowledge, Reject, IInv, TypeOK
<1>2. \A v \in Workers : worker'[v].pc = "acknowledge" => worker'[v] = worker[v]
  BY <1>1, IdleTyped
<1>3. worker[w].message \in Messages
  BY DEF Acknowledge, Reject, IInv, WorkerInv, Handles
<1>4. \A m \in Messages :
        message'[m].status = "done" => message[m].status = "done" \/ Served(m)
  <2>1. CASE Acknowledge(w)
    <3>1. Served(worker[w].message) /\ Ended(worker[w].message, "done")
      BY <2>1 DEF Acknowledge, LostInv, ServedInv
    <3> QED
      BY <1>1, <1>3, <3>1 DEF Ended
  <2>2. CASE Reject(w)
    BY <1>1, <1>3, <2>2 DEF Reject, Ended
  <2> QED
    BY <2>1, <2>2
<1> QED
  BY <1>1, <1>2, <1>4, DeliveryLost

LEMMA DuplicateLost ==
    ASSUME NEW m \in Messages, IInv, LostInv, Kept, Duplicate(m)
    PROVE  LostInv'
<1>1. UNCHANGED <<access, content, worker>> /\ message \in [Messages -> MessageRow]
      /\ message' = [message EXCEPT ![m] = [status |-> "queued", deliveries |-> 0]]
  BY DEF Duplicate, IInv, TypeOK
<1>2. \A k \in Messages : message'[k].status = "done" => message[k].status = "done"
  BY <1>1
<1> QED
  BY <1>1, <1>2, DeliveryLost

(***************************************************************************)
(* Handlers.                                                               *)
(***************************************************************************)
LEMMA HandlerServed ==
    ASSUME NEW w \in Workers, IInv, LostInv, Kept, Grown, Step(w, "acknowledge"),
           NEW k \in Messages, worker[w].message = k, Served(k)',
           NEW new, message' = message \/ message' = Emitted(new)
    PROVE  ServedInv'
<1>1. worker'[w].message = k /\ \A v \in Workers \ {w} : worker'[v] = worker[v]
  BY StepTyped DEF IInv
<1>2. \A m \in Messages : message'[m].status = "done" => message[m].status = "done"
  BY EmittedTyped DEF IInv
<1> QED
  BY <1>1, <1>2, ServedStep DEF IInv, LostInv

LEMMA HandleFastLost ==
    ASSUME NEW w \in Workers, IInv, LostInv, Kept, HandleFast(w)
    PROVE  LostInv'
<1> DEFINE key == worker[w].message.snapshot
<1>1. /\ worker[w].pc = "handle" /\ worker[w].message.kind = "fast" /\ Step(w, "acknowledge")
      /\ Entitled /\ UNCHANGED <<payment, entitlement, section, published>>
  BY DEF HandleFast, Handling
<1>2. worker[w].message \in Messages
  BY <1>1 DEF IInv, WorkerInv, Handles
<1>3. job \subseteq job' /\ key \in job'
  BY DEF HandleFast
<1>4. message' = message \/ message' = Emitted({Viewable})
  BY DEF HandleFast, StoreForReview, StoreViewable
<1>5. Grown
  BY <1>1, <1>3 DEF Grown
<1>6. PICK k \in Messages : k = worker[w].message
  BY <1>2
<1>7. Served(k)'
  BY <1>1, <1>3, <1>6 DEF Served
<1>8. ServedInv'
  BY <1>1, <1>4, <1>5, <1>6, <1>7, HandlerServed
<1>9. AskedInv'
  <2>1. revision'.number > 0 => revision.number > 0 \/ message'[Viewable].status # "absent"
    <3>1. CASE revision' = revision
      BY <3>1
    <3>2. CASE message' = Emitted({Viewable})
      BY <3>2, EmittedSent, MessageKinds DEF IInv
    <3> QED
      BY <3>1, <3>2 DEF HandleFast, StoreForReview, StoreViewable
  <2> QED
    BY <1>1, <2>1, StillAsked DEF LostInv
<1>10. JobInv'
  <2>1. request.status \notin {"absent", "revoked"}
    BY <1>1 DEF Entitled, LostInv, JobInv
  <2>2. CASE UNCHANGED <<job, request>>
    BY <1>1, <2>2 DEF LostInv, JobInv
  <2>3. CASE request'.status \in {StatusNotReady(request.status), "viewable"}
    BY <1>1, <2>1, <2>3 DEF LostInv, JobInv, StatusNotReady
  <2> QED
    BY <2>2, <2>3 DEF HandleFast, StoreForReview, StoreViewable
<1> QED
  BY <1>8, <1>9, <1>10 DEF LostInv

LEMMA HandleViewableLost ==
    ASSUME NEW w \in Workers, IInv, LostInv, Kept, HandleViewable(w)
    PROVE  LostInv'
<1> DEFINE s == request.snapshot
           new == {Deep(d, s) : d \in Sections}
<1>1. /\ worker[w].pc = "handle" /\ worker[w].message.kind = "viewable" /\ Step(w, "acknowledge")
      /\ section' = [d \in Sections |-> IF section[d] = "complete" THEN "complete" ELSE "pending"]
      /\ message' = Emitted(new) /\ Enrichable
      /\ request' = [request EXCEPT !.status = IF @ = "viewable" THEN "enriching" ELSE @]
      /\ UNCHANGED <<payment, entitlement, job, revision, published>>
  BY DEF HandleViewable, Handling
<1>2. s \in Snapshots /\ TypeOK
  BY <1>1 DEF IInv, TypeOK, RequestInv, Enrichable
<1>3. PICK k \in Messages : k = worker[w].message
  BY <1>1 DEF IInv, WorkerInv, Handles
<1>4. Grown /\ \A d \in Sections : section'[d] # "absent"
  BY <1>1 DEF Grown
<1>5. Served(k)'
  BY <1>1, <1>3, <1>4 DEF Served
<1>6. ServedInv'
  BY <1>1, <1>3, <1>4, <1>5, HandlerServed
<1>7. \A d \in Sections : message'[Deep(d, s)].status # "absent"
  BY <1>1, <1>2, EmittedSent, MessageKinds
<1>8. AskedInv'
  BY <1>1, <1>2, <1>7, StillAsked DEF LostInv
<1>9. JobInv'
  BY <1>1, <1>2 DEF LostInv, JobInv, TypeOK
<1> QED
  BY <1>6, <1>8, <1>9 DEF LostInv

LEMMA PublishLost ==
    ASSUME NEW w \in Workers, IInv, LostInv, Kept, PublishSection(w)
    PROVE  LostInv'
<1>1. PICK k \in Messages : k = worker[w].message
  BY DEF PublishSection, Handling, IInv, WorkerInv, Handles
<1> DEFINE d == k.section
           s == request.snapshot
<1>2. /\ worker[w].pc = "publish" /\ k.kind = "deep" /\ Step(w, "acknowledge")
      /\ Enrichable /\ UNCHANGED <<payment, entitlement, job, message>>
      /\ \/ s \in published[d] /\ UNCHANGED <<request, revision, section, published>>
         \/ /\ published' = [published EXCEPT ![d] = @ \cup {s}]
            /\ section' = [section EXCEPT ![d] = "complete"]
            /\ request' = [request EXCEPT !.status = StatusWithSection(@)]
  BY <1>1 DEF PublishSection, Handling, EntitledNow
<1>3. TypeOK /\ d \in Sections /\ \E r \in Snapshots : k = Deep(d, r)
  BY <1>2, MessageParts DEF IInv
<1>4. message[k].status # "absent" /\ revision.number > 0
  BY <1>1, <1>2 DEF IInv, WorkerInv, Handles, MessageInv
<1> HIDE DEF d, s
<1>5. Grown /\ section'[d] = "complete"
      /\ \A e \in Sections \ {d} : section'[e] = section[e] /\ published'[e] = published[e]
  BY <1>2, <1>3 DEF Grown, TypeOK, LostInv, JobInv
<1>6. Served(k)'
  BY <1>2, <1>5 DEF Served, d
<1>7. ServedInv'
  BY <1>1, <1>2, <1>5, <1>6, HandlerServed
<1>8. AskedInv'
  BY <1>2, <1>3, <1>4, <1>5, StillAsked DEF LostInv
<1>9. request'.status \notin {"absent", "fast_lane_processing"}
  BY <1>2, <1>3 DEF TypeOK, Enrichable, StatusWithSection
<1>10. JobInv'
  BY <1>2, <1>5, <1>9 DEF LostInv, JobInv
<1> QED
  BY <1>7, <1>8, <1>10 DEF LostInv

LEMMA LostStep == IInv /\ LostInv /\ [Next]_vars => LostInv'
<1> SUFFICES ASSUME IInv, LostInv, [Next]_vars PROVE LostInv'
  OBVIOUS
<1>0. Kept
  BY NextStep
<1>1. CASE CreateRequest \/ AssignSnapshot \/ Revoke \/ \E p \in Payments : Reconcile(p)
  BY <1>0, <1>1, CreateLost, AssignLost, RevokeLost, ReconcileLost
<1>2. CASE \E w \in Workers : Consuming(w) \/ Crash(w)
  BY <1>0, <1>2, QuietLost, EndLost, HandleFastLost, HandleViewableLost, PublishLost DEF Consuming
<1>3. CASE \E m \in Messages : Duplicate(m)
  BY <1>0, <1>3, DuplicateLost
<1>4. CASE UNCHANGED vars
  BY <1>0, <1>4, DeliveryLost DEF vars, access, content
<1> QED
  BY <1>1, <1>2, <1>3, <1>4 DEF Next

LEMMA LostCovers == IInv /\ LostInv => NothingIsLost
<1> SUFFICES ASSUME IInv, LostInv PROVE NothingIsLost
  OBVIOUS
<1>1. \A m \in Messages : message[m].status # "absent" => Open(m) \/ Served(m)
  BY DEF IInv, TypeOK, MessageRow, Open, LostInv, ServedInv
<1>2. ASSUME NEW p \in Payments, payment[p] = "fulfilled", request.status = "fast_lane_processing"
      PROVE  \E s \in Snapshots : Open(Fast(s))
  <2>1. PICK s \in Snapshots : message[Fast(s)].status # "absent"
    BY <1>2 DEF LostInv, AskedInv
  <2>2. ~Served(Fast(s))
    BY <1>2, MessageKinds DEF LostInv, JobInv, Served
  <2> QED
    BY <1>1, <2>1, <2>2, MessageKinds
<1>3. ASSUME revision.number > 0
      PROVE  Open(Viewable) \/ \A d \in Sections : section[d] # "absent"
  BY <1>1, <1>3, MessageKinds DEF LostInv, AskedInv, Served
<1>4. ASSUME NEW d \in Sections, section[d] = "pending"
      PROVE  \E s \in Snapshots : Open(Deep(d, s))
  <2>1. PICK s \in Snapshots : message[Deep(d, s)].status # "absent"
    BY <1>4 DEF LostInv, AskedInv
  <2>2. Deep(d, s).section = d /\ Deep(d, s).kind = "deep" /\ Deep(d, s) \in Messages
    BY MessageKinds DEF Deep
  <2>3. ~Served(Deep(d, s))
    BY <1>4, <2>2 DEF Served
  <2> QED
    BY <1>1, <2>1, <2>2, <2>3
<1> QED
  BY <1>2, <1>3, <1>4 DEF NothingIsLost

LEMMA LostInvariant == Spec => []LostInv
<1>1. IInv /\ LostInv /\ [Next]_vars => LostInv'
  BY LostStep
<1> QED
  BY InitLost, <1>1, Invariant, PTL DEF Spec

\* A paid request without a dataset, a dataset without its sections and a section that
\* is not published have a message that will be delivered, or a dead letter, whichever
\* consumers die between their commit and their acknowledgement.
THEOREM NothingLost == Spec => []NothingIsLost
<1>1. IInv /\ LostInv => NothingIsLost
  BY LostCovers
<1> QED
  BY <1>1, Invariant, LostInvariant, PTL

(***************************************************************************)
(* The pipeline implements PaidDataset.                                    *)
(***************************************************************************)
Taken == {p \in Payments : payment[p] = "fulfilled"}

PaidInv ==
    /\ \A p \in Taken :
        p \notin Misdirected /\ request.snapshot # None /\ request.status # "absent"
    /\ request.status = "revoked" => entitlement.status = "revoked"

LEMMA InitPaid == Init => PaidInv
BY DEF Init, PaidInv, Taken

LEMMA SameStatus ==
    ASSUME PaidInv, UNCHANGED <<payment, entitlement>>, request.snapshot # None => request'.snapshot # None,
           request.status # "absent" => request'.status # "absent",
           request'.status = "revoked" => request.status = "revoked"
    PROVE  PaidInv'
BY DEF PaidInv, Taken

LEMMA ReconcilePaid ==
    ASSUME NEW p \in Payments, TypeOK, PaidInv, Reconcile(p)
    PROVE  PaidInv'
<1>1. request' = request /\ payment \in [Payments -> {"absent", "pending", "fulfilled", "failed"}]
  BY DEF Reconcile, TypeOK
<1>2. CASE Wait(p) \/ Refuse(p)
  <2>1. Taken' \subseteq Taken /\ entitlement' = entitlement
    BY <1>1, <1>2 DEF Wait, Refuse, Taken
  <2> QED
    BY <1>1, <2>1 DEF PaidInv
<1>3. CASE Fulfil(p)
  <2>1. Taken' \subseteq Taken \cup {p} /\ (p \in Taken' => request.snapshot # None)
    BY <1>1, <1>3 DEF Fulfil, Taken
  <2>2. p \notin Misdirected /\ request.status \notin {"absent", "revoked"}
    BY <1>3 DEF Fulfil, Refused
  <2> QED
    BY <1>1, <2>1, <2>2 DEF PaidInv
<1> QED
  BY <1>2, <1>3 DEF Reconcile

LEMMA HandlerPaid ==
    ASSUME NEW w \in Workers, TypeOK, LostInv, PaidInv,
           HandleFast(w) \/ HandleViewable(w) \/ PublishSection(w)
    PROVE  PaidInv'
<1>1. UNCHANGED <<payment, entitlement>> /\ Entitled
  BY DEF HandleFast, HandleViewable, PublishSection, EntitledNow
<1>2. request.status \notin {"absent", "revoked"}
  BY <1>1 DEF Entitled, LostInv, JobInv
<1>3. request'.status \notin {"absent", "revoked"}
      /\ (request.snapshot # None => request'.snapshot # None)
  <2>1. CASE HandleFast(w)
    BY <1>2, <2>1, DatasetAssumption
       DEF HandleFast, StoreForReview, StoreViewable, StatusNotReady
  <2>2. CASE HandleViewable(w)
    BY <1>2, <2>2 DEF HandleViewable, TypeOK
  <2>3. CASE PublishSection(w)
    BY <1>2, <2>3 DEF PublishSection, StatusWithSection, TypeOK
  <2> QED
    BY <2>1, <2>2, <2>3
<1> QED
  BY <1>1, <1>2, <1>3, SameStatus

LEMMA PaidStep == IInv /\ LostInv /\ PaidInv /\ [Next]_vars => PaidInv'
<1> SUFFICES ASSUME TypeOK, LostInv, PaidInv, [Next]_vars PROVE PaidInv'
  BY DEF IInv
<1>1. CASE CreateRequest \/ AssignSnapshot
  BY <1>1, SameStatus, DatasetAssumption DEF CreateRequest, AssignSnapshot, TypeOK
<1>2. CASE Revoke
  BY <1>2 DEF Revoke, PaidInv, Taken, TypeOK
<1>3. CASE \E p \in Payments : Reconcile(p)
  BY <1>3, ReconcilePaid
<1>4. CASE \E w \in Workers : HandleFast(w) \/ HandleViewable(w) \/ PublishSection(w)
  BY <1>4, HandlerPaid
<1>5. CASE UNCHANGED access
  BY <1>5, SameStatus DEF access
<1> QED
  BY <1>1, <1>2, <1>3, <1>4, <1>5
     DEF Next, Consuming, Deliver, LoadEvidence, Fail, Acknowledge, Reject, Crash, Duplicate, vars, access

Sells == [Customer!PaidNext]_<<Customer!sale, Customer!editions>>

LEMMA QuietSells ==
    ASSUME UNCHANGED <<payment, entitlement, revision, published>>
    PROVE  Sells
BY DEF Sells, Customer!sale, Customer!editions, Jobs

LEMMA RevokeSells == TypeOK /\ Revoke => Sells
<1> SUFFICES ASSUME TypeOK, Revoke PROVE Sells
  OBVIOUS
<1>1. /\ entitlement.status # "none" /\ entitlement'.status = "revoked"
      /\ entitlement'.payment = entitlement.payment
      /\ UNCHANGED <<payment, revision, published>>
  BY DEF Revoke, content, TypeOK
<1>2. Customer!TakeBack
  BY <1>1 DEF Customer!TakeBack, Customer!editions, Jobs
<1> QED
  BY <1>2 DEF Sells, Customer!PaidNext

LEMMA ReconcileSells ==
    ASSUME NEW p \in Payments, IInv, PaidInv, Reconcile(p)
    PROVE  Sells
<1>1. UNCHANGED <<request, revision, published>>
      /\ payment \in [Payments -> {"absent", "pending", "fulfilled", "failed"}]
  BY DEF Reconcile, content, IInv, TypeOK
<1>2. UNCHANGED Customer!editions
  BY <1>1 DEF Customer!editions, Jobs
<1>3. CASE Wait(p)
  <2>1. p \notin Taken /\ entitlement' = entitlement
    BY <1>3 DEF Wait, PaidInv
  <2>2. Taken' = Taken
    BY <1>1, <1>3, <2>1 DEF Wait, Taken
  <2> QED
    BY <1>2, <2>1, <2>2 DEF Sells, Customer!sale, Taken
<1>4. CASE Refuse(p)
  <2>1. Taken' = Taken \ {p} /\ entitlement' = entitlement
    BY <1>1, <1>4 DEF Refuse, Taken
  <2>2. CASE p \in Taken
    <3>1. entitlement.status = "revoked"
      BY <1>4, <2>2 DEF Refuse, Refused, PaidInv, IInv, PaymentInv, Taken
    <3>2. Customer!GiveUp(p)
      BY <1>2, <2>1, <3>1 DEF Customer!GiveUp, Taken
    <3> QED
      BY <3>2 DEF Sells, Customer!PaidNext
  <2>3. CASE p \notin Taken
    BY <1>2, <2>1, <2>3 DEF Sells, Customer!sale, Taken
  <2> QED
    BY <2>2, <2>3
<1>5. CASE Fulfil(p)
  <2>1. /\ entitlement.status # "revoked" /\ entitlement.payment \in {None, p}
        /\ entitlement'.status = "active" /\ entitlement'.payment = p
    BY <1>5 DEF Fulfil, Refused
  <2>2. Taken' \in {Taken, Taken \cup {p}}
    <3>1. CASE request.snapshot = None
      <4>1. p \notin Taken
        BY <3>1 DEF PaidInv
      <4> QED
        BY <1>1, <1>5, <3>1, <4>1 DEF Fulfil, Taken
    <3>2. CASE request.snapshot # None
      <4>1. Taken' = Taken \cup {p}
        BY <1>1, <1>5, <3>2 DEF Fulfil, Taken
      <4> QED
        BY <4>1
    <3> QED
      BY <3>1, <3>2
  <2>3. Customer!Buy(p)
    BY <1>2, <2>1, <2>2 DEF Customer!Buy, Taken
  <2> QED
    BY <2>3 DEF Sells, Customer!PaidNext
<1> QED
  BY <1>3, <1>4, <1>5 DEF Reconcile

LEMMA HandleFastSells ==
    ASSUME NEW w \in Workers, IInv, HandleFast(w)
    PROVE  Sells
<1>1. UNCHANGED <<payment, entitlement, published>> /\ entitlement.status = "active"
  BY DEF HandleFast, Entitled
<1>2. revision \in [number : Nat, sections : SUBSET Sections]
  BY DEF IInv, TypeOK
<1>3. revision' = revision \/ revision' = FastRevision
  BY DEF HandleFast, StoreForReview, StoreViewable
<1>4. CASE revision' = revision
  BY <1>1, <1>4, QuietSells
<1>5. CASE revision.number = 0 /\ revision'.number = 1
  <2>1. Customer!FirstEdition
    BY <1>1, <1>5 DEF Customer!FirstEdition, Customer!sale, Jobs
  <2> QED
    BY <2>1 DEF Sells, Customer!PaidNext
<1> QED
  BY <1>2, <1>3, <1>4, <1>5 DEF FastRevision

LEMMA PublishSells ==
    ASSUME NEW w \in Workers, IInv, PublishSection(w)
    PROVE  Sells
<1> DEFINE d == worker[w].message.section
           s == request.snapshot
<1>1. /\ UNCHANGED <<payment, entitlement>> /\ entitlement.status = "active"
      /\ Enrichable /\ worker[w].pc = "publish" /\ worker[w].message.kind = "deep"
  BY DEF PublishSection, EntitledNow, Entitled, Handling
<1>2. worker[w].message \in Messages /\ revision.number > 0 /\ d \in Sections
  BY <1>1, MessageKinds DEF IInv, WorkerInv, Handles, MessageInv
<1>3. s \in Snapshots /\ TypeOK
  BY <1>1 DEF IInv, TypeOK, RequestInv, Enrichable
<1>4. \/ UNCHANGED <<revision, published>>
      \/ /\ s \notin published[d] /\ published' = [published EXCEPT ![d] = @ \cup {s}]
         /\ revision'.number = revision.number + 1
  BY DEF PublishSection
<1> HIDE DEF d, s
<1>5. CASE UNCHANGED <<revision, published>>
  BY <1>1, <1>5, QuietSells
<1>6. CASE /\ s \notin published[d] /\ published' = [published EXCEPT ![d] = @ \cup {s}]
           /\ revision'.number = revision.number + 1
  <2>1. Jobs' = Jobs \cup {<<d, s>>} /\ <<d, s>> \notin Jobs
    BY <1>2, <1>3, <1>6 DEF Jobs, TypeOK
  <2>2. Customer!Add(<<d, s>>)
    BY <1>1, <1>2, <1>6, <2>1 DEF Customer!Add, Customer!sale
  <2> QED
    BY <1>2, <1>3, <2>2 DEF Sells, Customer!PaidNext
<1> QED
  BY <1>4, <1>5, <1>6

LEMMA StepSells == IInv /\ PaidInv /\ [Next]_vars => Sells
<1> SUFFICES ASSUME IInv, PaidInv, [Next]_vars PROVE Sells
  OBVIOUS
<1>1. CASE Revoke
  BY <1>1, RevokeSells DEF IInv
<1>2. CASE \E p \in Payments : Reconcile(p)
  BY <1>2, ReconcileSells
<1>3. CASE \E w \in Workers : HandleFast(w) \/ PublishSection(w)
  BY <1>3, HandleFastSells, PublishSells
<1>4. CASE UNCHANGED <<payment, entitlement, revision, published>>
  BY <1>4, QuietSells
<1> QED
  BY <1>1, <1>2, <1>3, <1>4
     DEF Next, Consuming, CreateRequest, AssignSnapshot, Deliver, HandleViewable, LoadEvidence, Fail,
         Acknowledge, Reject, Crash, Duplicate, vars, access, content

\* The pipeline implements PaidDataset: whatever payments compete and whichever
\* messages come twice, one payment buys the dataset, editions are made only while
\* its access is open, one part each, and a payment taken is given up only when access
\* was taken back (reconcile_payment_event, revoke_entitlement and the handlers).
THEOREM DeliversPaid == Spec => DeliversWhatWasPaid
<1>1. Init => Customer!Unsold
  <2>1. Init => Jobs = {}
    BY DEF Init, Jobs
  <2> QED
    BY <2>1 DEF Init, Customer!Unsold
<1>2. IInv /\ LostInv /\ PaidInv /\ [Next]_vars => PaidInv'
  BY PaidStep
<1>3. Spec => []PaidInv
  BY InitPaid, <1>2, Invariant, LostInvariant, PTL DEF Spec
<1>4. IInv /\ PaidInv /\ [Next]_vars
        => [Customer!PaidNext]_<<Customer!sale, Customer!editions>>
  BY StepSells DEF Sells
<1> QED
  BY <1>1, <1>3, <1>4, Invariant, PTL DEF Spec, DeliversWhatWasPaid, Customer!Promise
=============================================================================
