--------------------------------- MODULE Outbox ---------------------------------
(***************************************************************************)
(* The publication outbox: rows of publication_events, the relay processes *)
(* that claim them in batches and publish them to NATS JetStream, and the  *)
(* operator who replays dead letters.  Claiming, publishing and recording  *)
(* the outcome are separate commits; other relays act, leases run out and  *)
(* processes die between any two.                                          *)
(*                                                                         *)
(* A claim draws a fresh owner and raises the row's token, so the token    *)
(* alone names the claim.  Relays may take claimable events in any order:  *)
(* SKIP LOCKED passes over an older row that another transaction holds.    *)
(***************************************************************************)
EXTENDS Naturals

CONSTANTS
    Events,       \* publication events a producer may commit
    Malformed,    \* events no envelope can be built from
    Relays,       \* relay processes
    MaxAttempts,  \* --max-attempts of the relay
    BatchLimit,   \* --limit: events one connection handles
    LeaseTerm,    \* clock ticks a claim lasts (90 seconds)
    MaxToken,     \* bound: claims up to which crashes, slow relays and replays happen
    None

ASSUME OutboxAssumption ==
    /\ MaxAttempts \in Nat \ {0} /\ BatchLimit \in Nat \ {0} /\ LeaseTerm \in Nat \ {0}
    /\ MaxToken \in Nat
    /\ Malformed \subseteq Events
    /\ None \notin Events

VARIABLES
    event,   \* publication_events
    relay,   \* local state of each relay process
    stored   \* events the stream has stored

vars == <<event, relay, stored>>

Status == {"absent", "pending", "processing", "published", "failed", "dead_letter"}

EventRow == [status : Status, attempts : 0 .. MaxAttempts, token : Nat,
             lease : 0 .. LeaseTerm, backoff : BOOLEAN,
             error : {"none", "BROKER_DELIVERY_FAILED", "DELIVERY_ATTEMPTS_EXHAUSTED"}]

\* attempts is the claimed row's count, as the process remembers it.
RelayRow == [pc : {"idle", "claim", "publish", "delivered", "failed"},
             event : Events \cup {None}, token : Nat, attempts : 0 .. MaxAttempts,
             handled : 0 .. BatchLimit]

TypeOK ==
    /\ event \in [Events -> EventRow]
    /\ relay \in [Relays -> RelayRow]
    /\ stored \subseteq Events

IdleRelay == [pc |-> "idle", event |-> None, token |-> 0, attempts |-> 0, handled |-> 0]

Init ==
    /\ event = [e \in Events |-> [status |-> "absent", attempts |-> 0, token |-> 0,
                                  lease |-> 0, backoff |-> FALSE, error |-> "none"]]
    /\ relay = [r \in Relays |-> IdleRelay]
    /\ stored = {}

(***************************************************************************)
(* A producer's transaction inserts the event with the rows it announces.  *)
(***************************************************************************)
Append(e) ==
    /\ event[e].status = "absent"
    /\ event' = [event EXCEPT ![e] = [@ EXCEPT !.status = "pending"]]
    /\ UNCHANGED <<relay, stored>>

(***************************************************************************)
(* One batch of relay_pending_events: connect, then claim, publish and     *)
(* record until nothing is claimable or the limit is reached.  A relay     *)
(* that cannot connect claims nothing and polls again.                     *)
(***************************************************************************)
Connect(r) ==
    /\ relay[r].pc = "idle"
    /\ relay' = [relay EXCEPT ![r] = [IdleRelay EXCEPT !.pc = "claim"]]
    /\ UNCHANGED <<event, stored>>

Expired(e) == event[e].status = "processing" /\ event[e].lease = 0

\* Variant: off by one in the sweep.
ExhaustedLater(e) == Expired(e) /\ event[e].attempts > MaxAttempts

\* The lease of the last attempt ran out: nobody will record how it ended.
Exhausted(e) == Expired(e) /\ event[e].attempts >= MaxAttempts

\* Variant: off by one in the limit.
ClaimableOnceMore(e) ==
    /\ event[e].attempts <= MaxAttempts
    /\ \/ event[e].status \in {"pending", "failed"} /\ ~event[e].backoff
       \/ Expired(e)

Claimable(e) ==
    /\ event[e].attempts < MaxAttempts
    /\ \/ event[e].status \in {"pending", "failed"} /\ ~event[e].backoff
       \/ Expired(e)

Swept == [e \in Events |->
    IF Exhausted(e)
    THEN [event[e] EXCEPT !.status = "dead_letter", !.error = "DELIVERY_ATTEMPTS_EXHAUSTED"]
    ELSE event[e]]

\* _claim_next_event: sweep, then claim, in one transaction.
Claim(r) ==
    /\ relay[r].pc = "claim"
    /\ \/ \E e \in Events :
            /\ Claimable(e)
            /\ event' = [Swept EXCEPT ![e] = [@ EXCEPT
                            !.status = "processing", !.attempts = event[e].attempts + 1,
                            !.token = event[e].token + 1, !.lease = LeaseTerm]]
            /\ relay' = [relay EXCEPT ![r] = [@ EXCEPT
                            !.pc = "publish", !.event = e, !.token = event[e].token + 1,
                            !.attempts = event[e].attempts + 1]]
       \/ /\ \A e \in Events : ~Claimable(e)
          /\ event' = Swept
          /\ relay' = [relay EXCEPT ![r] = IdleRelay]
    /\ UNCHANGED stored

Acknowledged == [stored |-> TRUE, told |-> "delivered"]
Unacknowledged == [stored |-> TRUE, told |-> "failed"]
Lost == [stored |-> FALSE, told |-> "failed"]

\* Variant: a publication that expects no acknowledgement.
OutcomesUnacknowledged(e) ==
    IF e \in Malformed THEN {Lost} ELSE {Acknowledged, [stored |-> FALSE, told |-> "delivered"]}

\* Whether the stream got the message, and what the relay learns: an acknowledgement
\* may be lost, and an envelope that cannot be built fails before the broker sees it.
Outcomes(e) ==
    IF e \in Malformed THEN {Lost} ELSE {Acknowledged, Unacknowledged, Lost}

\* publish_event.  A copy of a message that the stream dropped, because it stored the key
\* of the row not long ago, counts as stored.
Publish(r) ==
    /\ relay[r].pc = "publish"
    /\ \E outcome \in Outcomes(relay[r].event) :
        /\ stored' = IF outcome.stored THEN stored \cup {relay[r].event} ELSE stored
        /\ relay' = [relay EXCEPT ![r] = [@ EXCEPT !.pc = outcome.told]]
    /\ UNCHANGED event

\* Variant: any live claim of the event will do.
HeldByAnyone(r) ==
    LET e == relay[r].event IN event[e].status = "processing" /\ event[e].lease > 0

\* The guard of _finish_delivery: the claim is still this relay's.
Held(r) ==
    LET e == relay[r].event IN
    /\ event[e].status = "processing"
    /\ event[e].token = relay[r].token
    /\ event[e].lease > 0

\* delivery_status_after_failure, by the count the relay remembers.
StatusAfterFailure(attempts) == IF attempts >= MaxAttempts THEN "dead_letter" ELSE "failed"

Outcome(r) ==
    IF relay[r].pc = "delivered" THEN "published" ELSE StatusAfterFailure(relay[r].attempts)

\* _mark_delivered and _record_delivery_failure.  DeliveryLeaseLost is caught nowhere: it
\* ends the batch and the process, which starts over.
Finish(r) ==
    LET e == relay[r].event IN
    /\ relay[r].pc \in {"delivered", "failed"}
    /\ IF Held(r)
       THEN /\ event' = [event EXCEPT ![e] = [@ EXCEPT
                  !.status = Outcome(r), !.lease = 0, !.backoff = Outcome(r) = "failed",
                  !.error = IF relay[r].pc = "failed" THEN "BROKER_DELIVERY_FAILED" ELSE "none"]]
            /\ relay' = [relay EXCEPT ![r] =
                  IF relay[r].handled + 1 < BatchLimit
                  THEN [IdleRelay EXCEPT !.pc = "claim", !.handled = relay[r].handled + 1]
                  ELSE IdleRelay]
       ELSE /\ relay' = [relay EXCEPT ![r] = IdleRelay]
            /\ UNCHANGED event
    /\ UNCHANGED stored

(***************************************************************************)
(* The operator, the clocks and the death of a relay.                      *)
(***************************************************************************)
Replayed(row) == [row EXCEPT !.status = "pending", !.attempts = 0]

\* replay_dead_letter; the note it leaves in last_delivery_error is not an error code.
Replay(e) ==
    /\ event[e].status = "dead_letter" /\ event[e].token < MaxToken
    /\ event' = [event EXCEPT ![e] = [Replayed(@) EXCEPT !.error = "none"]]
    /\ UNCHANGED <<relay, stored>>

Abandoned(e) == \A r \in Relays : ~(relay[r].event = e /\ Held(r))

LeaseTick(e) ==
    /\ event[e].status = "processing" /\ event[e].lease > 0
    /\ event[e].token < MaxToken \/ Abandoned(e)
    /\ event' = [event EXCEPT ![e] = [@ EXCEPT !.lease = event[e].lease - 1]]
    /\ UNCHANGED <<relay, stored>>

\* next_delivery_at passes, five seconds after a failure.
BackoffEnds(e) ==
    /\ event[e].backoff
    /\ event' = [event EXCEPT ![e] = [@ EXCEPT !.backoff = FALSE]]
    /\ UNCHANGED <<relay, stored>>

Crash(r) ==
    /\ relay[r].pc \in {"publish", "delivered", "failed"} /\ relay[r].token < MaxToken
    /\ relay' = [relay EXCEPT ![r] = IdleRelay]
    /\ UNCHANGED <<event, stored>>

Relaying(r) == Connect(r) \/ Claim(r) \/ Publish(r) \/ Finish(r)

Next ==
    \/ \E r \in Relays : Relaying(r) \/ Crash(r)
    \/ \E e \in Events : Append(e) \/ Replay(e) \/ LeaseTick(e) \/ BackoffEnds(e)

Spec == Init /\ [][Next]_vars

\* The service polls for ever and is restarted when it dies, the broker is not out of
\* reach for ever, and clocks run.
FairSpec ==
    /\ Spec
    /\ \A r \in Relays : WF_vars(Relaying(r))
    /\ \A e \in Events : WF_vars(Abandoned(e) /\ LeaseTick(e)) /\ WF_vars(BackoffEnds(e))

(***************************************************************************)
(* Properties.                                                             *)
(***************************************************************************)
\* An event that waits for delivery still has an attempt to spend; one without would
\* neither be claimed nor swept, and stay undelivered unnoticed (outbox.py:218-230, 265-288).
RetryableHasAttempts ==
    \A e \in Events : event[e].status \in {"pending", "failed"} => event[e].attempts < MaxAttempts

\* What a row tells those who committed the event.
ReportOf(e) ==
    CASE event[e].status = "absent" -> "absent"
      [] event[e].status = "published" -> "delivered"
      [] event[e].status = "dead_letter" -> "undelivered"
      [] OTHER -> "open"

\* The rows and the stream implement at-least-once delivery (outbox.py:126-131).
Delivery == INSTANCE AtLeastOnce WITH
    report <- [e \in Events |-> ReportOf(e)],
    onBus <- stored

\* What is reported as published is on the bus, whatever relay or replay comes late.
DeliversAtLeastOnce == Delivery!Promise

\* Every committed event is published or becomes a dead letter someone can replay
\* (outbox.py:118-199).
EventSettles ==
    \A e \in Events :
        event[e].status # "absent" ~> event[e].status \in {"published", "dead_letter"}

\* A broker outage leaves the event pending (docs/architecture/independent-bank-connectors.md:141):
\* where nothing fails but the broker, no event becomes a dead letter.
OutageLeavesPending == \A e \in Events : event[e].status # "dead_letter"
=============================================================================
