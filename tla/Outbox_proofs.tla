----------------------------- MODULE Outbox_proofs -----------------------------
(***************************************************************************)
(* The outbox, for any number of events and relays, any limits and any     *)
(* number of crashes, expired claims and replays: its type invariant, the  *)
(* attempts left to an event that waits, and at-least-once delivery.       *)
(***************************************************************************)
EXTENDS Outbox, TLAPS

USE OutboxAssumption

(***************************************************************************)
(* What a relay in the middle of a delivery knows.  Tokens only grow, so a *)
(* row that still carries the relay's token has not been claimed since and *)
(* still counts the attempts the relay remembers; and what the relay was   *)
(* told is delivered is on the stream.                                     *)
(***************************************************************************)
Carrying(r) == relay[r].pc \in {"publish", "delivered", "failed"}

Knows(r) ==
    /\ relay[r].event \in Events
    /\ event[relay[r].event].status # "absent"
    /\ relay[r].token <= event[relay[r].event].token
    /\ event[relay[r].event].token = relay[r].token /\ event[relay[r].event].status = "processing"
           => event[relay[r].event].attempts = relay[r].attempts
    /\ relay[r].pc = "delivered" => relay[r].event \in stored

RelaysKnow == \A r \in Relays : Carrying(r) => Knows(r)

\* RetryableHasAttempts, said of the events not committed yet as well.
Unspent ==
    \A e \in Events :
        event[e].status \in {"absent", "pending", "failed"} => event[e].attempts < MaxAttempts

OutboxInv == TypeOK /\ Unspent /\ RelaysKnow

\* What the rows may do under the relays' feet without making their knowledge wrong.
RowMoves(e) ==
    /\ event[e].status # "absent" => event'[e].status # "absent"
    /\ event'[e].token >= event[e].token
    /\ event'[e].token = event[e].token /\ event'[e].status = "processing"
           => event[e].status = "processing" /\ event'[e].attempts = event[e].attempts

LEMMA KnowledgeKept ==
    ASSUME TypeOK, TypeOK', NEW r \in Relays, Knows(r), relay'[r] = relay[r],
           RowMoves(relay[r].event), stored \subseteq stored'
    PROVE  Knows(r)'
<1> DEFINE e == relay[r].event
<1>1. /\ e \in Events /\ relay[r].token \in Nat
      /\ event[e].token \in Nat /\ event'[e].token \in Nat
  BY DEF TypeOK, Knows, EventRow, RelayRow
<1>2. event'[e].token = relay[r].token => event[e].token = relay[r].token
  BY <1>1 DEF Knows, RowMoves
<1>3. relay[r].token <= event'[e].token
  BY <1>1 DEF Knows, RowMoves
<1> QED BY <1>1, <1>2, <1>3 DEF Knows, RowMoves

(***************************************************************************)
(* Columns of the rows.                                                    *)
(***************************************************************************)
LEMMA EventColumns ==
    ASSUME NEW row \in EventRow
    PROVE  /\ \A v \in Status : [row EXCEPT !.status = v] \in EventRow
           /\ \A v \in 0 .. MaxAttempts : [row EXCEPT !.attempts = v] \in EventRow
           /\ \A v \in 0 .. LeaseTerm : [row EXCEPT !.lease = v] \in EventRow
           /\ \A v \in BOOLEAN : [row EXCEPT !.backoff = v] \in EventRow
           /\ \A v \in Nat : [row EXCEPT !.token = v] \in EventRow
           /\ \A v \in {"none", "BROKER_DELIVERY_FAILED", "DELIVERY_ATTEMPTS_EXHAUSTED"} :
                [row EXCEPT !.error = v] \in EventRow
BY DEF EventRow

\* A step that writes one event row in place keeps the rows typed and the other rows as
\* they are.
LEMMA OneRow ==
    ASSUME TypeOK, NEW e \in Events, NEW row \in EventRow, event' = [event EXCEPT ![e] = row]
    PROVE  /\ event' \in [Events -> EventRow]
           /\ event'[e] = row /\ \A x \in Events \ {e} : event'[x] = event[x]
BY DEF TypeOK

\* A step that moves one relay.
LEMMA OneRelay ==
    ASSUME TypeOK, NEW r \in Relays, NEW row \in RelayRow, relay' = [relay EXCEPT ![r] = row]
    PROVE  /\ relay' \in [Relays -> RelayRow]
           /\ relay'[r] = row /\ \A x \in Relays \ {r} : relay'[x] = relay[x]
BY DEF TypeOK

LEMMA IdleRelayType == IdleRelay \in RelayRow
BY DEF IdleRelay, RelayRow

(***************************************************************************)
(* Steps that write one event row and move no relay.                       *)
(***************************************************************************)
LEMMA RowStep ==
    ASSUME OutboxInv, NEW e \in Events, NEW row \in EventRow,
           event' = [event EXCEPT ![e] = row], UNCHANGED <<relay, stored>>,
           row.status \in {"absent", "pending", "failed"} => row.attempts < MaxAttempts,
           RowMoves(e)
    PROVE  OutboxInv'
<1>1. TypeOK'
  BY OneRow DEF OutboxInv, TypeOK
<1>2. Unspent'
  BY OneRow DEF OutboxInv, Unspent
<1>3. RelaysKnow'
  <2> SUFFICES ASSUME NEW r \in Relays, Carrying(r)' PROVE Knows(r)'
    BY DEF RelaysKnow
  <2>1. Carrying(r) /\ Knows(r)
    BY DEF Carrying, OutboxInv, RelaysKnow
  <2>2. RowMoves(relay[r].event)
    BY <2>1, OneRow DEF RowMoves, Knows, OutboxInv, TypeOK, EventRow
  <2> QED BY <1>1, <2>1, <2>2, KnowledgeKept DEF OutboxInv
<1> QED BY <1>1, <1>2, <1>3 DEF OutboxInv

LEMMA RowSteps ==
    ASSUME OutboxInv, NEW e \in Events,
           Append(e) \/ Replay(e) \/ LeaseTick(e) \/ BackoffEnds(e)
    PROVE  OutboxInv'
<1>0. /\ event[e] \in EventRow /\ event[e].token \in Nat /\ event[e].attempts \in 0 .. MaxAttempts
      /\ event[e].lease \in 0 .. LeaseTerm
      /\ event[e].status \in {"absent", "pending", "failed"} => event[e].attempts < MaxAttempts
  BY DEF OutboxInv, Unspent, TypeOK, EventRow
<1>1. CASE Append(e)
  <2> DEFINE row == [event[e] EXCEPT !.status = "pending"]
  <2>1. row \in EventRow /\ event' = [event EXCEPT ![e] = row]
    BY <1>0, <1>1, EventColumns DEF Append, Status
  <2>2. row.status = "pending" /\ row.attempts = event[e].attempts /\ row.token = event[e].token
    BY <1>0 DEF EventRow
  <2>3. event'[e] = row
    BY <2>1, OneRow DEF OutboxInv
  <2> HIDE DEF row
  <2>4. RowMoves(e)
    BY <1>0, <1>1, <2>1, <2>2, <2>3 DEF Append, RowMoves
  <2>5. row.status \in {"absent", "pending", "failed"} => row.attempts < MaxAttempts
    BY <1>0, <1>1, <2>1, <2>2, <2>3 DEF Append
  <2>6. UNCHANGED <<relay, stored>>
    BY <1>1 DEF Append
  <2> QED BY <2>1, <2>4, <2>5, <2>6, RowStep
<1>2. CASE Replay(e)
  <2> DEFINE row == [Replayed(event[e]) EXCEPT !.error = "none"]
  <2>0. event[e].status = "dead_letter" /\ event' = [event EXCEPT ![e] = row]
    BY <1>2, <1>0 DEF Replay, OutboxInv, TypeOK
  <2>1. row \in EventRow /\ event' = [event EXCEPT ![e] = row]
    <3>1. Replayed(event[e]) \in EventRow
      <4>1. "pending" \in Status /\ 0 \in 0 .. MaxAttempts
        BY DEF Status
      <4> QED BY <1>0, <4>1, EventColumns DEF Replayed
    <3> QED BY <2>0, <3>1, EventColumns
  <2>2. row.status = "pending" /\ row.attempts = 0 /\ row.token = event[e].token
    BY <1>0 DEF EventRow, Replayed
  <2>3. event'[e] = row
    BY <2>1, OneRow DEF OutboxInv
  <2> HIDE DEF row
  <2>4. RowMoves(e)
    BY <1>0, <2>0, <2>2, <2>3 DEF RowMoves
  <2>5. row.status \in {"absent", "pending", "failed"} => row.attempts < MaxAttempts
    BY <1>0, <1>2, <2>1, <2>2, <2>3 DEF Replay
  <2>6. UNCHANGED <<relay, stored>>
    BY <1>2 DEF Replay
  <2> QED BY <2>1, <2>4, <2>5, <2>6, RowStep
<1>3. CASE LeaseTick(e)
  <2> DEFINE row == [event[e] EXCEPT !.lease = event[e].lease - 1]
  <2>1. event[e].lease - 1 \in 0 .. LeaseTerm
    BY <1>0, <1>3 DEF LeaseTick
  <2>2. row \in EventRow /\ event' = [event EXCEPT ![e] = row]
    BY <1>0, <1>3, <2>1, EventColumns DEF LeaseTick
  <2>3. /\ row.status = event[e].status /\ row.attempts = event[e].attempts
        /\ row.token = event[e].token
    BY <1>0 DEF EventRow
  <2>4. event'[e] = row
    BY <2>2, OneRow DEF OutboxInv
  <2> HIDE DEF row
  <2>5. RowMoves(e)
    BY <1>0, <1>3, <2>1, <2>2, <2>3, <2>4 DEF LeaseTick, RowMoves
  <2>6. row.status \in {"absent", "pending", "failed"} => row.attempts < MaxAttempts
    BY <1>0, <1>3, <2>1, <2>2, <2>3, <2>4 DEF LeaseTick
  <2>7. UNCHANGED <<relay, stored>>
    BY <1>3 DEF LeaseTick
  <2> QED BY <2>2, <2>5, <2>6, <2>7, RowStep
<1>4. CASE BackoffEnds(e)
  <2> DEFINE row == [event[e] EXCEPT !.backoff = FALSE]
  <2>1. row \in EventRow /\ event' = [event EXCEPT ![e] = row]
    BY <1>0, <1>4, EventColumns DEF BackoffEnds
  <2>2. /\ row.status = event[e].status /\ row.attempts = event[e].attempts
        /\ row.token = event[e].token
    BY <1>0 DEF EventRow
  <2>3. event'[e] = row
    BY <2>1, OneRow DEF OutboxInv
  <2> HIDE DEF row
  <2>4. RowMoves(e)
    BY <1>0, <1>4, <2>1, <2>2, <2>3 DEF BackoffEnds, RowMoves
  <2>5. row.status \in {"absent", "pending", "failed"} => row.attempts < MaxAttempts
    BY <1>0, <1>4, <2>1, <2>2, <2>3 DEF BackoffEnds
  <2>6. UNCHANGED <<relay, stored>>
    BY <1>4 DEF BackoffEnds
  <2> QED BY <2>1, <2>4, <2>5, <2>6, RowStep
<1> QED BY <1>1, <1>2, <1>3, <1>4

(***************************************************************************)
(* Steps of a relay.                                                       *)
(***************************************************************************)
\* A relay that carries nothing after the step knows nothing; the others keep what they
\* know.
LEMMA RelayStep ==
    ASSUME OutboxInv, TypeOK', Unspent', NEW r \in Relays, NEW row \in RelayRow,
           relay' = [relay EXCEPT ![r] = row],
           stored \subseteq stored', \A e \in Events : RowMoves(e),
           Carrying(r)' => Knows(r)'
    PROVE  OutboxInv'
<1> SUFFICES ASSUME NEW x \in Relays, Carrying(x)' PROVE Knows(x)'
  BY DEF OutboxInv, RelaysKnow
<1>1. CASE x = r
  BY <1>1
<1>2. CASE x # r
  <2>1. relay'[x] = relay[x]
    BY <1>2, OneRelay DEF OutboxInv
  <2>2. Knows(x)
    BY <2>1 DEF Carrying, OutboxInv, RelaysKnow
  <2> QED BY <2>1, <2>2, KnowledgeKept DEF OutboxInv, Knows
<1> QED BY <1>1, <1>2

LEMMA RowsStill == ASSUME OutboxInv, UNCHANGED event PROVE Unspent' /\ \A e \in Events : RowMoves(e)
BY DEF OutboxInv, Unspent, RowMoves, TypeOK, EventRow

LEMMA ConnectStep == ASSUME OutboxInv, NEW r \in Relays, Connect(r) PROVE OutboxInv'
<1> DEFINE row == [IdleRelay EXCEPT !.pc = "claim"]
<1>1. row \in RelayRow /\ row.pc = "claim" /\ relay' = [relay EXCEPT ![r] = row]
  BY IdleRelayType DEF RelayRow, Connect
<1> HIDE DEF row
<1>2. TypeOK'
  BY <1>1, OneRelay DEF OutboxInv, TypeOK, Connect
<1>3. ~Carrying(r)'
  BY <1>1, OneRelay DEF OutboxInv, Carrying
<1> QED BY <1>1, <1>2, <1>3, RowsStill, RelayStep DEF Connect

LEMMA CrashStep == ASSUME OutboxInv, NEW r \in Relays, Crash(r) PROVE OutboxInv'
<1>1. IdleRelay.pc = "idle" /\ relay' = [relay EXCEPT ![r] = IdleRelay]
  BY DEF IdleRelay, Crash
<1>2. TypeOK'
  BY <1>1, IdleRelayType, OneRelay DEF OutboxInv, TypeOK, Crash
<1>3. ~Carrying(r)'
  BY <1>1, IdleRelayType, OneRelay DEF OutboxInv, Carrying
<1> QED BY <1>1, <1>2, <1>3, IdleRelayType, RowsStill, RelayStep DEF Crash

LEMMA PublishStep == ASSUME OutboxInv, NEW r \in Relays, Publish(r) PROVE OutboxInv'
<1> DEFINE e == relay[r].event
<1>0. relay[r] \in RelayRow /\ Carrying(r) /\ Knows(r) /\ e \in Events
  BY DEF Publish, Carrying, OutboxInv, RelaysKnow, TypeOK, Knows
<1>1. PICK outcome \in Outcomes(e) :
        /\ stored' = IF outcome.stored THEN stored \cup {e} ELSE stored
        /\ relay' = [relay EXCEPT ![r] = [@ EXCEPT !.pc = outcome.told]]
  BY DEF Publish
<1>2. /\ outcome.told \in {"delivered", "failed"}
      /\ outcome.told = "delivered" => outcome.stored
  <2>1. outcome \in {Acknowledged, Unacknowledged, Lost}
    BY DEF Outcomes
  <2> QED BY <2>1 DEF Acknowledged, Unacknowledged, Lost
<1> DEFINE row == [relay[r] EXCEPT !.pc = outcome.told]
<1>3. /\ row \in RelayRow /\ relay' = [relay EXCEPT ![r] = row]
      /\ row.event = e /\ row.token = relay[r].token /\ row.attempts = relay[r].attempts
      /\ row.pc = outcome.told
  BY <1>0, <1>1, <1>2 DEF RelayRow
<1> HIDE DEF row
<1>4. relay' \in [Relays -> RelayRow] /\ relay'[r] = row
  BY <1>3, OneRelay DEF OutboxInv
<1>5. stored \subseteq stored' /\ stored' \subseteq Events
  BY <1>0, <1>1 DEF OutboxInv, TypeOK
<1>6. TypeOK'
  BY <1>4, <1>5 DEF OutboxInv, TypeOK, Publish
<1>7. Knows(r)'
  BY <1>0, <1>1, <1>2, <1>3, <1>4 DEF Knows, Publish
<1> QED BY <1>3, <1>5, <1>6, <1>7, RowsStill, RelayStep DEF Publish

LEMMA ClaimStep == ASSUME OutboxInv, NEW r \in Relays, Claim(r) PROVE OutboxInv'
<1>0. /\ Swept \in [Events -> EventRow] /\ event \in [Events -> EventRow]
      /\ \A e \in Events :
            /\ Swept[e].token = event[e].token /\ Swept[e].attempts = event[e].attempts
            /\ Swept[e].status = event[e].status \/ Swept[e].status = "dead_letter"
            /\ event[e].token \in Nat /\ event[e].attempts \in 0 .. MaxAttempts
  <2> SUFFICES ASSUME NEW e \in Events
               PROVE  /\ event[e] \in EventRow /\ Swept[e] \in EventRow
                      /\ Swept[e].token = event[e].token /\ Swept[e].attempts = event[e].attempts
                      /\ Swept[e].status = event[e].status \/ Swept[e].status = "dead_letter"
                      /\ event[e].token \in Nat /\ event[e].attempts \in 0 .. MaxAttempts
    BY DEF Swept, OutboxInv, TypeOK
  <2> DEFINE dead == [event[e] EXCEPT
                         !.status = "dead_letter", !.error = "DELIVERY_ATTEMPTS_EXHAUSTED"]
  <2>1. event[e] \in EventRow
    BY DEF OutboxInv, TypeOK
  <2>2. dead \in EventRow
    BY <2>1, EventColumns DEF Status
  <2>3. /\ dead.token = event[e].token /\ dead.attempts = event[e].attempts
        /\ dead.status = "dead_letter"
    BY <2>1 DEF EventRow
  <2>4. event[e].token \in Nat /\ event[e].attempts \in 0 .. MaxAttempts
    BY <2>1 DEF EventRow
  <2>5. Swept[e] = dead \/ Swept[e] = event[e]
    BY DEF Swept
  <2> QED BY <2>1, <2>2, <2>3, <2>4, <2>5
<1> HIDE DEF Swept
<1>1. ASSUME NEW e \in Events, Claimable(e),
             event' = [Swept EXCEPT ![e] = [@ EXCEPT
                          !.status = "processing", !.attempts = event[e].attempts + 1,
                          !.token = event[e].token + 1, !.lease = LeaseTerm]],
             relay' = [relay EXCEPT ![r] = [@ EXCEPT
                          !.pc = "publish", !.event = e, !.token = event[e].token + 1,
                          !.attempts = event[e].attempts + 1]],
             UNCHANGED stored
      PROVE  OutboxInv'
  <2> DEFINE new == [Swept[e] EXCEPT
                        !.status = "processing", !.attempts = event[e].attempts + 1,
                        !.token = event[e].token + 1, !.lease = LeaseTerm]
             row == [relay[r] EXCEPT
                        !.pc = "publish", !.event = e, !.token = event[e].token + 1,
                        !.attempts = event[e].attempts + 1]
  <2>1. event[e].attempts + 1 \in 0 .. MaxAttempts /\ event[e].token + 1 \in Nat
    BY <1>0, <1>1 DEF Claimable
  <2>2. /\ new \in EventRow /\ new.status = "processing"
        /\ new.attempts = event[e].attempts + 1 /\ new.token = event[e].token + 1
    <3>1. LeaseTerm \in 0 .. LeaseTerm /\ "processing" \in Status /\ Swept[e] \in EventRow
      BY <1>0 DEF Status
    <3>2. new \in EventRow
      BY <2>1, <3>1, EventColumns
    <3> QED BY <3>1, <3>2 DEF EventRow
  <2>3. /\ row \in RelayRow /\ row.pc = "publish" /\ row.event = e
        /\ row.token = event[e].token + 1 /\ row.attempts = event[e].attempts + 1
    BY <2>1 DEF OutboxInv, TypeOK, RelayRow
  <2>4. event' = [Swept EXCEPT ![e] = new] /\ relay' = [relay EXCEPT ![r] = row]
    BY <1>1
  <2> HIDE DEF new, row
  <2>5. /\ event' \in [Events -> EventRow] /\ event'[e] = new
        /\ \A x \in Events \ {e} : event'[x] = Swept[x]
    BY <1>0, <2>2, <2>4
  <2>6. TypeOK'
    BY <1>1, <2>3, <2>4, <2>5, OneRelay DEF OutboxInv, TypeOK
  <2>7. Unspent'
    BY <1>0, <2>2, <2>5 DEF OutboxInv, Unspent
  <2>8. \A x \in Events : RowMoves(x)
    BY <1>0, <2>2, <2>5 DEF RowMoves
  <2>9. Knows(r)'
    <3>1. relay'[r] = row
      BY <2>3, <2>4, OneRelay DEF OutboxInv
    <3> QED BY <2>1, <2>2, <2>3, <2>5, <3>1 DEF Knows
  <2> QED BY <1>1, <2>3, <2>4, <2>6, <2>7, <2>8, <2>9, RelayStep
<1>2. ASSUME event' = Swept, relay' = [relay EXCEPT ![r] = IdleRelay],
             UNCHANGED stored
      PROVE  OutboxInv'
  <2>1. TypeOK'
    BY <1>0, <1>2, IdleRelayType, OneRelay DEF OutboxInv, TypeOK
  <2>2. Unspent'
    BY <1>0, <1>2 DEF OutboxInv, Unspent
  <2>3. \A x \in Events : RowMoves(x)
    BY <1>0, <1>2 DEF RowMoves
  <2>4. ~Carrying(r)'
    BY <1>2, IdleRelayType, OneRelay DEF OutboxInv, Carrying, IdleRelay
  <2> QED BY <1>2, <2>1, <2>2, <2>3, <2>4, IdleRelayType, RelayStep
<1> QED BY <1>1, <1>2 DEF Claim

\* What a relay that still holds its claim records.
LEMMA FinishRow ==
    ASSUME OutboxInv, NEW r \in Relays, Finish(r), Held(r), NEW e \in Events, e = relay[r].event
    PROVE  \E row \in EventRow :
              /\ event' = [event EXCEPT ![e] = row]
              /\ row.status = Outcome(r)
              /\ row.attempts = event[e].attempts /\ row.token = event[e].token
<1> DEFINE row == [event[e] EXCEPT
              !.status = Outcome(r), !.lease = 0, !.backoff = Outcome(r) = "failed",
              !.error = IF relay[r].pc = "failed" THEN "BROKER_DELIVERY_FAILED" ELSE "none"]
<1>1. event[e] \in EventRow
  BY DEF OutboxInv, TypeOK
<1>2. /\ Outcome(r) \in Status /\ 0 \in 0 .. LeaseTerm
      /\ (Outcome(r) = "failed") \in BOOLEAN
  BY DEF Outcome, StatusAfterFailure, Status
<1>3. row \in EventRow
  BY <1>1, <1>2, EventColumns
<1>4. row.status = Outcome(r) /\ row.attempts = event[e].attempts /\ row.token = event[e].token
  BY <1>1, <1>3 DEF EventRow
<1>5. event' = [event EXCEPT ![e] = row]
  BY DEF Finish
<1> HIDE DEF row
<1> QED BY <1>3, <1>4, <1>5

LEMMA FinishStep == ASSUME OutboxInv, NEW r \in Relays, Finish(r) PROVE OutboxInv'
<1>0. PICK e \in Events : e = relay[r].event
  BY DEF Finish, Carrying, OutboxInv, RelaysKnow, Knows
<1>1. /\ relay[r] \in RelayRow /\ Carrying(r) /\ Knows(r)
      /\ relay[r].attempts \in 0 .. MaxAttempts
      /\ UNCHANGED stored
  BY DEF Finish, Carrying, OutboxInv, RelaysKnow, TypeOK, RelayRow
<1>2. CASE ~Held(r)
  <2>1. relay' = [relay EXCEPT ![r] = IdleRelay] /\ UNCHANGED event
    BY <1>2 DEF Finish
  <2>2. TypeOK'
    BY <1>1, <2>1, IdleRelayType, OneRelay DEF OutboxInv, TypeOK
  <2>3. ~Carrying(r)'
    BY <2>1, IdleRelayType, OneRelay DEF OutboxInv, Carrying, IdleRelay
  <2> QED BY <1>1, <2>1, <2>2, <2>3, IdleRelayType, RowsStill, RelayStep
<1>3. CASE Held(r)
  <2> DEFINE row == IF relay[r].handled + 1 < BatchLimit
                    THEN [IdleRelay EXCEPT !.pc = "claim", !.handled = relay[r].handled + 1]
                    ELSE IdleRelay
  <2>1. PICK new \in EventRow :
            /\ event' = [event EXCEPT ![e] = new]
            /\ new.status = Outcome(r)
            /\ new.attempts = event[e].attempts /\ new.token = event[e].token
    BY <1>0, <1>3, FinishRow
  <2>2. /\ Outcome(r) \in {"published", "failed", "dead_letter"}
        /\ Outcome(r) = "failed" => relay[r].attempts < MaxAttempts
    BY <1>1 DEF Outcome, StatusAfterFailure
  <2>3. event[e].attempts = relay[r].attempts
    BY <1>0, <1>1, <1>3 DEF Held, Knows
  <2>4. row \in RelayRow /\ row.pc \in {"claim", "idle"}
    <3>1. relay[r].handled \in 0 .. BatchLimit
      BY <1>1 DEF RelayRow
    <3>2. relay[r].handled + 1 < BatchLimit => relay[r].handled + 1 \in 0 .. BatchLimit
      BY <3>1
    <3>3. IdleRelay.pc = "idle"
      BY DEF IdleRelay
    <3> QED BY <3>2, <3>3, IdleRelayType DEF RelayRow
  <2>5. relay' = [relay EXCEPT ![r] = row]
    BY <1>3 DEF Finish
  <2> HIDE DEF row
  <2>6. /\ event' \in [Events -> EventRow]
        /\ event'[e] = new /\ \A x \in Events \ {e} : event'[x] = event[x]
    BY <1>0, <2>1, OneRow DEF OutboxInv
  <2>7. TypeOK'
    BY <1>1, <2>4, <2>5, <2>6, OneRelay DEF OutboxInv, TypeOK
  <2>8. Unspent'
    BY <2>1, <2>2, <2>3, <2>6 DEF OutboxInv, Unspent
  <2>9. \A x \in Events : RowMoves(x)
    <3>1. \A x \in Events : event[x].token \in Nat
      BY DEF OutboxInv, TypeOK, EventRow
    <3>2. event[e].status = "processing"
      BY <1>0, <1>3 DEF Held
    <3> QED BY <2>1, <2>2, <2>6, <3>1, <3>2 DEF RowMoves
  <2>10. ~Carrying(r)'
    BY <2>4, <2>5, OneRelay DEF OutboxInv, Carrying
  <2> QED BY <1>1, <2>4, <2>5, <2>7, <2>8, <2>9, <2>10, RelayStep
<1> QED BY <1>2, <1>3

(***************************************************************************)
(* The invariant.                                                          *)
(***************************************************************************)
LEMMA OutboxInit == Init => OutboxInv
<1> SUFFICES ASSUME Init PROVE OutboxInv
  OBVIOUS
<1>1. TypeOK
  BY IdleRelayType DEF Init, TypeOK, EventRow, Status
<1>2. Unspent
  BY DEF Init, Unspent
<1>3. RelaysKnow
  BY DEF Init, RelaysKnow, Carrying, IdleRelay
<1> QED BY <1>1, <1>2, <1>3 DEF OutboxInv

LEMMA OutboxNext == OutboxInv /\ [Next]_vars => OutboxInv'
<1> SUFFICES ASSUME OutboxInv, [Next]_vars PROVE OutboxInv'
  OBVIOUS
<1>1. ASSUME NEW r \in Relays, Relaying(r) \/ Crash(r) PROVE OutboxInv'
  BY <1>1, ConnectStep, ClaimStep, PublishStep, FinishStep, CrashStep DEF Relaying
<1>2. ASSUME NEW e \in Events, Append(e) \/ Replay(e) \/ LeaseTick(e) \/ BackoffEnds(e)
      PROVE OutboxInv'
  BY <1>2, RowSteps
<1>3. CASE UNCHANGED vars
  BY <1>3 DEF vars, OutboxInv, TypeOK, Unspent, RelaysKnow, Carrying, Knows
<1> QED BY <1>1, <1>2, <1>3 DEF Next

\* The inductive invariant, for every schedule of relays, crashes and replays.
THEOREM OutboxInvariant == Spec => []OutboxInv
BY OutboxInit, OutboxNext, PTL DEF Spec

\* The rows and the relays keep their types, and no claim counts an event past the limit of
\* attempts (outbox.py:198-262).
THEOREM TypeCorrect == Spec => []TypeOK
<1>1. OutboxInv => TypeOK
  BY DEF OutboxInv
<1> QED BY <1>1, OutboxInvariant, PTL

\* An event that waits for delivery has an attempt left, so neither the claim nor the
\* sweep can overlook it (outbox.py:218-230).
THEOREM WaitingHasAttempts == Spec => []RetryableHasAttempts
<1>1. OutboxInv => RetryableHasAttempts
  BY DEF OutboxInv, Unspent, RetryableHasAttempts
<1> QED BY <1>1, OutboxInvariant, PTL

(***************************************************************************)
(* At-least-once delivery: every step of the outbox is one of the promise, *)
(* or changes neither what a row reports nor what the stream stored.       *)
(***************************************************************************)
Reported == [e \in Events |-> ReportOf(e)]

LEMMA Reports ==
    ASSUME NEW e \in Events
    PROVE  /\ event[e].status = "absent" => ReportOf(e) = "absent"
           /\ event[e].status = "published" => ReportOf(e) = "delivered"
           /\ event[e].status = "dead_letter" => ReportOf(e) = "undelivered"
           /\ event[e].status \in {"pending", "processing", "failed"} => ReportOf(e) = "open"
BY DEF ReportOf

LEMMA ReportsNext ==
    ASSUME NEW e \in Events
    PROVE  /\ event'[e].status = "absent" => ReportOf(e)' = "absent"
           /\ event'[e].status = "published" => ReportOf(e)' = "delivered"
           /\ event'[e].status = "dead_letter" => ReportOf(e)' = "undelivered"
           /\ event'[e].status \in {"pending", "processing", "failed"} => ReportOf(e)' = "open"
           /\ event'[e].status = event[e].status => ReportOf(e)' = ReportOf(e)
BY DEF ReportOf

\* A step that changes the status of one event at most.
LEMMA OneReport ==
    ASSUME NEW e \in Events, \A x \in Events \ {e} : event'[x].status = event[x].status
    PROVE  Reported' = [Reported EXCEPT ![e] = ReportOf(e)']
<1>1. \A x \in Events \ {e} : ReportOf(x)' = ReportOf(x)
  BY ReportsNext
<1>2. Reported' = [x \in Events |-> ReportOf(x)']
  BY DEF Reported
<1> QED BY <1>1, <1>2 DEF Reported

LEMMA SameReport ==
    ASSUME \A x \in Events : event'[x].status = event[x].status
    PROVE  Reported' = Reported
<1>1. \A x \in Events : ReportOf(x)' = ReportOf(x)
  BY ReportsNext
<1>2. Reported' = [x \in Events |-> ReportOf(x)']
  BY DEF Reported
<1> QED BY <1>1, <1>2 DEF Reported

LEMMA PromiseSteps ==
    /\ \A e \in Events :
        Reported[e] = "absent" /\ Reported' = [Reported EXCEPT ![e] = "open"]
            /\ stored' = stored => Delivery!PromiseNext
    /\ \A e \in Events :
        Reported[e] # "absent" /\ stored' = stored \cup {e}
            /\ Reported' = Reported => Delivery!PromiseNext
    /\ \A e \in Events :
        Reported[e] = "open" /\ e \in stored
            /\ Reported' = [Reported EXCEPT ![e] = "delivered"]
            /\ stored' = stored => Delivery!PromiseNext
    /\ \A e \in Events :
        Reported[e] = "undelivered" /\ Reported' = [Reported EXCEPT ![e] = "open"]
            /\ stored' = stored => Delivery!PromiseNext
    /\ \A E \in SUBSET Events :
        (\A e \in E : Reported[e] = "open")
            /\ Reported' = [e \in Events |-> IF e \in E THEN "undelivered" ELSE Reported[e]]
            /\ stored' = stored => Delivery!PromiseNext
BY DEF Reported, Delivery!PromiseNext, Delivery!Commit, Delivery!Send,
       Delivery!ReportDelivered, Delivery!Reopen, Delivery!GiveUpOn

Promised == Delivery!PromiseNext \/ (Reported' = Reported /\ stored' = stored)

LEMMA ClaimPromised == ASSUME OutboxInv, NEW r \in Relays, Claim(r) PROVE Promised
<1> DEFINE E == {x \in Events : Exhausted(x)}
<1>1. stored' = stored
  BY DEF Claim
<1>2. \A x \in Events : /\ x \in E => event'[x].status = "dead_letter"
                        /\ x \notin E => \/ event'[x].status = event[x].status
                                         \/ /\ event'[x].status = "processing"
                                            /\ event[x].status \in {"pending", "failed", "processing"}
  <2>1. \A x \in Events :
            /\ Exhausted(x) => Swept[x].status = "dead_letter"
            /\ ~Exhausted(x) => Swept[x] = event[x]
    <3> SUFFICES ASSUME NEW x \in Events
                 PROVE  /\ Exhausted(x) => Swept[x].status = "dead_letter"
                        /\ ~Exhausted(x) => Swept[x] = event[x]
      OBVIOUS
    <3>1. event[x] \in EventRow
      BY DEF OutboxInv, TypeOK
    <3>2. [event[x] EXCEPT !.status = "dead_letter",
                           !.error = "DELIVERY_ATTEMPTS_EXHAUSTED"].status = "dead_letter"
      BY <3>1 DEF EventRow
    <3> QED BY <3>2 DEF Swept
  <2>2. CASE event' = Swept
    BY <2>1, <2>2
  <2>3. ASSUME NEW e \in Events, Claimable(e),
               event' = [Swept EXCEPT ![e] = [@ EXCEPT
                            !.status = "processing", !.attempts = event[e].attempts + 1,
                            !.token = event[e].token + 1, !.lease = LeaseTerm]]
        PROVE  \A x \in Events :
                  /\ x \in E => event'[x].status = "dead_letter"
                  /\ x \notin E => \/ event'[x].status = event[x].status
                                   \/ /\ event'[x].status = "processing"
                                      /\ event[x].status \in {"pending", "failed", "processing"}
    <3>1. event[e] \in EventRow /\ event[e].attempts \in Nat
      BY DEF OutboxInv, TypeOK, EventRow
    <3>2. ~Exhausted(e) /\ event[e].status \in {"pending", "failed", "processing"}
      BY <2>3, <3>1 DEF Claimable, Exhausted, Expired
    <3>3. Swept = [x \in Events |-> Swept[x]]
      BY DEF Swept
    <3>4. Swept[e] = event[e]
      BY <2>1, <3>2
    <3> HIDE DEF E, Swept
    <3>5. event'[e].status = "processing" /\ \A x \in Events \ {e} : event'[x] = Swept[x]
      BY <2>3, <3>1, <3>3, <3>4 DEF EventRow
    <3> QED BY <2>1, <3>2, <3>5 DEF E
  <2> QED BY <2>2, <2>3 DEF Claim
<1>3. \A x \in E : event[x].status = "processing"
  BY DEF Exhausted, Expired
<1> HIDE DEF E
<1>4. E \in SUBSET Events
  BY DEF E
<1>5. \A x \in E : Reported[x] = "open" /\ ReportOf(x)' = "undelivered"
  BY <1>2, <1>3, <1>4, Reports, ReportsNext DEF Reported
<1>6. \A x \in Events \ E : ReportOf(x)' = Reported[x]
  BY <1>2, Reports, ReportsNext DEF Reported
<1>7. Reported' = [x \in Events |-> IF x \in E THEN "undelivered" ELSE Reported[x]]
  <2>1. Reported' = [x \in Events |-> ReportOf(x)']
    BY DEF Reported
  <2> QED BY <1>4, <1>5, <1>6, <2>1
<1> QED BY <1>1, <1>4, <1>5, <1>7, PromiseSteps DEF Promised

LEMMA FinishPromised == ASSUME OutboxInv, NEW r \in Relays, Finish(r) PROVE Promised
<1>0. PICK e \in Events : e = relay[r].event
  BY DEF Finish, Carrying, OutboxInv, RelaysKnow, Knows
<1>1. Knows(r) /\ stored' = stored
  BY DEF Finish, Carrying, OutboxInv, RelaysKnow
<1>2. CASE ~Held(r)
  BY <1>1, <1>2, SameReport DEF Finish, Promised
<1>3. CASE Held(r)
  <2>1. /\ event[e].status = "processing" /\ event'[e].status = Outcome(r)
        /\ \A x \in Events \ {e} : event'[x] = event[x]
    BY <1>0, <1>3, FinishRow, OneRow DEF Held, OutboxInv
  <2>2. Reported[e] = "open" /\ Reported' = [Reported EXCEPT ![e] = ReportOf(e)']
    BY <2>1, Reports, OneReport DEF Reported
  <2>3. CASE Outcome(r) = "published"
    <3>1. e \in stored
      BY <1>0, <1>1, <2>3 DEF Outcome, StatusAfterFailure, Knows
    <3>2. ReportOf(e)' = "delivered"
      BY <2>1, <2>3, ReportsNext
    <3> QED BY <1>1, <2>2, <3>1, <3>2, PromiseSteps DEF Promised
  <2>4. CASE Outcome(r) = "dead_letter"
    <3>1. ReportOf(e)' = "undelivered"
      BY <2>1, <2>4, ReportsNext
    <3>2. /\ Reported' = [x \in Events |-> IF x \in {e} THEN "undelivered" ELSE Reported[x]]
          /\ {e} \in SUBSET Events /\ \A x \in {e} : Reported[x] = "open"
      BY <1>1, <2>2, <3>1 DEF Reported
    <3> QED BY <1>1, <3>2, PromiseSteps DEF Promised
  <2>5. CASE Outcome(r) = "failed"
    <3>1. ReportOf(e)' = "open"
      BY <2>1, <2>5, ReportsNext
    <3>2. Reported' = Reported
      BY <1>1, <2>2, <3>1 DEF Reported
    <3> QED BY <1>1, <3>2 DEF Promised
  <2> QED BY <2>3, <2>4, <2>5 DEF Outcome, StatusAfterFailure
<1> QED BY <1>2, <1>3

LEMMA PublishPromised == ASSUME OutboxInv, NEW r \in Relays, Publish(r) PROVE Promised
<1> DEFINE e == relay[r].event
<1>1. e \in Events /\ event[e].status # "absent" /\ event[e] \in EventRow
  BY DEF Publish, Carrying, OutboxInv, RelaysKnow, Knows, TypeOK
<1>2. Reported' = Reported
  BY SameReport DEF Publish
<1>3. Reported[e] # "absent"
  BY <1>1 DEF Reported, ReportOf
<1>4. stored' = stored \cup {e} \/ stored' = stored
  BY DEF Publish
<1> QED BY <1>1, <1>2, <1>3, <1>4, PromiseSteps DEF Promised

LEMMA RowsPromised ==
    ASSUME OutboxInv, NEW e \in Events,
           Append(e) \/ Replay(e) \/ LeaseTick(e) \/ BackoffEnds(e)
    PROVE  Promised
<1>0. event \in [Events -> EventRow] /\ event[e] \in EventRow /\ stored' = stored
  BY DEF OutboxInv, TypeOK, Append, Replay, LeaseTick, BackoffEnds
<1>1. CASE Append(e) \/ Replay(e)
  <2>1. /\ event[e].status \in {"absent", "dead_letter"} /\ event'[e].status = "pending"
        /\ \A x \in Events \ {e} : event'[x].status = event[x].status
    <3>1. CASE Append(e)
      BY <1>0, <3>1 DEF Append, EventRow
    <3>2. CASE Replay(e)
      <4>1. [Replayed(event[e]) EXCEPT !.error = "none"].status = "pending"
        BY <1>0 DEF Replayed, EventRow
      <4> QED BY <1>0, <3>2, <4>1 DEF Replay
    <3> QED BY <1>1, <3>1, <3>2
  <2>2. Reported[e] \in {"absent", "undelivered"} /\ ReportOf(e)' = "open"
    BY <2>1, Reports, ReportsNext DEF Reported
  <2>3. Reported' = [Reported EXCEPT ![e] = "open"]
    BY <2>1, <2>2, OneReport
  <2> QED BY <1>0, <2>2, <2>3, PromiseSteps DEF Promised
<1>2. CASE LeaseTick(e) \/ BackoffEnds(e)
  <2>1. \A x \in Events : event'[x].status = event[x].status
    BY <1>0, <1>2 DEF LeaseTick, BackoffEnds, EventRow
  <2> QED BY <1>0, <2>1, SameReport DEF Promised
<1> QED BY <1>1, <1>2

LEMMA StepPromised == OutboxInv /\ [Next]_vars => Promised
<1> SUFFICES ASSUME OutboxInv, [Next]_vars PROVE Promised
  OBVIOUS
<1>1. ASSUME NEW r \in Relays, Connect(r) \/ Crash(r) PROVE Promised
  BY <1>1, SameReport DEF Connect, Crash, Promised
<1>2. ASSUME NEW r \in Relays, Claim(r) \/ Publish(r) \/ Finish(r) PROVE Promised
  BY <1>2, ClaimPromised, PublishPromised, FinishPromised
<1>3. ASSUME NEW e \in Events, Append(e) \/ Replay(e) \/ LeaseTick(e) \/ BackoffEnds(e)
      PROVE  Promised
  BY <1>3, RowsPromised
<1>4. CASE UNCHANGED vars
  BY <1>4, SameReport DEF vars, Promised
<1> QED BY <1>1, <1>2, <1>3, <1>4 DEF Next, Relaying

\* Whatever relays die, come late or publish twice, an event is reported published only
\* once the stream stored it, and for good (outbox.py:126-131, 265-288).
THEOREM AtLeastOnceDelivery == Spec => DeliversAtLeastOnce
<1>1. Init => Delivery!NoEvents
  BY DEF Init, Delivery!NoEvents, ReportOf
<1>2. OutboxInv /\ [Next]_vars => [Delivery!PromiseNext]_<<Reported, stored>>
  BY StepPromised DEF Promised
<1>3. OutboxInv /\ [Next]_vars
        => [Delivery!PromiseNext]_<<[e \in Events |-> ReportOf(e)], stored>>
  BY <1>2 DEF Reported
<1> QED BY <1>1, <1>3, OutboxInvariant, PTL DEF Spec, DeliversAtLeastOnce, Delivery!Promise

=============================================================================
