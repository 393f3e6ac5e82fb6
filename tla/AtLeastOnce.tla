------------------------------ MODULE AtLeastOnce ------------------------------
(***************************************************************************)
(* What the outbox promises those who commit an event with their rows: the *)
(* event is reported delivered only once the bus has stored it, and for    *)
(* good; until then it is open, or given up on the record and may be       *)
(* reopened.  It may reach the bus any number of times, at any time.       *)
(***************************************************************************)
CONSTANT Events

VARIABLES
    report,  \* what the database says of each event
    onBus    \* events the bus has stored

NoEvents ==
    /\ report = [e \in Events |-> "absent"]
    /\ onBus = {}

Commit(e) ==
    /\ report[e] = "absent"
    /\ report' = [report EXCEPT ![e] = "open"]
    /\ UNCHANGED onBus

\* Even a sender that was given up on may still get through.
Send(e) ==
    /\ report[e] # "absent"
    /\ onBus' = onBus \cup {e}
    /\ UNCHANGED report

ReportDelivered(e) ==
    /\ report[e] = "open" /\ e \in onBus
    /\ report' = [report EXCEPT ![e] = "delivered"]
    /\ UNCHANGED onBus

\* A poll may give up several events, and gives up none that is not open.
GiveUpOn(E) ==
    /\ \A e \in E : report[e] = "open"
    /\ report' = [e \in Events |-> IF e \in E THEN "undelivered" ELSE report[e]]
    /\ UNCHANGED onBus

Reopen(e) ==
    /\ report[e] = "undelivered"
    /\ report' = [report EXCEPT ![e] = "open"]
    /\ UNCHANGED onBus

PromiseNext ==
    \/ \E e \in Events : Commit(e) \/ Send(e) \/ ReportDelivered(e) \/ Reopen(e)
    \/ \E E \in SUBSET Events : GiveUpOn(E)

Promise == NoEvents /\ [][PromiseNext]_<<report, onBus>>
=============================================================================
