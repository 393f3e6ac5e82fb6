---------------------------- MODULE MeteredAdmission ----------------------------
(***************************************************************************)
(* What the rollout promises those who pay for the model: a job is         *)
(* admitted while the rollout is on and the window has quota left, each    *)
(* job once; it is marked only after that, and a marked job has one        *)
(* attempt at most, whoever begins or resumes it and whatever dies on the  *)
(* way.                                                                    *)
(***************************************************************************)
EXTENDS Integers, FiniteSets

CONSTANTS
    Jobs,
    Quota,
    Window

VARIABLES
    on,
    admitted,  \* admissions, a job and a time each
    licence    \* of each job

Off == ~on /\ admitted = {} /\ licence = [j \in Jobs |-> "none"]

Switch ==
    /\ on' = ~on
    /\ UNCHANGED <<admitted, licence>>

\* The window that ends with an admission has room for it.
Room(a) == Cardinality({b \in admitted : b.at \in a.at - Window + 1 .. a.at}) < Quota

Admit ==
    \E a \in admitted' \ admitted :
        /\ admitted' = admitted \cup {a}
        /\ on /\ Room(a) /\ \A b \in admitted : b.job # a.job
        /\ UNCHANGED <<on, licence>>

\* An admitted job is marked, and a marked job uses its attempt.
Proceed(j) ==
    /\ \E a \in admitted : a.job = j
    /\ \/ licence[j] = "none" /\ licence' = [licence EXCEPT ![j] = "marked"]
       \/ licence[j] = "marked" /\ licence' = [licence EXCEPT ![j] = "used"]
    /\ UNCHANGED <<on, admitted>>

AdmissionNext == Switch \/ Admit \/ \E j \in Jobs : Proceed(j)

Promise == Off /\ [][AdmissionNext]_<<on, admitted, licence>>
=============================================================================
