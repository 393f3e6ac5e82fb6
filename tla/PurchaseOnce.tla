------------------------------ MODULE PurchaseOnce ------------------------------
(***************************************************************************)
(* What the paid Workshop promises an account about a configuration: it is *)
(* charged at most once, has access only after a charge, and once access   *)
(* is taken back, or the charge refunded before access was given, the      *)
(* matter is closed.                                                       *)
(***************************************************************************)
CONSTANTS
    Scopes,
    Receipts  \* what a charge is known by

VARIABLES
    charges,  \* receipts of the charges made for the scope
    access    \* what the account may read

Unsold ==
    /\ charges = [s \in Scopes |-> {}]
    /\ access = [s \in Scopes |-> "none"]

TakeMoney(s) ==
    /\ charges[s] = {}
    /\ \E r \in Receipts : charges' = [charges EXCEPT ![s] = {r}]
    /\ UNCHANGED access

Give(s) ==
    /\ charges[s] # {} /\ access[s] = "none"
    /\ access' = [access EXCEPT ![s] = "granted"]
    /\ UNCHANGED charges

TakeBack(s) ==
    /\ charges[s] # {} /\ access[s] \in {"none", "granted"}
    /\ access' = [access EXCEPT ![s] = "closed"]
    /\ UNCHANGED charges

PurchaseNext == \E s \in Scopes : TakeMoney(s) \/ Give(s) \/ TakeBack(s)

Promise == Unsold /\ [][PurchaseNext]_<<charges, access>>
=============================================================================
