------------------------------- MODULE PaidDataset -------------------------------
(***************************************************************************)
(* What a dataset request promises, whatever happens between its payments, *)
(* messages and workers: one payment buys it and no other is ever taken    *)
(* for good, its editions begin with a first and add one part each, they   *)
(* are made only while access is open, and nothing is taken out of them.   *)
(***************************************************************************)
EXTENDS Naturals

CONSTANTS
    Payments,
    Parts,  \* what an edition may add
    None

VARIABLES
    buyer,    \* the payment that bought the dataset
    access,   \* what the customer may read
    taken,    \* payments reported fulfilled
    edition,  \* number of the latest edition
    parts     \* what it contains

sale == <<buyer, access, taken>>
editions == <<edition, parts>>

Unsold ==
    /\ buyer = None /\ access = "none" /\ taken = {}
    /\ edition = 0 /\ parts = {}

\* Access is open as soon as the dataset is bought; the payment may be taken later.
Buy(p) ==
    /\ access # "revoked" /\ buyer \in {None, p}
    /\ buyer' = p /\ access' = "active"
    /\ taken' \in {taken, taken \cup {p}}
    /\ UNCHANGED editions

TakeBack ==
    /\ access # "none"
    /\ access' = "revoked"
    /\ UNCHANGED <<buyer, taken, editions>>

\* A payment that was taken is reported failed only when access was taken back.
GiveUp(p) ==
    /\ access = "revoked"
    /\ taken' = taken \ {p}
    /\ UNCHANGED <<buyer, access, editions>>

FirstEdition ==
    /\ access = "active" /\ edition = 0
    /\ edition' = 1
    /\ UNCHANGED <<sale, parts>>

Add(j) ==
    /\ access = "active" /\ edition > 0 /\ j \notin parts
    /\ edition' = edition + 1 /\ parts' = parts \cup {j}
    /\ UNCHANGED sale

PaidNext ==
    \/ TakeBack \/ FirstEdition
    \/ \E p \in Payments : Buy(p) \/ GiveUp(p)
    \/ \E j \in Parts : Add(j)

Promise == Unsold /\ [][PaidNext]_<<sale, editions>>
=============================================================================
