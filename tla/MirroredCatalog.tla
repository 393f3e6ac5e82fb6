---------------------------- MODULE MirroredCatalog ----------------------------
(***************************************************************************)
(* What readers of a catalog may rely on: what a provider keeps in its     *)
(* listing appears and stays, whatever becomes of the generations that     *)
(* read it.  An article disappears only when a generation completes that   *)
(* did not list it, and a complete index changes no more until the next    *)
(* generation begins.                                                      *)
(***************************************************************************)
CONSTANTS
    Providers,
    Articles

VARIABLES
    shown,    \* what readers find of each provider
    seen,     \* what its current generation has listed
    kept,     \* what the provider has listed ever since that generation began
    complete  \* the providers whose index is complete

mirror == <<shown, seen, kept, complete>>

Nothing == [p \in Providers |-> {}]

Blank == shown = Nothing /\ seen = Nothing /\ kept = Nothing /\ complete = {}

\* Generations begin; readers find what they found.
Renew(P) ==
    /\ seen' = [p \in Providers |-> IF p \in P THEN {} ELSE seen[p]]
    /\ \A p \in Providers \ P : kept'[p] = kept[p]
    /\ complete' = complete \ P
    /\ UNCHANGED shown

\* The provider drops an article.
Drop(p, a) ==
    /\ kept' = [kept EXCEPT ![p] = @ \ {a}]
    /\ UNCHANGED <<shown, seen, complete>>

Take(p, S) ==
    /\ p \notin complete
    /\ shown' = [shown EXCEPT ![p] = @ \cup S]
    /\ seen' = [seen EXCEPT ![p] = @ \cup S]
    /\ UNCHANGED <<kept, complete>>

\* The last page of a generation: readers find what it listed, and nothing else.
Close(p, S) ==
    /\ p \notin complete
    /\ kept[p] \subseteq seen[p] \cup S
    /\ shown' = [shown EXCEPT ![p] = seen[p] \cup S]
    /\ seen' = [seen EXCEPT ![p] = @ \cup S]
    /\ complete' = complete \cup {p}
    /\ UNCHANGED kept

\* The provider does not know the vehicle, of which no article was ever listed.
CloseUnknown(p) ==
    /\ p \notin complete
    /\ shown[p] = {} /\ seen[p] = {}
    /\ complete' = complete \cup {p}
    /\ UNCHANGED <<shown, seen, kept>>

MirrorNext ==
    \/ \E P \in SUBSET Providers : Renew(P)
    \/ \E p \in Providers, a \in Articles : Drop(p, a)
    \/ \E p \in Providers, S \in SUBSET Articles : Take(p, S) \/ Close(p, S)
    \/ \E p \in Providers : CloseUnknown(p)

Promise == Blank /\ [][MirrorNext]_mirror
=============================================================================
