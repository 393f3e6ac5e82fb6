-------------------------- MODULE ArticlePublication --------------------------
(***************************************************************************)
(* What the article lifecycle promises its readers and its subscribers,    *)
(* whatever the workers, operators and reviewers do: an article shows a    *)
(* published transformation of exactly its current source, or the source   *)
(* itself; a transformation is published, and announced, at most once and  *)
(* for good; nothing but a publication makes a new one visible.            *)
(***************************************************************************)
CONSTANTS Articles, Source, Key, None

VARIABLES
    source,     \* the source each article currently shows
    canonical,  \* the published transformation it shows instead, or None
    announced   \* the transformations that were published and announced

ReaderInit ==
    /\ source = [a \in Articles |-> None]
    /\ canonical = [a \in Articles |-> None]
    /\ announced = {}

Transforms(k, a, s) == k.article = a /\ k.source = s

\* A capture or a correction of the source; an earlier publication of it returns.
ShowSource(a, s) ==
    /\ source' = [source EXCEPT ![a] = s]
    /\ \/ canonical' = [canonical EXCEPT ![a] = None]
       \/ \E k \in announced :
            /\ Transforms(k, a, s)
            /\ canonical' = [canonical EXCEPT ![a] = k]
    /\ UNCHANGED announced

\* A first publication, of the source the article shows at that moment.
Announce(k) ==
    /\ k \notin announced
    /\ source[k.article] = k.source
    /\ announced' = announced \cup {k}
    /\ canonical' = [canonical EXCEPT ![k.article] = k]
    /\ UNCHANGED source

ReaderNext ==
    \/ \E a \in Articles, s \in Source : ShowSource(a, s)
    \/ \E k \in Key : Announce(k)

ReaderSpec == ReaderInit /\ [][ReaderNext]_<<source, canonical, announced>>
=============================================================================
