------------------------- MODULE MCNewArticleRollout -------------------------
EXTENDS NewArticleRollout, TLC

\* The jobs are interchangeable: no definition singles one of them out.
Interchangeable == Permutations(Jobs)

\* What no later step and no property reads of a row is forgotten.  A row claimed before
\* the rollout marked it is never marked, and then only its own steps read it.  Of a row
\* that may be marked the times matter as far as they lie after the cutoff, of a marked
\* one they do, and of an ended one nothing but the mark does.
Since(t) == IF Initialized THEN IF t > ledger.cutoff THEN 1 ELSE 0 ELSE t

Shown(r) ==
    IF ~r.capped THEN IF r.retry = 0 THEN <<r.state, Since(r.created), Since(r.described)>> ELSE <<"claimed">>
    ELSE IF r.state = "ended" THEN <<"ended", r.max, r.retry>>
    ELSE <<r.state, r.max, r.retry, r.holder, r.stage, r.fetched, r.asked>>

Told == <<clock, ledger, worker, [j \in Jobs |-> Shown(row[j])]>>
=============================================================================
