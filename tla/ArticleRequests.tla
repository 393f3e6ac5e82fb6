---------------------------- MODULE ArticleRequests ----------------------------
(***************************************************************************)
(* The operator's transactions on an article: ask for its job, ask for a   *)
(* fresh one, and correct the projection of a captured source offline.     *)
(* Each locks the article row FOR UPDATE and commits once.                 *)
(***************************************************************************)
EXTENDS ArticleState

\* What no request touches.
UntouchedByRequests == <<revision, attempts, review, outbox, worker, desk>>

FreshJob(a) ==
    [AbsentJob(a, article[a].profile) EXCEPT
        !.generation = article[a].generation, !.status = "pending"]

(***************************************************************************)
(* ensure_article_job: the current job if there is one, else a new row.    *)
(* The caller's profile has to be the article's, or nothing happens.       *)
(***************************************************************************)
EnsureJob(a) ==
    /\ article[a].job = None
    /\ \E j \in Jobs :
        /\ job[j].status = "absent"
        /\ job' = [job EXCEPT ![j] = FreshJob(a)]
        /\ article' = [article EXCEPT ![a] = [@ EXCEPT !.job = j]]
    /\ UNCHANGED UntouchedByRequests

\* Variant: a job that waits for its retry is taken for finished.
NoRunningCurrentJob(a) ==
    article[a].job # None => job[article[a].job].status \notin {"pending", "processing"}

\* refresh_article_job: a new generation, unless the current job is active.
NoActiveCurrentJob(a) == article[a].job # None => ~Active(article[a].job)

RefreshJob(a, p) ==
    /\ NoActiveCurrentJob(a)
    /\ \E j \in Jobs :
        /\ job[j].status = "absent"
        /\ job' = [job EXCEPT ![j] = [FreshJob(a) EXCEPT
                       !.generation = article[a].generation + 1, !.profile = p]]
        /\ article' = [article EXCEPT ![a] = [@ EXCEPT
                           !.job = j, !.profile = p,
                           !.generation = article[a].generation + 1]]
    /\ UNCHANGED UntouchedByRequests

(***************************************************************************)
(* apply_source_reprojection: insert a job, claim it and store the second  *)
(* projection of the current source, in one transaction.  Only the exact   *)
(* claim consumes an attempt and a token; the job never owns a key and the *)
(* article loses its canonical revision.  A repeated call for an applied   *)
(* correction answers already_applied and changes nothing.                 *)
(***************************************************************************)
NoActiveJobOf(a) == \A j \in Jobs : job[j].article = a => ~Active(j)

Reproject(a) ==
    /\ article[a].source # None
    /\ 2 \in Projections
    /\ NoActiveJobOf(a)
    /\ LET corrected == [article[a].source EXCEPT !.projection = 2] IN
       \E j \in Jobs :
        /\ job[j].status = "absent"
        /\ job' = [job EXCEPT ![j] = [FreshJob(a) EXCEPT
                       !.generation = article[a].generation + 1,
                       !.status = "needs_review", !.phase = "completed",
                       !.error = "SOURCE_ONLY_REPROJECTION",
                       !.retry = 1, !.token = 1, !.source = corrected]]
        /\ article' = [article EXCEPT ![a] = [@ EXCEPT
                           !.job = j, !.generation = article[a].generation + 1,
                           !.source = corrected, !.canonical = None]]
    /\ UNCHANGED UntouchedByRequests
=============================================================================
