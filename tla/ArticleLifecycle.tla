--------------------------- MODULE ArticleLifecycle ---------------------------
(***************************************************************************)
(* The article lifecycle: operators requesting jobs, workers claiming and  *)
(* running them, and reviewers deciding on drafts, over one database.      *)
(***************************************************************************)
EXTENDS ArticleRequests, ArticleWorker, ContentReview

Request(a) ==
    \/ EnsureJob(a)
    \/ \E p \in Profiles : RefreshJob(a, p)
    \/ Reproject(a)

Claim(w) ==
    \/ \E j \in Jobs, ready \in BOOLEAN :
        ClaimAutomatic(w, j, ready) \/ ClaimReview(w, j, ready) \/ PassResume(w, j, ready)
    \/ \E j \in Jobs : ClaimConfiguration(w, j)
    \/ SweepExhausted(w) \/ ClaimGeneric(w) \/ NothingToClaim(w)

Run(w) ==
    \/ Begin(w) \/ Capture(w) \/ CommitSource(w) \/ Load(w) \/ Normalize(w)
    \/ Preserve(w) \/ Park(w) \/ Prepare(w) \/ Dispatch(w) \/ Model(w)
    \/ Result(w) \/ Reload(w) \/ Validate(w) \/ Publish(w) \/ Record(w) \/ Fail(w)

Decide(r, j) ==
    Export(r, j) \/ Approve(r, j) \/ Reject(r, j) \/ Correct(r, j) \/ CorrectFailed(r, j)

Next ==
    \/ \E a \in Articles : Request(a)
    \/ \E w \in Workers : Claim(w) \/ Run(w) \/ Heartbeat(w) \/ Crash(w)
    \/ \E j \in Jobs : LeaseTick(j)
    \/ \E r \in Reviewers, j \in Jobs : Decide(r, j)

Spec == Init /\ [][Next]_vars

(***************************************************************************)
(* Fairness: worker processes keep polling and running what they claimed   *)
(* (the supervisor restarts them, Crash is bounded), and the clock runs    *)
(* out on a lease nobody holds.  Nothing obliges an operator or a reviewer *)
(* to act.                                                                 *)
(***************************************************************************)
FairSpec ==
    /\ Spec
    /\ \A w \in Workers : WF_vars(Claim(w)) /\ WF_vars(Run(w))
    /\ \A j \in Jobs : WF_vars(Abandoned(j) /\ LeaseTick(j))

(***************************************************************************)
(* Safety.                                                                 *)
(***************************************************************************)
\* An article has at most one active job, and it is the one the article asks for,
\* in its generation: refresh, reuse of an older owner, review adoption, approval
\* and model resume all revive or replace jobs (source_job_persistence.py:132-143,
\* 240-265; article_lifecycle_store.py:288-322; migration 037 line 96).
ActiveIsCurrent ==
    \A j \in Jobs : Active(j) =>
        /\ article[job[j].article].job = j
        /\ article[job[j].article].generation = job[j].generation

\* Two jobs of an article never share a generation and none is ahead of the article,
\* although adoption moves an old owner into a new one (article_lifecycle_store.py:303-313).
GenerationsDistinct ==
    \A i, j \in Jobs :
        job[i].status # "absent" /\ job[j].status # "absent" /\ job[i].article = job[j].article =>
            /\ job[i].generation <= article[job[i].article].generation
            /\ i # j => job[i].generation # job[j].generation

\* A numbered attempt of a job is prepared, and so dispatched to the paid model, once:
\* no reclaim, resume or restart reuses its number (article_lifecycle_store.py:444-451).
OneDispatchPerAttempt ==
    \A x, y \in attempts :
        /\ x.number \in 1 .. MaxAttempts
        /\ x.job = y.job /\ x.number = y.number => x = y

\* A delivery that is on record as open belongs to the lease the job still carries and
\* to a job without a draft; every other outcome is closed or accounted as ambiguous
\* (source_job_persistence.py:153-159, 450-455).
OpenDeliveryAccounted ==
    \A x \in attempts : x.status = "dispatched" =>
        /\ job[x.job].status = "processing"
        /\ job[x.job].token = x.token
        /\ ~HasCandidate(x.job)

\* A parked automatic job stays exactly what the model-configuration resume looks for;
\* otherwise no claim would ever take it and it would block its article for good
\* (source_job_persistence.py:225-265).
ParkedCanResume ==
    \A j \in Jobs :
        job[j].status = "failed" /\ job[j].error = "MODEL_NOT_CONFIGURED" => AwaitingModel(j)

\* What a statement of a claim takes: a saved automatic draft, an approved draft, a job that
\* waits for the model, a job with attempts left, or one whose last attempt is lost.
Recoverable(j) ==
    \/ AutomaticDraft(j) /\ Resumable(j)
    \/ job[j].profile = "review" /\ job[j].review = "approved" /\ Resumable(j)
    \/ AwaitingModel(j)
    \/ Claimable(j)
    \/ Exhausted(j)

\* The statements of a claim leave no gap: whatever became of an active job, its lease still
\* runs or one of them takes it.  A job that none takes would block its article for good,
\* since no request replaces an active job (source_job_persistence.py:162-265, 425-462).
NoJobStranded ==
    \A j \in Jobs : Active(j) =>
        Recoverable(j) \/ (job[j].status = "processing" /\ job[j].lease > 0)

\* The resume of a saved automatic draft never finds it invalid or superseded
\* (source_job_persistence.py:209-217).
AutomaticDraftStaysValid ==
    \A j \in Jobs : job[j].error # "AUTOMATIC_CANDIDATE_INVALID"

\* From an approval until its publication or withdrawal the approval covers the saved
\* draft; a correction, a rejection or a new generation always takes it back
\* (article_content_review.py:445-458, source_job_persistence.py:172-180).
ApprovedStaysPublishable ==
    \A j \in Jobs :
        job[j].status \in {"pending", "processing"} /\ job[j].review = "approved" => FullyApproved(j)

\* What the review profile publishes was approved last, in that very version, by someone
\* who wrote none of it (article_lifecycle_store.py:527-552, 826-828).
ReviewedPublication ==
    \A k \in Key :
        k.profile = "review" /\ revision[k].status = "published" =>
            /\ review[k].decision = "APPROVED"
            /\ review[k].version = revision[k].version
            /\ review[k].reviewer # review[k].corrector
            /\ review[k].failedOrigin => review[k].reviewer \notin review[k].authors

\* An article's canonical revision is published, passes its validator and transforms the
\* article's current source (migration 038 lines 58-60, article_lifecycle_store.py:319-322).
CanonicalMatchesSource ==
    \A a \in Articles : article[a].canonical # None =>
        LET k == article[a].canonical IN
        /\ revision[k].status = "published" /\ revision[k].sound
        /\ k.article = a /\ k.source = article[a].source

(***************************************************************************)
(* Action properties.                                                      *)
(***************************************************************************)
\* A worker whose lease ran out or was taken over changes no row any more, whatever it
\* was doing when it lost it (source_job_persistence.py:499-506).
StaleWorkerWritesNothing ==
    [][\A w \in Workers :
        worker[w].pc \notin {"idle", "sweep"} /\ worker'[w] # worker[w] /\ ~LeaseHeld(w)
            => UNCHANGED rows]_vars

\* Once published, a revision never changes again, its event stays, and the job that
\* published it stays completed (migration 038 lines 30-32).
PublishedForGood ==
    [][\A k \in Key : revision[k].status = "published" =>
        /\ revision'[k] = revision[k]
        /\ k \in outbox'
        /\ \A j \in Jobs : job[j].key = k => job'[j] = job[j]]_vars

(***************************************************************************)
(* The lifecycle implements what readers are promised.                     *)
(***************************************************************************)
Readers == INSTANCE ArticlePublication WITH
    source <- [a \in Articles |-> article[a].source],
    canonical <- [a \in Articles |-> article[a].canonical],
    announced <- outbox

\* Every step is a capture, a correction or a first publication, or is invisible.
ReadersServed == Readers!ReaderSpec

(***************************************************************************)
(* Liveness.                                                               *)
(***************************************************************************)
\* A job that is active comes to rest: it is published, refused, dead or waits for a
\* person or for the model to be configured (source_job_persistence.py:425-462).
AtRest(j) == ~Active(j) \/ AwaitingModel(j)
EveryJobSettles == \A j \in Jobs : []<>AtRest(j)

(***************************************************************************)
(* What the documents say, and the code does not do.                       *)
(***************************************************************************)
\* A saved automatic draft reclaims a publication lease after its attempts are spent
\* (docs/architecture/normalized-article-document.md:561).
SavedDraftNotExhausted ==
    \A j \in Jobs : job[j].error = "LEASE_ATTEMPTS_EXHAUSTED" => ~AutomaticDraft(j)

\* Unsafe or unconfigured work becomes needs_review, transport errors are retried
\* (docs/superpowers/plans/2026-11-03-canonical-article-lifecycle.md:494-495): where no
\* lease is ever lost, no job dies of lost leases.
ExhaustionNeedsLostLease ==
    \A j \in Jobs : job[j].error # "LEASE_ATTEMPTS_EXHAUSTED"
=============================================================================
