----------------------------- MODULE ArticleClaims -----------------------------
(***************************************************************************)
(* claim_source_job: one transaction of five statements, each of which     *)
(* reads the rows and the database clock anew.  The first three resume a   *)
(* saved automatic draft, an approved review or a job that waited for the  *)
(* model to be configured; the last two sweep jobs whose attempts are      *)
(* spent and claim a job for another attempt.  Leases may expire and other *)
(* transactions commit between the resumes and the sweep, so the poll of a *)
(* worker is two steps.  A poll that names no job is any sequence of polls *)
(* that do.                                                                *)
(***************************************************************************)
EXTENDS ArticleState

\* A pending row, or one whose lease ran out, is free to be resumed.
Resumable(j) == job[j].status = "pending" \/ Expired(j)

\* The row as the claim leaves it: a new token fences every earlier holder.
ClaimedBy(w, row) ==
    [row EXCEPT !.status = "processing", !.token = @ + 1, !.owner = w, !.lease = LeaseTerm]

Poll(w, row, ready) ==
    worker' = [worker EXCEPT ![w] = [IdleWorker EXCEPT
                  !.pc = "begin", !.job = row, !.token = job[row].token + 1, !.ready = ready]]

UntouchedByClaims == <<article, revision, review, outbox, desk>>

(***************************************************************************)
(* _claim_automatic_resume: a saved automatic draft needs only its         *)
(* publication, so the claim spends no attempt.  A draft whose article     *)
(* moved on, or that no longer validates, is dead.                         *)
(***************************************************************************)
\* Variant: any saved draft of the profile, whatever became of its response.
AutomaticDraftUnproven(j) == job[j].profile = "auto" /\ HasCandidate(j)

\* A draft of the server, or of a model response that passed.
AutomaticDraft(j) ==
    /\ job[j].profile = "auto"
    /\ HasCandidate(j)
    /\ revision[job[j].key].status \in {"building", "validated"}
    /\ revision[job[j].key].preserving \/ \E x \in AttemptsOf(j) : x.status = "succeeded"
    /\ job[j].rewriteError = "none"

\* automatic_candidate_validation, on the draft this server saved.
AutomaticValid(j) ==
    /\ revision[job[j].key].sound
    /\ revision[job[j].key].preserving => AttemptsOf(j) = {}

ClaimAutomatic(w, j, ready) ==
    /\ worker[w].pc = "idle"
    /\ AutomaticDraft(j) /\ Resumable(j)
    /\ IF Current(j) /\ AutomaticValid(j)
       THEN /\ job' = [job EXCEPT ![j] = [ClaimedBy(w, @) EXCEPT
                          !.phase = "validating", !.error = "none"]]
            /\ Poll(w, j, ready)
       ELSE /\ job' = [job EXCEPT ![j] = [Released(@) EXCEPT
                          !.status = "dead_letter", !.error = "AUTOMATIC_CANDIDATE_INVALID"]]
            /\ UNCHANGED worker
    /\ UNCHANGED attempts /\ UNCHANGED UntouchedByClaims

(***************************************************************************)
(* _require_full_approval: the latest review approves exactly the saved    *)
(* draft, for the generation the article still asks for, and no one        *)
(* approves what they corrected themselves.                                *)
(***************************************************************************)
FullyApproved(j) ==
    /\ Current(j)
    /\ HasCandidate(j)
    /\ LET k == job[j].key
           latest == review[k]
       IN /\ revision[k].status = "validated" /\ revision[k].sound
          /\ latest.decision = "APPROVED"
          /\ job[j].review = "approved"
          /\ latest.version = revision[k].version
          /\ latest.generation = job[j].generation
          /\ Independent(latest.reviewer, k)

\* _claim_review_resume
ClaimReview(w, j, ready) ==
    /\ worker[w].pc = "idle"
    /\ job[j].profile = "review" /\ job[j].review = "approved" /\ Resumable(j)
    /\ IF FullyApproved(j)
       THEN /\ job' = [job EXCEPT ![j] = [ClaimedBy(w, @) EXCEPT
                          !.phase = "publishing", !.error = "none"]]
            /\ Poll(w, j, ready)
       ELSE /\ job' = [job EXCEPT ![j] = [Released(@) EXCEPT
                          !.status = "needs_review", !.error = "CONTENT_REVIEW_REQUIRED",
                          !.review = "awaiting_review"]]
            /\ UNCHANGED worker
    /\ UNCHANGED attempts /\ UNCHANGED UntouchedByClaims

(***************************************************************************)
(* _claim_model_configuration_resume: the job dispatched nothing while the *)
(* model was not configured, so it resumes without spending an attempt.    *)
(***************************************************************************)
AwaitingModel(j) ==
    /\ job[j].profile = "auto"
    /\ job[j].status \in {"failed", "dead_letter"} /\ job[j].error = "MODEL_NOT_CONFIGURED"
    /\ job[j].source # None /\ job[j].normalized
    /\ Current(j)
    /\ AttemptsOf(j) = {}

ClaimConfiguration(w, j) ==
    /\ worker[w].pc = "idle"
    /\ AwaitingModel(j)
    /\ job' = [job EXCEPT ![j] = [ClaimedBy(w, @) EXCEPT
                  !.phase = "rewriting", !.error = "none"]]
    /\ Poll(w, j, TRUE)
    /\ UNCHANGED attempts /\ UNCHANGED UntouchedByClaims

(***************************************************************************)
(* The sweep and the general claim.                                        *)
(***************************************************************************)
\* What the last two statements leave alone.
Excluded(j) ==
    \/ job[j].profile = "auto" /\ job[j].error = "MODEL_NOT_CONFIGURED"
    \/ job[j].error = "SOURCE_ONLY_REPROJECTION"
    \/ job[j].profile = "review" /\ job[j].review # "none"

\* Variant: off by one, so the last attempt is neither repeated nor given up.
ExhaustedLater(j) == Expired(j) /\ job[j].retry > MaxAttempts /\ ~Excluded(j)

\* A job whose last attempt lost its lease.
Exhausted(j) == Expired(j) /\ job[j].retry >= MaxAttempts /\ ~Excluded(j)

Claimable(j) ==
    /\ ~Excluded(j)
    /\ job[j].retry < MaxAttempts
    /\ job[j].status \in {"pending", "failed"} \/ Expired(j)

\* The three resumes found nothing to take.
PassResume(w, j, ready) ==
    /\ worker[w].pc = "idle"
    /\ Active(j)
    /\ ~(AutomaticDraft(j) /\ Resumable(j))
    /\ ~(job[j].profile = "review" /\ job[j].review = "approved" /\ Resumable(j))
    /\ ~(ready /\ AwaitingModel(j))
    /\ worker' = [worker EXCEPT ![w] = [IdleWorker EXCEPT
                     !.pc = "sweep", !.job = j, !.ready = ready]]
    /\ UNCHANGED <<job, attempts>> /\ UNCHANGED UntouchedByClaims

\* The lease died after its last attempt; whether the model ran is unknown.
SweepExhausted(w) ==
    LET j == worker[w].job IN
    /\ worker[w].pc = "sweep"
    /\ Exhausted(j)
    /\ job' = [job EXCEPT ![j] = [Released(@) EXCEPT
                  !.status = "dead_letter", !.error = "LEASE_ATTEMPTS_EXHAUSTED"]]
    /\ attempts' = WithAmbiguous(j)
    /\ Leave(w)
    /\ UNCHANGED UntouchedByClaims

\* Variant: taking over a lost lease repeats the attempt instead of counting another.
SameAttempt(j) == IF Expired(j) THEN job[j].retry ELSE job[j].retry + 1

\* Every general claim counts as an attempt.
NextAttempt(j) == job[j].retry + 1

NextPhase(j) == IF job[j].phase = "queued" THEN "fetching_source" ELSE job[j].phase

ClaimGeneric(w) ==
    LET j == worker[w].job IN
    /\ worker[w].pc = "sweep"
    /\ Claimable(j)
    /\ job' = [job EXCEPT ![j] = [ClaimedBy(w, @) EXCEPT
                  !.retry = NextAttempt(j),
                  !.phase = NextPhase(j)]]
    /\ attempts' = IF job[j].status = "processing" THEN WithAmbiguous(j) ELSE attempts
    /\ Poll(w, j, worker[w].ready)
    /\ UNCHANGED UntouchedByClaims

NothingToClaim(w) ==
    /\ worker[w].pc = "sweep"
    /\ ~Exhausted(worker[w].job) /\ ~Claimable(worker[w].job)
    /\ Leave(w)
    /\ UNCHANGED <<job, attempts>> /\ UNCHANGED UntouchedByClaims
=============================================================================
