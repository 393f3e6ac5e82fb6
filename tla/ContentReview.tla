----------------------------- MODULE ContentReview -----------------------------
(***************************************************************************)
(* The content-review commands.  A reviewer exports a draft, reads it for  *)
(* as long as it takes, and decides; the decision carries the binding of   *)
(* the export and is refused when anything bound has changed since.        *)
(***************************************************************************)
EXTENDS ArticleClaims

UntouchedByReviews == <<article, attempts, outbox, worker, desk>>

\* bindings_for: the hash of the draft and the generation are what can change.
BindingOf(j) ==
    [job |-> j, version |-> revision[job[j].key].version, generation |-> job[j].generation]

\* Variant: a draft the article no longer asks for can still be decided.
DraftUnpublished(j) ==
    /\ job[j].profile = "review" /\ HasCandidate(j)
    /\ article[job[j].article].canonical # job[j].key

\* _load_locked: the draft the article asks for, not yet public.
DraftCurrent(j) ==
    /\ Current(j)
    /\ job[j].profile = "review"
    /\ HasCandidate(j)
    /\ article[job[j].article].canonical # job[j].key

Waiting(j) ==
    /\ job[j].status = "needs_review" /\ job[j].owner = None
    /\ job[j].review = "awaiting_review"

Resuming(j) ==
    /\ job[j].status \in {"pending", "processing"} /\ job[j].phase = "publishing"
    /\ job[j].review = "approved"

Reviewable(j) ==
    DraftCurrent(j) /\ revision[job[j].key].status = "validated"

\* _require_failed_start and _failed_evidence: the model's last response broke the
\* technical content, and no attempt of the job is still open.
FailedDraft(j) ==
    /\ DraftCurrent(j)
    /\ revision[job[j].key].status = "building"
    /\ job[j].status = "needs_review" /\ job[j].phase = "validating"
    /\ job[j].owner = None
    /\ job[j].error = "REWRITE_TECHNICAL_MUTATION" /\ job[j].rewriteError = job[j].error
    /\ job[j].review = "none"
    /\ review[job[j].key].decision = "none"
    /\ \A x \in AttemptsOf(j) : x.status \notin {"prepared", "dispatched"}

\* export_review and export_failed_review
Export(r, j) ==
    /\ \/ Reviewable(j) /\ Waiting(j)
       \/ FailedDraft(j)
    /\ desk' = [desk EXCEPT ![r] = BindingOf(j)]
    /\ UNCHANGED <<article, job, revision, attempts, review, outbox, worker>>

(***************************************************************************)
(* record_review: approve, reject, or reject with a corrected draft.       *)
(***************************************************************************)
Approve(r, j) ==
    LET k == job[j].key IN
    /\ Reviewable(j) /\ Waiting(j)
    /\ desk[r] = BindingOf(j)
    /\ Independent(r, k)
    /\ review' = [review EXCEPT ![k] = [@ EXCEPT
                      !.decision = "APPROVED", !.reviewer = r,
                      !.version = revision[k].version, !.generation = job[j].generation]]
    /\ job' = [job EXCEPT ![j] = [@ EXCEPT
                      !.status = "pending", !.phase = "publishing",
                      !.error = "none", !.review = "approved"]]
    /\ UNCHANGED revision /\ UNCHANGED UntouchedByReviews

\* Variant: a rejection is recorded but leaves the scheduled resume in place.
WaitAsBefore(row) == row

\* A rejection takes the job back from a worker that is about to publish it.
WaitAgain(row) ==
    [Released(row) EXCEPT
        !.status = "needs_review", !.phase = "publishing",
        !.error = "CONTENT_REVIEW_REQUIRED", !.review = "awaiting_review",
        !.token = IF row.status = "processing" THEN @ + 1 ELSE @]

Reject(r, j) ==
    LET k == job[j].key IN
    /\ job[j].token < MaxToken
    /\ Reviewable(j) /\ (Waiting(j) \/ Resuming(j))
    /\ desk[r] = BindingOf(j)
    /\ review' = [review EXCEPT ![k] = [@ EXCEPT
                      !.decision = "REJECTED", !.reviewer = r,
                      !.version = revision[k].version, !.generation = job[j].generation]]
    /\ job' = [job EXCEPT ![j] = WaitAgain(@)]
    /\ UNCHANGED revision /\ UNCHANGED UntouchedByReviews

\* A rejection that replaces the draft; the new one differs and passes its checks.
Correct(r, j) ==
    LET k == job[j].key IN
    /\ job[j].token < MaxToken
    /\ Reviewable(j) /\ (Waiting(j) \/ Resuming(j))
    /\ revision[k].version < MaxVersion
    /\ desk[r] = BindingOf(j)
    /\ revision' = [revision EXCEPT ![k] = [@ EXCEPT !.version = revision[k].version + 1]]
    /\ review' = [review EXCEPT ![k] = [@ EXCEPT
                      !.decision = "REJECTED", !.reviewer = r,
                      !.version = revision[k].version + 1, !.generation = job[j].generation,
                      !.corrector = r, !.authors = review[k].authors \cup {r}]]
    /\ job' = [job EXCEPT ![j] = WaitAgain(@)]
    /\ UNCHANGED UntouchedByReviews

(***************************************************************************)
(* record_failed_correction: the introduction of a failed response is      *)
(* rewritten by hand, which makes the draft valid and awaiting review.     *)
(***************************************************************************)
CorrectFailed(r, j) ==
    LET k == job[j].key IN
    /\ FailedDraft(j)
    /\ revision[k].version < MaxVersion
    /\ desk[r] = BindingOf(j)
    /\ revision' = [revision EXCEPT ![k] = [@ EXCEPT
                         !.status = "validated", !.sound = TRUE,
                         !.version = revision[k].version + 1]]
    /\ review' = [review EXCEPT ![k] =
                      [decision |-> "REJECTED", reviewer |-> r,
                       version |-> revision[k].version + 1,
                       generation |-> job[j].generation, corrector |-> r,
                       failedOrigin |-> TRUE, authors |-> {r}]]
    /\ job' = [job EXCEPT ![j] = [WaitAgain(@) EXCEPT !.rewriteError = "none"]]
    /\ UNCHANGED UntouchedByReviews
=============================================================================
