----------------------------- MODULE ArticleWorker -----------------------------
(***************************************************************************)
(* run_article_job: one worker process carrying a claimed job from the     *)
(* source request to the publication.  Every action is one transaction or  *)
(* one call to a provider; between them any other process may commit, the  *)
(* lease may run out, and the process may die.  A transaction that finds   *)
(* its lease lost raises LeaseLost, which gives the job up unrecorded.     *)
(***************************************************************************)
EXTENDS ArticleClaims

\* The two profiles that rewrite all the prose, reviewed or automatic.
FullProse(j) == job[j].profile \in {"review", "auto"}

\* Variant: a key that ignores the projection of the source.
KeyOfFingerprint(j, s) ==
    [article |-> job[j].article, source |-> [s EXCEPT !.projection = 2],
     profile |-> job[j].profile]

\* The job's key once it captured source s.
KeyOf(j, s) == [article |-> job[j].article, source |-> s, profile |-> job[j].profile]

RowsKept == UNCHANGED <<article, job, revision, attempts, review, outbox, desk>>

\* LeaseLost: the rows stay as they are and the worker polls again.
GiveUp(w) == Leave(w) /\ RowsKept

(***************************************************************************)
(* _live, and the context read of _capture_context.                        *)
(***************************************************************************)
Begin(w) ==
    LET j == worker[w].job IN
    /\ worker[w].pc = "begin"
    /\ IF ~LeaseHeld(w) THEN Leave(w)
       ELSE Goto(w, IF job[j].source = None THEN "capture" ELSE "load")
    /\ RowsKept

(***************************************************************************)
(* capture_source_article: the provider answers with a source, with a      *)
(* failure worth retrying, with a refusal, or with content the capture     *)
(* does not accept (a ValueError or TimeoutError, handled like a rewrite   *)
(* failure).  Another generation ends the attempt before the request.      *)
(***************************************************************************)
SameGeneration(j) ==
    LET a == article[job[j].article] IN a.job = j /\ a.generation = job[j].generation

Capture(w) ==
    LET j == worker[w].job IN
    /\ worker[w].pc = "capture"
    /\ IF ~(LeaseHeld(w) /\ SameGeneration(j)) THEN Leave(w)
       ELSE \/ \E s \in Source :
                 worker' = [worker EXCEPT ![w] = [@ EXCEPT !.pc = "commit", !.fetched = s]]
            \/ \E f \in {"source_retry", "source_refused"} : FailWith(w, "fail", f)
            \/ \E f \in {"refused", "transport"} : FailWith(w, "record", f)
    /\ RowsKept

(***************************************************************************)
(* _store_captured_source.  The transformation key has one owner: the job  *)
(* that takes it goes on; a job that finds it owned completes at once with *)
(* the owner's published or terminal result, and a draft waiting for       *)
(* review is adopted into a generation of its own.                         *)
(***************************************************************************)
Downgrade(a, s) ==
    /\ s.projection = 1
    /\ article[a].source # None /\ article[a].source.projection = 2

\* Variant: an owner that finished is overlooked.
UnfinishedOwnerOf(k) == {o \in Jobs : job[o].key = k /\ job[o].status # "completed"}

\* The job that owns the transformation key, if any does.
OwnerOf(k) == {o \in Jobs : job[o].key = k}

\* Variant: the article points at any saved draft of its source.
CanonicalDraft(k) == IF revision[k].status # "none" THEN k ELSE None

\* A published transformation of the source is shown at once.
Canonical(k) == IF revision[k].status = "published" THEN k ELSE None

TakeKey(w, j, a, s, k) ==
    /\ job' = [job EXCEPT ![j] = [@ EXCEPT
                  !.source = s, !.key = k, !.phase = "normalizing"]]
    /\ article' = [article EXCEPT ![a] = [@ EXCEPT !.source = s, !.canonical = Canonical(k)]]
    /\ Goto(w, "load")

\* The owner's result is final: it failed, waits for a person, or was rejected.
TerminalOwner(o, k) ==
    job[o].status \in {"needs_review", "dead_letter"} \/ revision[k].status = "rejected"

Adopts(o, k) ==
    /\ job[o].status = "needs_review" /\ job[o].profile = "review"
    /\ revision[k].status = "validated"

\* Variant: the owner moves into the generation the inspecting job already has.
InspectedGeneration(j) == job[j].generation

\* The adopted draft gets a generation of its own.
AdoptedGeneration(j) == job[j].generation + 1

\* Inspection completes; the article points at the terminal owner again.
Reuse(w, j, a, s, k, o) ==
    LET terminal == TerminalOwner(o, k)
        adopted == terminal /\ Adopts(o, k)
        inspected == [job EXCEPT ![j] = [Released(@) EXCEPT
                         !.source = s, !.status = "completed", !.phase = "completed"]]
    IN /\ job' = IF adopted
                 THEN [inspected EXCEPT ![o] = [@ EXCEPT
                          !.generation = AdoptedGeneration(j), !.review = "awaiting_review"]]
                 ELSE inspected
       /\ article' = [article EXCEPT ![a] = [@ EXCEPT
              !.source = s, !.canonical = Canonical(k),
              !.job = IF terminal THEN o ELSE article[a].job,
              !.generation = IF adopted THEN AdoptedGeneration(j) ELSE article[a].generation]]
       /\ Leave(w)

CommitSource(w) ==
    LET j == worker[w].job
        a == job[j].article
        s == worker[w].fetched
        k == KeyOf(j, s)
    IN /\ worker[w].pc = "commit"
       /\ IF ~(LeaseHeld(w) /\ SameGeneration(j))
          THEN Leave(w) /\ UNCHANGED <<article, job>>
          ELSE IF Downgrade(a, s)
          THEN FailWith(w, "record", "refused") /\ UNCHANGED <<article, job>>
          ELSE \/ OwnerOf(k) \subseteq {j} /\ TakeKey(w, j, a, s, k)
               \/ \E o \in OwnerOf(k) \ {j} :
                    IF revision[k].status = "published" \/ TerminalOwner(o, k)
                    THEN Reuse(w, j, a, s, k, o)
                    ELSE Leave(w) /\ UNCHANGED <<article, job>>
       /\ UNCHANGED <<revision, attempts, review, outbox, desk>>

(***************************************************************************)
(* load_candidate: a saved draft is never rewritten again.                 *)
(***************************************************************************)
Load(w) ==
    LET j == worker[w].job IN
    /\ worker[w].pc = "load"
    /\ IF ~TransformHeld(w) THEN Leave(w)
       ELSE Goto(w, IF HasCandidate(j) THEN "reload" ELSE "normalize")
    /\ RowsKept

(***************************************************************************)
(* save_normalized_input, and what run_article_job decides from it: keep a *)
(* document without prose slots, park or refuse without a model, refuse a  *)
(* document the profile does not apply to, or rewrite it.                  *)
(***************************************************************************)
Normalize(w) ==
    LET j == worker[w].job
        zeroSlot == job[j].profile = "auto" /\ job[j].source.fingerprint \in ZeroSlot
    IN /\ worker[w].pc = "normalize"
       /\ IF ~TransformHeld(w)
          THEN Leave(w) /\ UNCHANGED job
          ELSE /\ job' = [job EXCEPT ![j] = [@ EXCEPT !.phase = "rewriting", !.normalized = TRUE]]
               /\ IF zeroSlot THEN Goto(w, "preserve")
                  ELSE IF worker[w].ready
                  THEN Goto(w, "prepare") \/ FailWith(w, "record", "refused")
                  ELSE IF job[j].profile = "auto" THEN Goto(w, "park")
                  ELSE FailWith(w, "record", "refused")
       /\ UNCHANGED <<article, revision, attempts, review, outbox, desk>>

Draft(status, sound, preserving) ==
    [status |-> status, sound |-> sound, preserving |-> preserving, version |-> 0]

\* store_source_preserving_candidate: a server draft only if no model ever ran.
Preserve(w) ==
    LET j == worker[w].job IN
    /\ worker[w].pc = "preserve"
    /\ IF ~TransformHeld(w)
       THEN Leave(w) /\ UNCHANGED <<job, revision>>
       ELSE IF AttemptsOf(j) # {}
       THEN FailWith(w, "record", "refused") /\ UNCHANGED <<job, revision>>
       ELSE /\ revision' = [revision EXCEPT ![job[j].key] = Draft("building", TRUE, TRUE)]
            /\ job' = [job EXCEPT ![j] = [@ EXCEPT !.phase = "validating"]]
            /\ Goto(w, "reload")
    /\ UNCHANGED <<article, attempts, review, outbox, desk>>

\* Variant: a job whose model once ran is parked like one that never did.
MayParkAgain(j) == job[j].normalized

\* Only a job that dispatched nothing waits for the model.
MayPark(j) == job[j].normalized /\ AttemptsOf(j) = {}

\* park_automatic_for_model: waits for configuration, having dispatched nothing.
Park(w) ==
    LET j == worker[w].job IN
    /\ worker[w].pc = "park"
    /\ IF ~TransformHeld(w)
       THEN Leave(w) /\ UNCHANGED job
       ELSE IF ~MayPark(j)
       THEN FailWith(w, "record", "refused") /\ UNCHANGED job
       ELSE /\ job' = [job EXCEPT ![j] = [Released(@) EXCEPT
                          !.status = "failed", !.error = "MODEL_NOT_CONFIGURED"]]
            /\ Leave(w)
    /\ UNCHANGED <<article, revision, attempts, review, outbox, desk>>

(***************************************************************************)
(* prepare_rewrite_attempt and mark_rewrite_dispatched commit before the   *)
(* model is called, so that a call that may have happened is on record.    *)
(***************************************************************************)
AttemptOf(w) ==
    [job |-> worker[w].job, token |-> worker[w].token, number |-> job[worker[w].job].retry]

With(attempt, status) ==
    [job |-> attempt.job, token |-> attempt.token, number |-> attempt.number,
     status |-> status]

Numbered(x, attempt) ==
    x.job = attempt.job /\ x.token = attempt.token /\ x.number = attempt.number

Prepare(w) ==
    /\ worker[w].pc = "prepare"
    /\ IF ~TransformHeld(w)
       THEN Leave(w) /\ UNCHANGED attempts
       ELSE /\ attempts' = IF \E x \in attempts : Numbered(x, AttemptOf(w))
                           THEN attempts
                           ELSE attempts \cup {With(AttemptOf(w), "prepared")}
            /\ Goto(w, "dispatch")
    /\ UNCHANGED <<article, job, revision, review, outbox, desk>>

Dispatch(w) ==
    LET prepared == With(AttemptOf(w), "prepared")
        dispatched == With(AttemptOf(w), "dispatched")
    IN /\ worker[w].pc = "dispatch"
       /\ IF ~TransformHeld(w)
          THEN Leave(w) /\ UNCHANGED attempts
          ELSE IF prepared \notin attempts
          THEN FailWith(w, "record", "refused") /\ UNCHANGED attempts
          ELSE /\ attempts' = (attempts \ {prepared}) \cup {dispatched}
               /\ Goto(w, "model")
       /\ UNCHANGED <<article, job, revision, review, outbox, desk>>

(***************************************************************************)
(* rewrite_ordered_document: a usable rewrite, a saved response that broke *)
(* the technical content or the format, no usable response at all, a lost  *)
(* answer, or a configuration the provider refuses.                        *)
(***************************************************************************)
Model(w) ==
    /\ worker[w].pc = "model"
    /\ \/ \E x \in {"sound", "mutation", "invalid"} :
            worker' = [worker EXCEPT ![w] = [@ EXCEPT !.pc = "result", !.answer = x]]
       \/ \E f \in {"refused", "transport", "configuration"} : FailWith(w, "record", f)
    /\ RowsKept

(***************************************************************************)
(* store_rewrite_result: draft, response and, for a draft that a person    *)
(* has to review, the wait for that person commit together.                *)
(***************************************************************************)
ErrorOf(answer) ==
    CASE answer = "mutation" -> "REWRITE_TECHNICAL_MUTATION"
      [] answer = "invalid" -> "REWRITE_RESPONSE_INVALID"
      [] OTHER -> "none"

\* What a draft that passed its checks does to the job that waits for a reviewer.
AwaitReview(row) ==
    [Released(row) EXCEPT !.status = "needs_review", !.phase = "publishing",
                          !.error = "CONTENT_REVIEW_REQUIRED", !.review = "awaiting_review"]

StoreResult(w, j, dispatched) ==
    LET error == ErrorOf(worker[w].answer)
        sound == error = "none"
        saved == [job[j] EXCEPT !.phase = "validating", !.rewriteError = error]
        waits == sound /\ job[j].profile = "review"
    IN /\ attempts' = (attempts \ {dispatched})
                        \cup {With(dispatched, IF sound THEN "succeeded" ELSE "failed")}
       /\ revision' = [revision EXCEPT ![job[j].key] =
                          Draft(IF waits THEN "validated" ELSE "building", sound, FALSE)]
       /\ job' = [job EXCEPT ![j] = IF waits THEN AwaitReview(saved) ELSE saved]
       /\ IF waits THEN Leave(w) ELSE Goto(w, "reload")

Result(w) ==
    LET dispatched == With(AttemptOf(w), "dispatched") IN
    /\ worker[w].pc = "result"
    /\ IF ~TransformHeld(w)
       THEN Leave(w) /\ UNCHANGED <<job, revision, attempts>>
       ELSE \/ dispatched \in attempts /\ StoreResult(w, worker[w].job, dispatched)
            \/ FailWith(w, "record", "refused") /\ UNCHANGED <<job, revision, attempts>>
    /\ UNCHANGED <<article, review, outbox, desk>>

\* A saved failed response of a full-prose profile is kept, not validated.
Reload(w) ==
    LET j == worker[w].job IN
    /\ worker[w].pc = "reload"
    /\ IF ~TransformHeld(w) THEN Leave(w)
       ELSE IF FullProse(j) /\ job[j].rewriteError # "none"
       THEN FailWith(w, "fail", "rewrite")
       ELSE Goto(w, "validate")
    /\ RowsKept

(***************************************************************************)
(* validate_saved_candidate and store_validation.  A review draft is       *)
(* validated where it is stored, so it only passes through here.           *)
(***************************************************************************)
Validate(w) ==
    LET j == worker[w].job
        k == job[j].key
    IN /\ worker[w].pc = "validate"
       /\ IF ~TransformHeld(w)
          THEN Leave(w) /\ UNCHANGED <<job, revision>>
          ELSE /\ IF revision[k].status = "building"
                  THEN /\ revision' = [revision EXCEPT ![k] = [@ EXCEPT !.status =
                              IF revision[k].sound THEN "validated" ELSE "rejected"]]
                       /\ job' = [job EXCEPT ![j] = [@ EXCEPT !.phase = "publishing"]]
                  ELSE UNCHANGED <<job, revision>>
               /\ IF revision[k].sound /\ job[j].rewriteError = "none"
                  THEN Goto(w, "publish") ELSE FailWith(w, "fail", "rewrite")
       /\ UNCHANGED <<article, attempts, review, outbox, desk>>

(***************************************************************************)
(* publish_article_revision: the revision, the article's pointer, the      *)
(* job's completion and the outbox event commit together.                  *)
(***************************************************************************)
Evidence(j) ==
    \/ revision[job[j].key].preserving
    \/ review[job[j].key].failedOrigin
    \/ \E x \in AttemptsOf(j) : x.status = "succeeded"

Publishable(j) ==
    /\ HasCandidate(j)
    /\ revision[job[j].key].status = "validated" /\ revision[job[j].key].sound
    /\ Evidence(j)
    /\ job[j].profile = "review" => FullyApproved(j)

Publish(w) ==
    LET j == worker[w].job
        k == job[j].key
    IN /\ worker[w].pc = "publish"
       /\ IF ~TransformHeld(w)
          THEN Leave(w) /\ UNCHANGED <<article, job, revision, outbox>>
          ELSE IF ~Publishable(j)
          THEN FailWith(w, "record", "refused") /\ UNCHANGED <<article, job, revision, outbox>>
          ELSE /\ revision' = [revision EXCEPT ![k] = [@ EXCEPT !.status = "published"]]
               /\ article' = [article EXCEPT ![job[j].article] = [@ EXCEPT !.canonical = k]]
               /\ job' = [job EXCEPT ![j] = [Released(@) EXCEPT
                              !.status = "completed", !.phase = "completed", !.error = "none"]]
               /\ outbox' = outbox \cup {k}
               /\ Leave(w)
       /\ UNCHANGED <<attempts, review, desk>>

(***************************************************************************)
(* record_rewrite_failure, run by the exception handlers before the job    *)
(* fails: it insists on the transformation, so a handler whose source was  *)
(* never stored may raise LeaseLost itself.                                *)
(***************************************************************************)
\* Variant: a status the attempts table does not know.
ClosedAsRefused(failure) ==
    IF failure \in {"transport", "configuration"} THEN "ambiguous" ELSE "refused"

\* A call whose answer was lost may have happened.
Closed(failure) == IF failure \in {"transport", "configuration"} THEN "ambiguous" ELSE "failed"

Record(w) ==
    LET open(x) == /\ x.job = worker[w].job /\ x.token = worker[w].token
                   /\ x.status \in {"prepared", "dispatched"}
    IN /\ worker[w].pc = "record"
       /\ IF ~TransformHeld(w)
          THEN Leave(w) /\ UNCHANGED attempts
          ELSE /\ attempts' = {IF open(x) THEN [x EXCEPT !.status = Closed(worker[w].failure)]
                               ELSE x : x \in attempts}
               /\ Goto(w, "fail")
       /\ UNCHANGED <<article, job, revision, review, outbox, desk>>

\* fail_source_job
Fail(w) ==
    LET j == worker[w].job
        retryable == worker[w].failure \in {"source_retry", "transport"}
        status == IF retryable /\ job[j].retry < MaxAttempts THEN "failed"
                  ELSE IF retryable \/ job[j].profile = "auto" THEN "dead_letter"
                  ELSE "needs_review"
        error == IF worker[w].failure = "rewrite" THEN job[j].rewriteError ELSE "REFUSED"
    IN /\ worker[w].pc = "fail"
       /\ job' = IF LeaseHeld(w)
                 THEN [job EXCEPT ![j] = [Released(@) EXCEPT
                          !.status = status, !.error = error]]
                 ELSE job
       /\ Leave(w)
       /\ UNCHANGED <<article, revision, attempts, review, outbox, desk>>

(***************************************************************************)
(* The heartbeat thread, the clock, and the death of a worker process.  A  *)
(* worker that notices a failed heartbeat stops where it is, which is the  *)
(* same to every row as dying there.                                       *)
(***************************************************************************)
Heartbeat(w) ==
    /\ worker[w].pc \notin {"idle", "sweep"}
    /\ LeaseHeld(w)
    /\ job' = [job EXCEPT ![worker[w].job] = [@ EXCEPT !.lease = LeaseTerm]]
    /\ UNCHANGED <<article, revision, attempts, review, outbox, worker, desk>>

\* No process holds the lease that the row still carries.
Abandoned(j) == \A w \in Workers : ~(worker[w].job = j /\ LeaseHeld(w))

LeaseTick(j) ==
    /\ job[j].status = "processing" /\ job[j].lease > 0
    /\ job[j].token < MaxToken \/ Abandoned(j)
    /\ job' = [job EXCEPT ![j] = [@ EXCEPT !.lease = job[j].lease - 1]]
    /\ UNCHANGED <<article, revision, attempts, review, outbox, worker, desk>>

\* A poll that dies rolls back, as if it had not started.
Crash(w) ==
    /\ worker[w].pc \notin {"idle", "sweep"}
    /\ worker[w].token < MaxToken
    /\ GiveUp(w)
=============================================================================
