------------------------ MODULE ArticleOwnership_proofs ------------------------
(***************************************************************************)
(* Which job an article asks for.  Every step of the lifecycle either      *)
(* leaves generations and pointers alone, creates the job the article asks *)
(* for next, or completes the current job in favour of an older owner of   *)
(* its transformation.  From those three shapes follow that at most one    *)
(* job of an article is active, and that no two share a generation.        *)
(***************************************************************************)
EXTENDS ArticleTypes_proofs

USE ConstantsAssumption, NoneAssumption

(***************************************************************************)
(* The three shapes of a step.                                             *)
(***************************************************************************)
Steady ==
    /\ \A a \in Articles : /\ article'[a].job = article[a].job
                           /\ article'[a].generation = article[a].generation
    /\ \A i \in Jobs : /\ job'[i].article = job[i].article
                       /\ job'[i].generation = job[i].generation
                       /\ (job'[i].status = "absent") = (job[i].status = "absent")
                       /\ Active(i)' => Active(i) \/ Current(i)
                       /\ \/ job'[i].key = job[i].key
                          \/ job'[i].key.article = job[i].article

Created(a, j) ==
    /\ job[j].status = "absent"
    /\ article[a].job = None \/ NoActiveCurrentJob(a) \/ NoActiveJobOf(a)
    /\ job'[j].status # "absent" /\ job'[j].article = a /\ job'[j].key = None
    /\ article'[a].job = j /\ article'[a].generation = job'[j].generation
    /\ \/ job'[j].generation = article[a].generation + 1
       \/ article[a].job = None /\ job'[j].generation = article[a].generation
    /\ \A b \in Articles \ {a} : article'[b] = article[b]
    /\ \A i \in Jobs \ {j} : job'[i] = job[i]

Reused(a, j, o) ==
    /\ j # o
    /\ job[j].status = "processing" /\ job[j].article = a
    /\ article[a].job = j /\ article[a].generation = job[j].generation
    /\ job[o].key # None /\ job[o].key.article = a
    /\ job'[j].status = "completed" /\ job'[j].article = a
    /\ job'[j].generation = job[j].generation /\ job'[j].key = job[j].key
    /\ job'[o].status = job[o].status /\ job'[o].article = job[o].article
    /\ job'[o].key = job[o].key
    /\ \/ /\ article'[a].job \in {j, o} /\ article'[a].generation = article[a].generation
          /\ job'[o].generation = job[o].generation
       \/ /\ job[o].status = "needs_review"
          /\ article'[a].job = o /\ article'[a].generation = article[a].generation + 1
          /\ job'[o].generation = article'[a].generation
    /\ \A b \in Articles \ {a} : article'[b] = article[b]
    /\ \A i \in Jobs \ {j, o} : job'[i] = job[i]

StepKind ==
    \/ Steady
    \/ \E a \in Articles, j \in Jobs : Created(a, j)
    \/ \E a \in Articles, j \in Jobs, o \in Jobs : Reused(a, j, o)

(***************************************************************************)
(* Steps that leave the job rows alone, or change one row in place.        *)
(***************************************************************************)
LEMMA SteadyUnchanged == ASSUME UNCHANGED <<article, job>> PROVE Steady
BY DEF Steady, Active

\* What a row keeps when the job goes on.
Continues(old, new) ==
    /\ new.article = old.article /\ new.generation = old.generation /\ new.key = old.key
    /\ (new.status = "absent") = (old.status = "absent")

LEMMA SteadyRow ==
    ASSUME TypeInv, NEW j \in Jobs, NEW row \in JobRow, job' = [job EXCEPT ![j] = row],
           \A a \in Articles : /\ article'[a].job = article[a].job
                               /\ article'[a].generation = article[a].generation,
           Continues(job[j], row),
           row.status \in {"pending", "processing", "failed"} => Active(j) \/ Current(j)
    PROVE  Steady
<1>1. job'[j] = row /\ \A i \in Jobs \ {j} : job'[i] = job[i]
  BY DEF TypeInv, TypeOK
<1>2. \A i \in Jobs : Active(i)' => Active(i) \/ Current(i)
  BY <1>1 DEF Active
<1> QED BY <1>1, <1>2 DEF Steady, Continues

LEMMA ReleasedContinues ==
    ASSUME NEW row \in JobRow, NEW s \in Status \ {"absent"}, row.status # "absent"
    PROVE  /\ Released(row).status = row.status
           /\ Continues(row, [Released(row) EXCEPT !.status = s])
BY DEF Released, Continues, JobRow

(***************************************************************************)
(* Each action has one of the shapes.                                      *)
(***************************************************************************)
LEMMA CreatedByRequest ==
    ASSUME TypeInv, NEW a \in Articles, Request(a)
    PROVE  \E j \in Jobs : Created(a, j)
<1>0. /\ FreshJob(a) \in JobRow /\ FreshJob(a).article = a /\ FreshJob(a).key = None
      /\ FreshJob(a).status = "pending" /\ FreshJob(a).generation = article[a].generation
      /\ article[a] \in ArticleRow
  BY FreshJobType DEF FreshJob, AbsentJob, TypeInv, TypeOK
<1> DEFINE Insert(j, row) ==
        /\ job[j].status = "absent"
        /\ job' = [job EXCEPT ![j] = row]
        /\ row.article = a /\ row.key = None /\ row.status # "absent"
        /\ article'[a].job = j /\ article'[a].generation = row.generation
        /\ \A b \in Articles \ {a} : article'[b] = article[b]
<1>1. ASSUME NEW j \in Jobs, NEW row, Insert(j, row),
             article[a].job = None \/ NoActiveCurrentJob(a) \/ NoActiveJobOf(a),
             \/ row.generation = article[a].generation + 1
             \/ article[a].job = None /\ row.generation = article[a].generation
      PROVE  Created(a, j)
  <2>1. job'[j] = row /\ \A i \in Jobs \ {j} : job'[i] = job[i]
    BY <1>1 DEF TypeInv, TypeOK
  <2> QED BY <1>1, <2>1 DEF Created
<1>2. CASE EnsureJob(a)
  <2>1. PICK j \in Jobs : /\ job[j].status = "absent"
                          /\ job' = [job EXCEPT ![j] = FreshJob(a)]
                          /\ article' = [article EXCEPT ![a] = [article[a] EXCEPT !.job = j]]
    BY <1>2 DEF EnsureJob, TypeInv, TypeOK
  <2>2. article'[a].job = j /\ article'[a].generation = article[a].generation
    BY <1>0, <2>1 DEF TypeInv, TypeOK, ArticleRow
  <2>3. Insert(j, FreshJob(a))
    BY <1>0, <2>1, <2>2 DEF TypeInv, TypeOK
  <2> QED BY <1>0, <1>1, <1>2, <2>3 DEF EnsureJob
<1>3. ASSUME NEW p \in Profiles, RefreshJob(a, p) PROVE \E j \in Jobs : Created(a, j)
  <2> DEFINE row == [FreshJob(a) EXCEPT !.generation = article[a].generation + 1, !.profile = p]
             arow(j) == [article[a] EXCEPT !.job = j, !.profile = p,
                                           !.generation = article[a].generation + 1]
  <2>1. PICK j \in Jobs : /\ job[j].status = "absent"
                          /\ job' = [job EXCEPT ![j] = row]
                          /\ article' = [article EXCEPT ![a] = arow(j)]
    BY <1>3 DEF RefreshJob, TypeInv, TypeOK
  <2>2. article'[a].job = j /\ article'[a].generation = article[a].generation + 1
    BY <1>0, <2>1 DEF TypeInv, TypeOK, ArticleRow
  <2>3. /\ row.article = a /\ row.key = None /\ row.status # "absent"
        /\ row.generation = article[a].generation + 1
    BY <1>0 DEF JobRow
  <2>4. Insert(j, row)
    BY <2>1, <2>2, <2>3 DEF TypeInv, TypeOK
  <2> QED BY <1>1, <1>3, <2>3, <2>4 DEF RefreshJob
<1>4. CASE Reproject(a)
  <2> DEFINE corrected == [article[a].source EXCEPT !.projection = 2]
             row == [FreshJob(a) EXCEPT
                       !.generation = article[a].generation + 1,
                       !.status = "needs_review", !.phase = "completed",
                       !.error = "SOURCE_ONLY_REPROJECTION",
                       !.retry = 1, !.token = 1, !.source = corrected]
             arow(j) == [article[a] EXCEPT !.job = j, !.generation = article[a].generation + 1,
                                           !.source = corrected, !.canonical = None]
  <2>1. PICK j \in Jobs : /\ job[j].status = "absent"
                          /\ job' = [job EXCEPT ![j] = row]
                          /\ article' = [article EXCEPT ![a] = arow(j)]
    BY <1>4 DEF Reproject, TypeInv, TypeOK
  <2>2. article'[a].job = j /\ article'[a].generation = article[a].generation + 1
    BY <1>0, <2>1 DEF TypeInv, TypeOK, ArticleRow
  <2>3. /\ row.article = a /\ row.key = None /\ row.status # "absent"
        /\ row.generation = article[a].generation + 1
    BY <1>0 DEF JobRow
  <2>4. Insert(j, row)
    BY <2>1, <2>2, <2>3 DEF TypeInv, TypeOK
  <2> QED BY <1>1, <1>4, <2>3, <2>4 DEF Reproject
<1> QED BY <1>2, <1>3, <1>4 DEF Request

LEMMA ClaimedContinues ==
    ASSUME NEW row \in JobRow, NEW w \in Workers, NEW p \in Phase, NEW n \in Nat,
           row.status # "absent"
    PROVE  /\ Continues(row, [ClaimedBy(w, row) EXCEPT !.phase = p, !.error = "none"])
           /\ Continues(row, [ClaimedBy(w, row) EXCEPT !.retry = n, !.phase = p])
BY DEF ClaimedBy, Continues, JobRow

LEMMA SteadyClaim == ASSUME TypeInv, NEW w \in Workers, Claim(w) PROVE Steady
<1>0. UNCHANGED article
  BY DEF Claim, ClaimAutomatic, ClaimReview, ClaimConfiguration, PassResume, SweepExhausted,
         ClaimGeneric, NothingToClaim, UntouchedByClaims
<1>1. ASSUME NEW j \in Jobs, NEW p \in Phase, Active(j) \/ Current(j), job[j].status # "absent",
             job' = [job EXCEPT ![j] = [ClaimedBy(w, @) EXCEPT !.phase = p, !.error = "none"]]
      PROVE  Steady
  <2> DEFINE row == [ClaimedBy(w, job[j]) EXCEPT !.phase = p, !.error = "none"]
  <2>1. job[j] \in JobRow /\ job' = [job EXCEPT ![j] = row]
    BY <1>1 DEF TypeInv, TypeOK
  <2>2. row \in JobRow
    BY <2>1, ClaimedType, JobColumns DEF ErrorCode, RewriteError
  <2>3. Continues(job[j], row)
    BY <1>1, <2>1, ClaimedContinues
  <2> HIDE DEF row
  <2> QED BY <1>0, <1>1, <2>1, <2>2, <2>3, SteadyRow
<1>2. ASSUME NEW j \in Jobs, NEW row \in JobRow, job' = [job EXCEPT ![j] = row],
             Continues(job[j], row), row.status \in {"dead_letter", "needs_review"}
      PROVE  Steady
  BY <1>0, <1>2, SteadyRow
<1>3. \A j \in Jobs : Resumable(j) => Active(j) /\ job[j].status # "absent"
  BY DEF Resumable, Expired, Active
<1>4. {"validating", "publishing", "rewriting"} \subseteq Phase
  BY DEF Phase
<1>5. ASSUME NEW j \in Jobs, NEW ready \in BOOLEAN, ClaimAutomatic(w, j, ready) PROVE Steady
  <2>1. CASE job' = [job EXCEPT ![j] = [ClaimedBy(w, @) EXCEPT
                        !.phase = "validating", !.error = "none"]]
    BY <1>1, <1>3, <1>4, <1>5, <2>1 DEF ClaimAutomatic
  <2>2. CASE job' = [job EXCEPT ![j] = [Released(@) EXCEPT
                        !.status = "dead_letter", !.error = "AUTOMATIC_CANDIDATE_INVALID"]]
    <3> DEFINE row == [Released(job[j]) EXCEPT
                          !.status = "dead_letter", !.error = "AUTOMATIC_CANDIDATE_INVALID"]
    <3>1. job[j] \in JobRow /\ job' = [job EXCEPT ![j] = row] /\ job[j].status # "absent"
      BY <1>3, <1>5, <2>2 DEF ClaimAutomatic, TypeInv, TypeOK
    <3>2. row \in JobRow
      BY <3>1, ReleasedType, JobColumns DEF Status, ErrorCode
    <3>3. Continues(job[j], row) /\ row.status = "dead_letter"
      BY <3>1 DEF Released, Continues, JobRow
    <3> QED BY <1>2, <3>1, <3>2, <3>3
  <2> QED BY <1>5, <2>1, <2>2 DEF ClaimAutomatic
<1>6. ASSUME NEW j \in Jobs, NEW ready \in BOOLEAN, ClaimReview(w, j, ready) PROVE Steady
  <2>1. CASE job' = [job EXCEPT ![j] = [ClaimedBy(w, @) EXCEPT
                        !.phase = "publishing", !.error = "none"]]
    BY <1>1, <1>3, <1>4, <1>6, <2>1 DEF ClaimReview
  <2>2. CASE job' = [job EXCEPT ![j] = [Released(@) EXCEPT
                        !.status = "needs_review", !.error = "CONTENT_REVIEW_REQUIRED",
                        !.review = "awaiting_review"]]
    <3> DEFINE row == [Released(job[j]) EXCEPT
                          !.status = "needs_review", !.error = "CONTENT_REVIEW_REQUIRED",
                          !.review = "awaiting_review"]
    <3>1. job[j] \in JobRow /\ job' = [job EXCEPT ![j] = row] /\ job[j].status # "absent"
      BY <1>3, <1>6, <2>2 DEF ClaimReview, TypeInv, TypeOK
    <3>2. row \in JobRow
      BY <3>1, ReleasedType, JobColumns DEF Status, ErrorCode
    <3>3. Continues(job[j], row) /\ row.status = "needs_review"
      BY <3>1 DEF Released, Continues, JobRow
    <3> QED BY <1>2, <3>1, <3>2, <3>3
  <2> QED BY <1>6, <2>1, <2>2 DEF ClaimReview
<1>7. ASSUME NEW j \in Jobs, ClaimConfiguration(w, j) PROVE Steady
  <2>1. AwaitingModel(j) /\ job[j].status # "absent" /\ Current(j)
    BY <1>7 DEF ClaimConfiguration, AwaitingModel
  <2> QED BY <1>1, <1>4, <1>7, <2>1 DEF ClaimConfiguration
<1>8. ASSUME SweepExhausted(w) PROVE Steady
  <2> DEFINE j == worker[w].job
             row == [Released(job[j]) EXCEPT
                        !.status = "dead_letter", !.error = "LEASE_ATTEMPTS_EXHAUSTED"]
  <2>1. j \in Jobs /\ job[j] \in JobRow
    BY <1>8, HeldType DEF SweepExhausted
  <2>2. job[j].status # "absent" /\ job' = [job EXCEPT ![j] = row]
    BY <1>8, <2>1 DEF SweepExhausted, Exhausted, Expired, TypeInv, TypeOK
  <2>3. row \in JobRow
    BY <2>1, ReleasedType, JobColumns DEF Status, ErrorCode
  <2>4. Continues(job[j], row) /\ row.status = "dead_letter"
    BY <2>1, <2>2 DEF Released, Continues, JobRow
  <2> HIDE DEF j, row
  <2> QED BY <1>2, <2>1, <2>2, <2>3, <2>4
<1>9. ASSUME ClaimGeneric(w) PROVE Steady
  <2> DEFINE j == worker[w].job
             row == [ClaimedBy(w, job[j]) EXCEPT !.retry = NextAttempt(j), !.phase = NextPhase(j)]
  <2>1. j \in Jobs /\ job[j] \in JobRow
    BY <1>9, HeldType DEF ClaimGeneric
  <2>2. Active(j) /\ job[j].status # "absent"
    BY <1>9 DEF ClaimGeneric, Claimable, Expired, Active
  <2>3. job' = [job EXCEPT ![j] = row]
    BY <1>9, <2>1 DEF ClaimGeneric, TypeInv, TypeOK
  <2>4. NextAttempt(j) \in Nat /\ NextPhase(j) \in Phase
    BY <2>1 DEF NextAttempt, NextPhase, JobRow, Phase
  <2>5. row \in JobRow
    BY <2>1, <2>4, ClaimedType, JobColumns
  <2>6. Continues(job[j], row)
    BY <2>1, <2>2, <2>4, ClaimedContinues
  <2> HIDE DEF j, row
  <2> QED BY <1>0, <2>1, <2>2, <2>3, <2>5, <2>6, SteadyRow
<1>10. ASSUME UNCHANGED job PROVE Steady
  BY <1>0, <1>10, SteadyUnchanged
<1> QED BY <1>5, <1>6, <1>7, <1>8, <1>9, <1>10 DEF Claim, PassResume, NothingToClaim

LEMMA HeldActive ==
    ASSUME TypeInv, NEW w \in Workers, worker[w].pc # "idle", LeaseHeld(w)
    PROVE  /\ worker[w].job \in Jobs /\ job[worker[w].job] \in JobRow
           /\ job[worker[w].job].status = "processing" /\ Active(worker[w].job)
BY HeldType DEF LeaseHeld, Active

\* A held job that goes on in place, or comes to rest.
LEMMA SteadyHeld ==
    ASSUME TypeInv, NEW w \in Workers, worker[w].pc # "idle", LeaseHeld(w),
           NEW row \in JobRow, job' = [job EXCEPT ![worker[w].job] = row],
           \A a \in Articles : /\ article'[a].job = article[a].job
                               /\ article'[a].generation = article[a].generation,
           Continues(job[worker[w].job], row)
    PROVE  Steady
BY HeldActive, SteadyRow

LEMMA SteadyDraftSteps ==
    ASSUME TypeInv, NEW w \in Workers, Normalize(w) \/ Preserve(w) \/ Park(w) \/ Validate(w)
    PROVE  Steady
<1> DEFINE j == worker[w].job
           phased(p) == [job[j] EXCEPT !.phase = p]
           normal == [job[j] EXCEPT !.phase = "rewriting", !.normalized = TRUE]
           parked == [Released(job[j]) EXCEPT !.status = "failed",
                                              !.error = "MODEL_NOT_CONFIGURED"]
<1>1. UNCHANGED article /\ worker[w].pc # "idle"
  BY DEF Normalize, Preserve, Park, Validate
<1>2. CASE UNCHANGED job
  BY <1>1, <1>2, SteadyUnchanged
<1>3. CASE job' # job
  <2>1. LeaseHeld(w)
    BY <1>3 DEF Normalize, Preserve, Park, Validate, TransformHeld
  <2>2. j \in Jobs /\ job[j] \in JobRow /\ job[j].status = "processing"
    BY <1>1, <2>1, HeldActive
  <2>3. PICK row \in {normal, phased("validating"), phased("publishing"), parked} :
            job' = [job EXCEPT ![j] = row]
    BY <1>3, <2>2 DEF Normalize, Preserve, Park, Validate, TypeInv, TypeOK
  <2>4. row \in JobRow
    <3>1. normal \in JobRow /\ phased("validating") \in JobRow /\ phased("publishing") \in JobRow
      BY <2>2, JobColumns DEF Phase
    <3>2. parked \in JobRow
      BY <2>2, ReleasedType, JobColumns DEF Status, ErrorCode
    <3> QED BY <3>1, <3>2
  <2>5. Continues(job[j], row)
    <3>1. /\ Continues(job[j], normal) /\ Continues(job[j], phased("validating"))
          /\ Continues(job[j], phased("publishing"))
      BY <2>2 DEF Continues, JobRow
    <3>2. Continues(job[j], parked)
      BY <2>2 DEF Continues, Released, JobRow
    <3> QED BY <3>1, <3>2
  <2> HIDE DEF normal, phased, parked
  <2> QED BY <1>1, <2>1, <2>3, <2>4, <2>5, SteadyHeld
<1> QED BY <1>2, <1>3

LEMMA SteadyEndSteps ==
    ASSUME TypeInv, NEW w \in Workers, Result(w) \/ Publish(w) \/ Fail(w) \/ Heartbeat(w)
    PROVE  Steady
<1> DEFINE j == worker[w].job
           error == ErrorOf(worker[w].answer)
           saved == [job[j] EXCEPT !.phase = "validating", !.rewriteError = error]
           published == [Released(job[j]) EXCEPT !.status = "completed", !.phase = "completed",
                                                 !.error = "none"]
           failed(s, e) == [Released(job[j]) EXCEPT !.status = s, !.error = e]
           beat == [job[j] EXCEPT !.lease = LeaseTerm]
<1>1. worker[w].pc # "idle"
  BY DEF Result, Publish, Fail, Heartbeat, LeaseHeld
<1>2. \A a \in Articles : /\ article'[a].job = article[a].job
                          /\ article'[a].generation = article[a].generation
  <2>1. CASE UNCHANGED article
    BY <2>1
  <2>2. CASE \E k : article' = [article EXCEPT ![job[j].article] = [@ EXCEPT !.canonical = k]]
    BY <2>2 DEF TypeInv, TypeOK, ArticleRow
  <2> QED BY <2>1, <2>2 DEF Result, Publish, Fail, Heartbeat
<1>3. CASE UNCHANGED job
  <2>1. \A i \in Jobs : Active(i)' => Active(i)
    BY <1>3 DEF Active
  <2> QED BY <1>2, <1>3, <2>1 DEF Steady
<1>4. CASE job' # job
  <2>1. LeaseHeld(w)
    BY <1>4 DEF Result, Publish, Fail, Heartbeat, TransformHeld
  <2>2. j \in Jobs /\ job[j] \in JobRow /\ job[j].status = "processing"
    BY <1>1, <2>1, HeldActive
  <2>3. error \in RewriteError /\ saved \in JobRow
    <3>1. error \in RewriteError
      BY DEF ErrorOf, RewriteError
    <3> HIDE DEF error
    <3> QED BY <2>2, <3>1, JobColumns DEF Phase
  <2>4. Continues(job[j], saved) /\ saved.status = "processing"
    BY <2>2 DEF Continues, JobRow
  <2>5. AwaitReview(saved) \in JobRow /\ Continues(job[j], AwaitReview(saved))
    <3> HIDE DEF saved
    <3>1. Released(saved) \in JobRow
      BY <2>3, ReleasedType
    <3>2. AwaitReview(saved) \in JobRow
      BY <3>1, JobColumns DEF AwaitReview, Status, Phase, ErrorCode
    <3>3. Continues(job[j], AwaitReview(saved))
      BY <2>2, <2>3, <2>4 DEF AwaitReview, Released, Continues, JobRow
    <3> QED BY <3>2, <3>3
  <2>6. published \in JobRow /\ Continues(job[j], published)
    <3>1. published \in JobRow
      BY <2>2, ReleasedType, JobColumns DEF Status, Phase, ErrorCode, RewriteError
    <3>2. Continues(job[j], published)
      BY <2>2 DEF Released, Continues, JobRow
    <3> QED BY <3>1, <3>2
  <2>7. beat \in JobRow /\ Continues(job[j], beat)
    <3>1. beat \in JobRow
      BY <2>2, JobColumns
    <3>2. Continues(job[j], beat)
      BY <2>2 DEF Continues, JobRow
    <3> QED BY <3>1, <3>2
  <2>8. ASSUME NEW s \in {"failed", "dead_letter", "needs_review"}, NEW e \in ErrorCode
        PROVE  failed(s, e) \in JobRow /\ Continues(job[j], failed(s, e))
    <3>1. failed(s, e) \in JobRow
      BY <2>2, ReleasedType, JobColumns DEF Status
    <3>2. Continues(job[j], failed(s, e))
      BY <2>2 DEF Released, Continues, JobRow
    <3> QED BY <3>1, <3>2
  <2>9. CASE Result(w)
    <3>1. job' = [job EXCEPT ![j] = saved] \/ job' = [job EXCEPT ![j] = AwaitReview(saved)]
      BY <1>4, <2>9 DEF Result, StoreResult
    <3> HIDE DEF saved
    <3> QED BY <1>1, <1>2, <2>1, <2>3, <2>4, <2>5, <3>1, SteadyHeld
  <2>10. CASE Publish(w)
    <3>1. job' = [job EXCEPT ![j] = published]
      BY <1>4, <2>2, <2>10 DEF Publish, TypeInv, TypeOK
    <3> HIDE DEF published
    <3> QED BY <1>1, <1>2, <2>1, <2>6, <3>1, SteadyHeld
  <2>11. CASE Fail(w)
    <3>1. job[j].rewriteError \in ErrorCode /\ "REFUSED" \in ErrorCode
      BY <2>2 DEF JobRow, ErrorCode
    <3>2. PICK s \in {"failed", "dead_letter", "needs_review"}, e \in ErrorCode :
              job' = [job EXCEPT ![j] = failed(s, e)]
      BY <1>4, <2>2, <2>11, <3>1 DEF Fail, TypeInv, TypeOK
    <3> HIDE DEF failed
    <3> QED BY <1>1, <1>2, <2>1, <2>8, <3>2, SteadyHeld
  <2>12. CASE Heartbeat(w)
    <3>1. job' = [job EXCEPT ![j] = beat]
      BY <2>2, <2>12 DEF Heartbeat, TypeInv, TypeOK
    <3> HIDE DEF beat
    <3> QED BY <1>1, <1>2, <2>1, <2>7, <3>1, SteadyHeld
  <2> QED BY <2>9, <2>10, <2>11, <2>12
<1> QED BY <1>3, <1>4

LEMMA CommitSourceKind ==
    ASSUME TypeInv, NEW w \in Workers, CommitSource(w)
    PROVE  Steady \/ \E a \in Articles, j \in Jobs, o \in Jobs : Reused(a, j, o)
<1> DEFINE j == worker[w].job
           a == job[j].article
           s == worker[w].fetched
           k == KeyOf(j, s)
<1>0. worker[w].pc = "commit" /\ worker[w].pc # "idle"
  BY DEF CommitSource
<1>1. /\ j \in Jobs /\ job[j] \in JobRow /\ a \in Articles /\ article[a] \in ArticleRow
      /\ s \in Source /\ k \in Key /\ k.article = a
  <2>1. j \in Jobs /\ job[j] \in JobRow /\ a \in Articles /\ article[a] \in ArticleRow
    BY <1>0, HeldType
  <2>2. s \in Source
    BY <1>0 DEF TypeInv, BusyRow
  <2> QED BY <2>1, <2>2 DEF KeyOf, Key, JobRow
<1>2. CASE UNCHANGED <<article, job>>
  BY <1>2, SteadyUnchanged
<1>3. ASSUME LeaseHeld(w), SameGeneration(j), TakeKey(w, j, a, s, k) PROVE Steady
  <2> DEFINE row == [job[j] EXCEPT !.source = s, !.key = k, !.phase = "normalizing"]
             arow == [article[a] EXCEPT !.source = s, !.canonical = Canonical(k)]
  <2>1. job' = [job EXCEPT ![j] = row] /\ article' = [article EXCEPT ![a] = arow]
    BY <1>1, <1>3 DEF TakeKey, TypeInv, TypeOK
  <2>2. /\ row.article = a /\ row.generation = job[j].generation /\ row.key = k
        /\ row.status = job[j].status
    BY <1>1 DEF JobRow
  <2>3. arow.job = article[a].job /\ arow.generation = article[a].generation
    BY <1>1 DEF ArticleRow
  <2> HIDE DEF row, arow, k, s, a, j
  <2>4. job'[j] = row /\ \A i \in Jobs \ {j} : job'[i] = job[i]
    BY <1>1, <2>1 DEF TypeInv, TypeOK
  <2>5. article'[a] = arow /\ \A b \in Articles \ {a} : article'[b] = article[b]
    BY <1>1, <2>1 DEF TypeInv, TypeOK
  <2>6. \A i \in Jobs : Active(i)' => Active(i)
    BY <2>2, <2>4 DEF Active
  <2>7. job[j].article = a
    BY DEF a
  <2> QED BY <1>1, <2>2, <2>3, <2>4, <2>5, <2>6, <2>7 DEF Steady
<1>4. ASSUME LeaseHeld(w), SameGeneration(j), NEW o \in OwnerOf(k) \ {j}, Reuse(w, j, a, s, k, o)
      PROVE  Reused(a, j, o) /\ o \in Jobs
  <2> DEFINE done == [Released(job[j]) EXCEPT !.source = s, !.status = "completed",
                                              !.phase = "completed"]
             inspected == [job EXCEPT ![j] = done]
             moved == [job[o] EXCEPT !.generation = AdoptedGeneration(j),
                                     !.review = "awaiting_review"]
             adopted == TerminalOwner(o, k) /\ Adopts(o, k)
             target == IF TerminalOwner(o, k) THEN o ELSE article[a].job
             generation == IF adopted THEN AdoptedGeneration(j) ELSE article[a].generation
             arow == [article[a] EXCEPT !.source = s, !.canonical = Canonical(k),
                                        !.job = target, !.generation = generation]
  <2>1. o \in Jobs /\ o # j /\ job[o] \in JobRow /\ job[o].key = k
    BY <1>4 DEF OwnerOf, TypeInv, TypeOK
  <2>2. /\ job[j].status = "processing" /\ article[a].job = j
        /\ article[a].generation = job[j].generation
        /\ AdoptedGeneration(j) = article[a].generation + 1
    BY <1>4 DEF LeaseHeld, SameGeneration, AdoptedGeneration
  <2>3. /\ done.status = "completed" /\ done.article = job[j].article
        /\ done.generation = job[j].generation /\ done.key = job[j].key
    BY <1>1 DEF Released, JobRow
  <2>4. /\ moved.status = job[o].status /\ moved.article = job[o].article
        /\ moved.key = job[o].key /\ moved.generation = AdoptedGeneration(j)
    BY <2>1 DEF JobRow
  <2>5. job' = IF adopted THEN [inspected EXCEPT ![o] = moved] ELSE inspected
    BY <1>1, <1>4, <2>1 DEF Reuse, TypeInv, TypeOK
  <2>6. article' = [article EXCEPT ![a] = arow]
    BY <1>1, <1>4 DEF Reuse, TypeInv, TypeOK
  <2>7. arow.job = target /\ arow.generation = generation
    BY <1>1 DEF ArticleRow
  <2>8. adopted => job[o].status = "needs_review" /\ target = o
    BY DEF Adopts
  <2>9. target \in {j, o}
    BY <2>2
  <2>10. job[j].article = a
    OBVIOUS
  <2>11. generation = IF adopted THEN article[a].generation + 1 ELSE article[a].generation
    BY <2>2
  <2> HIDE DEF done, moved, adopted, target, generation, arow, k, s, a, j
  <2>12. /\ job'[j] = done
         /\ job'[o] = IF adopted THEN moved ELSE job[o]
         /\ \A i \in Jobs \ {j, o} : job'[i] = job[i]
    BY <1>1, <2>1, <2>5 DEF TypeInv, TypeOK
  <2>13. article'[a] = arow /\ \A b \in Articles \ {a} : article'[b] = article[b]
    BY <1>1, <2>6 DEF TypeInv, TypeOK
  <2>14. k # None
    BY <1>1
  <2>15. CASE adopted
    BY <1>1, <2>1, <2>2, <2>3, <2>4, <2>7, <2>8, <2>10, <2>11, <2>12, <2>13, <2>14, <2>15
    DEF Reused
  <2>16. CASE ~adopted
    BY <1>1, <2>1, <2>2, <2>3, <2>7, <2>9, <2>10, <2>11, <2>12, <2>13, <2>14, <2>16 DEF Reused
  <2> QED BY <2>1, <2>15, <2>16
<1> QED BY <1>1, <1>2, <1>3, <1>4 DEF CommitSource

LEMMA SteadyDecide ==
    ASSUME TypeInv, NEW r \in Reviewers, NEW j \in Jobs, Decide(r, j)
    PROVE  Steady
<1>1. UNCHANGED article
  BY DEF Decide, Export, Approve, Reject, Correct, CorrectFailed, UntouchedByReviews
<1>2. job[j] \in JobRow
  BY DEF TypeInv, TypeOK
<1>3. ASSUME NEW row \in {WaitAgain(job[j]), [WaitAgain(job[j]) EXCEPT !.rewriteError = "none"]},
             job' = [job EXCEPT ![j] = row], job[j].status # "absent"
      PROVE  Steady
  <2>1. WaitAgain(job[j]) \in JobRow
    BY <1>2, WaitAgainType
  <2>2. [WaitAgain(job[j]) EXCEPT !.rewriteError = "none"] \in JobRow
    BY <2>1, JobColumns DEF RewriteError
  <2>3. Continues(job[j], WaitAgain(job[j])) /\ WaitAgain(job[j]).status = "needs_review"
    BY <1>2, <1>3 DEF WaitAgain, Released, Continues, JobRow
  <2>4. Continues(job[j], row) /\ row.status = "needs_review" /\ row \in JobRow
    BY <1>3, <2>1, <2>2, <2>3 DEF Continues, JobRow
  <2> QED BY <1>1, <1>3, <2>4, SteadyRow
<1>4. CASE Export(r, j)
  BY <1>1, <1>4, SteadyUnchanged DEF Export
<1>5. CASE Approve(r, j)
  <2> DEFINE row == [job[j] EXCEPT !.status = "pending", !.phase = "publishing",
                                   !.error = "none", !.review = "approved"]
  <2>1. job' = [job EXCEPT ![j] = row] /\ Current(j) /\ job[j].status = "needs_review"
    BY <1>5 DEF Approve, Reviewable, DraftCurrent, Waiting, TypeInv, TypeOK
  <2>2. row \in JobRow
    BY <1>2, JobColumns DEF Status, Phase, ErrorCode, RewriteError
  <2>3. Continues(job[j], row)
    BY <1>2, <2>1 DEF Continues, JobRow
  <2> HIDE DEF row
  <2> QED BY <1>1, <2>1, <2>2, <2>3, SteadyRow
<1>6. CASE Reject(r, j) \/ Correct(r, j)
  <2>1. job' = [job EXCEPT ![j] = WaitAgain(job[j])] /\ job[j].status # "absent"
    BY <1>6 DEF Reject, Correct, Waiting, Resuming, TypeInv, TypeOK
  <2> QED BY <1>3, <2>1
<1>7. CASE CorrectFailed(r, j)
  <2>1. /\ job' = [job EXCEPT ![j] = [WaitAgain(job[j]) EXCEPT !.rewriteError = "none"]]
        /\ job[j].status # "absent"
    BY <1>7 DEF CorrectFailed, FailedDraft, TypeInv, TypeOK
  <2> QED BY <1>3, <2>1
<1> QED BY <1>4, <1>5, <1>6, <1>7 DEF Decide

LEMMA SteadyTick == ASSUME TypeInv, NEW j \in Jobs, LeaseTick(j) PROVE Steady
<1> DEFINE row == [job[j] EXCEPT !.lease = job[j].lease - 1]
<1>1. /\ job' = [job EXCEPT ![j] = row] /\ UNCHANGED article
      /\ job[j] \in JobRow /\ job[j].status = "processing" /\ job[j].lease > 0
  BY DEF LeaseTick, TypeInv, TypeOK
<1>2. row \in JobRow /\ Continues(job[j], row)
  <2>1. job[j].lease - 1 \in Nat
    BY <1>1 DEF JobRow
  <2>2. row \in JobRow
    BY <1>1, <2>1, JobColumns
  <2>3. Continues(job[j], row)
    BY <1>1 DEF Continues, JobRow
  <2> QED BY <2>2, <2>3
<1>3. Active(j)
  BY <1>1 DEF Active
<1> HIDE DEF row
<1> QED BY <1>1, <1>2, <1>3, SteadyRow

LEMMA NextKind == ASSUME TypeInv, [Next]_vars PROVE StepKind
<1>1. CASE UNCHANGED vars
  BY <1>1, SteadyUnchanged DEF vars, StepKind
<1>2. ASSUME NEW a \in Articles, Request(a) PROVE StepKind
  BY <1>2, CreatedByRequest DEF StepKind
<1>3. ASSUME NEW w \in Workers, Run(w) PROVE StepKind
  <2>1. CASE Normalize(w) \/ Preserve(w) \/ Park(w) \/ Validate(w)
    BY <2>1, SteadyDraftSteps DEF StepKind
  <2>2. CASE Result(w) \/ Publish(w) \/ Fail(w)
    BY <2>2, SteadyEndSteps DEF StepKind
  <2>3. CASE CommitSource(w)
    BY <2>3, CommitSourceKind DEF StepKind
  <2>4. CASE \/ Begin(w) \/ Capture(w) \/ Load(w) \/ Prepare(w) \/ Dispatch(w)
             \/ Model(w) \/ Reload(w) \/ Record(w)
    BY <2>4, SteadyUnchanged
    DEF StepKind, Begin, Capture, Load, Prepare, Dispatch, Model, Reload, Record, RowsKept
  <2> QED BY <1>3, <2>1, <2>2, <2>3, <2>4 DEF Run
<1>4. ASSUME NEW w \in Workers, Claim(w) \/ Heartbeat(w) \/ Crash(w) PROVE StepKind
  BY <1>4, SteadyClaim, SteadyEndSteps, SteadyUnchanged DEF StepKind, Crash, GiveUp, RowsKept
<1>5. ASSUME NEW j \in Jobs, LeaseTick(j) PROVE StepKind
  BY <1>5, SteadyTick DEF StepKind
<1>6. ASSUME NEW r \in Reviewers, NEW j \in Jobs, Decide(r, j) PROVE StepKind
  BY <1>6, SteadyDecide DEF StepKind
<1> QED BY <1>1, <1>2, <1>3, <1>4, <1>5, <1>6 DEF Next

(***************************************************************************)
(* One active job per article.                                             *)
(***************************************************************************)
LEMMA OneActiveStep == ASSUME TypeInv, ActiveIsCurrent, StepKind PROVE ActiveIsCurrent'
<1> SUFFICES ASSUME NEW i \in Jobs, Active(i)'
             PROVE  /\ article'[job'[i].article].job = i
                    /\ article'[job'[i].article].generation = job'[i].generation
  BY DEF ActiveIsCurrent
<1>0. job[i].article \in Articles
  BY DEF TypeInv, TypeOK, JobRow
<1>1. CASE Steady
  BY <1>0, <1>1 DEF Steady, ActiveIsCurrent, Current
<1>2. ASSUME NEW a \in Articles, NEW j \in Jobs, Created(a, j)
      PROVE  /\ article'[job'[i].article].job = i
             /\ article'[job'[i].article].generation = job'[i].generation
  <2>1. CASE i = j
    BY <1>2, <2>1 DEF Created
  <2>2. CASE i # j
    <3>1. job'[i] = job[i] /\ Active(i)
      BY <1>2, <2>2 DEF Created, Active
    <3>2. article[job[i].article].job = i
      BY <3>1 DEF ActiveIsCurrent
    <3>3. job[i].article # a
      BY <1>2, <3>1, <3>2 DEF Created, NoActiveCurrentJob, NoActiveJobOf
    <3> QED BY <1>0, <1>2, <3>1, <3>3 DEF Created, ActiveIsCurrent
  <2> QED BY <2>1, <2>2
<1>3. ASSUME NEW a \in Articles, NEW j \in Jobs, NEW o \in Jobs, Reused(a, j, o)
      PROVE  /\ article'[job'[i].article].job = i
             /\ article'[job'[i].article].generation = job'[i].generation
  <2>1. i # j
    BY <1>3 DEF Reused, Active
  <2>2. Active(i) /\ job'[i].article = job[i].article
    BY <1>3, <2>1 DEF Reused, Active
  <2>3. article[job[i].article].job = i /\ article[job[i].article].generation = job[i].generation
    BY <2>2 DEF ActiveIsCurrent
  <2>4. job[i].article # a
    BY <1>3, <2>1, <2>3 DEF Reused
  <2>5. job'[i].generation = job[i].generation
    BY <1>3, <2>1, <2>2 DEF Reused, Active
  <2> QED BY <1>0, <1>3, <2>2, <2>3, <2>4, <2>5 DEF Reused
<1> QED BY <1>1, <1>2, <1>3 DEF StepKind

LEMMA InitActive == Init => ActiveIsCurrent
BY DEF Init, ActiveIsCurrent, Active, AbsentJob

\* At most one job of an article is active, the one the article asks for: for any number
\* of articles, jobs, workers and reviewers.
THEOREM OneActiveJob == Spec => []ActiveIsCurrent
<1> DEFINE Inv == TypeInv /\ ActiveIsCurrent
<1>1. Init => Inv
  BY InitType, InitActive
<1>2. Inv /\ [Next]_vars => Inv'
  BY NextType, NextKind, OneActiveStep
<1>3. Inv => ActiveIsCurrent
  OBVIOUS
<1> QED BY <1>1, <1>2, <1>3, PTL DEF Spec

(***************************************************************************)
(* Generations.  The strengthening: a job owns a transformation of its own *)
(* article, and an article that asks for no job never had one.             *)
(***************************************************************************)
OwnsItsArticle == \A i \in Jobs : job[i].key # None => job[i].key.article = job[i].article

UnaskedIsEmpty ==
    \A i \in Jobs : job[i].status # "absent" => article[job[i].article].job # None

GenerationInv == GenerationsDistinct /\ OwnsItsArticle /\ UnaskedIsEmpty

LEMMA GenerationTypes ==
    ASSUME TypeInv
    PROVE  /\ \A a \in Articles : article[a].generation \in Nat
           /\ \A i \in Jobs : job[i].generation \in Nat /\ job[i].article \in Articles
BY DEF TypeInv, TypeOK, ArticleRow, JobRow

LEMMA SteadyGenerations == ASSUME TypeInv, GenerationInv, Steady PROVE GenerationInv'
<1> USE GenerationTypes
<1>1. OwnsItsArticle'
  BY DEF GenerationInv, OwnsItsArticle, Steady
<1>2. UnaskedIsEmpty'
  BY DEF GenerationInv, UnaskedIsEmpty, Steady
<1>3. GenerationsDistinct'
  BY DEF GenerationInv, GenerationsDistinct, Steady
<1> QED BY <1>1, <1>2, <1>3 DEF GenerationInv

LEMMA CreatedGenerations ==
    ASSUME TypeInv, GenerationInv, NEW a \in Articles, NEW j \in Jobs, Created(a, j)
    PROVE  GenerationInv'
<1>0. /\ \A i \in Jobs \ {j} : job'[i] = job[i]
      /\ \A b \in Articles \ {a} : article'[b] = article[b]
      /\ job'[j].article = a /\ article'[a].job = j /\ job'[j].key = None
      /\ article'[a].generation = job'[j].generation
  BY DEF Created
<1>1. OwnsItsArticle'
  BY <1>0 DEF GenerationInv, OwnsItsArticle
<1>2. UnaskedIsEmpty'
  BY <1>0, GenerationTypes DEF GenerationInv, UnaskedIsEmpty
<1>3. ASSUME NEW i \in Jobs \ {j}, job[i].status # "absent", job[i].article = a
      PROVE  job[i].generation < job'[j].generation
  <2>1. job[i].generation <= article[a].generation /\ article[a].job # None
    BY <1>3 DEF GenerationInv, GenerationsDistinct, UnaskedIsEmpty
  <2> QED BY <2>1, GenerationTypes DEF Created
<1>4. job'[j].generation \in Nat
  BY GenerationTypes DEF Created
<1>5. GenerationsDistinct'
  <2> SUFFICES ASSUME NEW x \in Jobs, NEW y \in Jobs,
                      job'[x].status # "absent", job'[y].status # "absent",
                      job'[x].article = job'[y].article
               PROVE  /\ job'[x].generation <= article'[job'[x].article].generation
                      /\ x # y => job'[x].generation # job'[y].generation
    BY DEF GenerationsDistinct
  <2>1. CASE x = j
    BY <1>0, <1>3, <1>4, <2>1, GenerationTypes
  <2>2. CASE x # j /\ y = j
    BY <1>0, <1>3, <1>4, <2>2, GenerationTypes
  <2>3. CASE x # j /\ y # j
    <3>1. job'[x] = job[x] /\ job'[y] = job[y]
      BY <1>0, <2>3
    <3>2. /\ job[x].generation <= article[job[x].article].generation
          /\ x # y => job[x].generation # job[y].generation
      BY <3>1 DEF GenerationInv, GenerationsDistinct
    <3>3. CASE job[x].article # a
      BY <1>0, <3>1, <3>2, <3>3, GenerationTypes
    <3>4. CASE job[x].article = a
      BY <1>0, <1>3, <1>4, <2>3, <3>1, <3>2, <3>4, GenerationTypes
    <3> QED BY <3>3, <3>4
  <2> QED BY <2>1, <2>2, <2>3
<1> QED BY <1>1, <1>2, <1>5 DEF GenerationInv

LEMMA ReusedGenerations ==
    ASSUME TypeInv, GenerationInv, NEW a \in Articles, NEW j \in Jobs, NEW o \in Jobs,
           Reused(a, j, o)
    PROVE  GenerationInv'
<1>1. /\ \A i \in Jobs : job'[i].article = job[i].article /\ job'[i].key = job[i].key
      /\ \A i \in Jobs : (job'[i].status = "absent") = (job[i].status = "absent")
      /\ \A i \in Jobs \ {o} : job'[i].generation = job[i].generation
  BY DEF Reused
<1>2. job[o].article = a
  BY DEF Reused, GenerationInv, OwnsItsArticle
<1>3. OwnsItsArticle'
  BY <1>1 DEF GenerationInv, OwnsItsArticle
<1>4. UnaskedIsEmpty'
  BY <1>1, GenerationTypes DEF Reused, GenerationInv, UnaskedIsEmpty
<1>5. CASE article'[a].generation = article[a].generation /\ job'[o].generation = job[o].generation
  <2>1. \A b \in Articles : article'[b].generation = article[b].generation
    BY <1>5 DEF Reused
  <2>2. \A i \in Jobs : job'[i].generation = job[i].generation
    BY <1>1, <1>5
  <2>3. GenerationsDistinct'
    BY <1>1, <2>1, <2>2, GenerationTypes DEF GenerationInv, GenerationsDistinct
  <2> QED BY <1>3, <1>4, <2>3 DEF GenerationInv
<1>6. CASE /\ article'[a].generation = article[a].generation + 1
           /\ job'[o].generation = article'[a].generation
  <2>1. ASSUME NEW i \in Jobs \ {o}, job[i].status # "absent", job[i].article = a
        PROVE  job[i].generation < job'[o].generation
    <3>1. job[i].generation <= article[a].generation
      BY <2>1 DEF GenerationInv, GenerationsDistinct
    <3> QED BY <1>6, <3>1, GenerationTypes
  <2>2. \A b \in Articles \ {a} : article'[b] = article[b]
    BY DEF Reused
  <2>3. GenerationsDistinct'
    <3> SUFFICES ASSUME NEW x \in Jobs, NEW y \in Jobs,
                        job'[x].status # "absent", job'[y].status # "absent",
                        job'[x].article = job'[y].article
                 PROVE  /\ job'[x].generation <= article'[job'[x].article].generation
                        /\ x # y => job'[x].generation # job'[y].generation
      BY DEF GenerationsDistinct
    <3>1. CASE x = o
      BY <1>1, <1>2, <1>6, <2>1, <3>1, GenerationTypes
    <3>2. CASE x # o /\ y = o
      BY <1>1, <1>2, <1>6, <2>1, <3>2, GenerationTypes
    <3>3. CASE x # o /\ y # o
      <4>1. /\ job[x].generation <= article[job[x].article].generation
            /\ x # y => job[x].generation # job[y].generation
        BY <1>1 DEF GenerationInv, GenerationsDistinct
      <4>2. article[job[x].article].generation <= article'[job[x].article].generation
        BY <1>6, <2>2, GenerationTypes
      <4>3. article'[job[x].article].generation \in Nat
        BY <1>6, <2>2, GenerationTypes
      <4> QED BY <1>1, <3>3, <4>1, <4>2, <4>3, GenerationTypes
    <3> QED BY <3>1, <3>2, <3>3
  <2> QED BY <1>3, <1>4, <2>3 DEF GenerationInv
<1> QED BY <1>5, <1>6 DEF Reused

\* No two jobs of an article share a generation and none is ahead of the article, however
\* many refreshes, corrections and adoptions happen.
THEOREM DistinctGenerations == Spec => []GenerationsDistinct
<1> DEFINE Inv == TypeInv /\ GenerationInv
<1>1. Init => Inv
  <2>1. Init => GenerationInv
    BY DEF Init, GenerationInv, GenerationsDistinct, OwnsItsArticle, UnaskedIsEmpty, AbsentJob
  <2> QED BY <2>1, InitType
<1>2. Inv /\ [Next]_vars => Inv'
  BY NextType, NextKind, SteadyGenerations, CreatedGenerations, ReusedGenerations DEF StepKind
<1>3. Inv => GenerationsDistinct
  BY DEF GenerationInv
<1> QED BY <1>1, <1>2, <1>3, PTL DEF Spec
=============================================================================
