-------------------------- MODULE ArticleTypes_proofs --------------------------
(***************************************************************************)
(* Type correctness of the article lifecycle, for any number of articles,  *)
(* jobs, workers and reviewers, and any bounds.                            *)
(***************************************************************************)
EXTENDS ArticleLifecycle, TLAPS

USE ConstantsAssumption, NoneAssumption

(***************************************************************************)
(* What a worker holds besides its type: past its poll it names a job, and *)
(* before it stores a source it has fetched one.                           *)
(***************************************************************************)
BusyRow == {row \in WorkerRow :
                /\ row.pc # "idle" => row.job \in Jobs
                /\ row.pc = "commit" => row.fetched \in Source}

TypeInv == TypeOK /\ worker \in [Workers -> BusyRow]

(***************************************************************************)
(* A row stays a row when one of its columns takes a value of its type.    *)
(***************************************************************************)
LEMMA JobColumns ==
    ASSUME NEW row \in JobRow
    PROVE  /\ \A v \in Nat : /\ [row EXCEPT !.generation = v] \in JobRow
                             /\ [row EXCEPT !.retry = v] \in JobRow
                             /\ [row EXCEPT !.token = v] \in JobRow
                             /\ [row EXCEPT !.lease = v] \in JobRow
           /\ \A v \in Profiles : [row EXCEPT !.profile = v] \in JobRow
           /\ \A v \in Status : [row EXCEPT !.status = v] \in JobRow
           /\ \A v \in Phase : [row EXCEPT !.phase = v] \in JobRow
           /\ \A v \in Workers \cup {None} : [row EXCEPT !.owner = v] \in JobRow
           /\ \A v \in ErrorCode : [row EXCEPT !.error = v] \in JobRow
           /\ \A v \in Source \cup {None} : [row EXCEPT !.source = v] \in JobRow
           /\ \A v \in Key \cup {None} : [row EXCEPT !.key = v] \in JobRow
           /\ \A v \in BOOLEAN : [row EXCEPT !.normalized = v] \in JobRow
           /\ \A v \in RewriteError : [row EXCEPT !.rewriteError = v] \in JobRow
           /\ \A v \in {"none", "awaiting_review", "approved"} :
                [row EXCEPT !.review = v] \in JobRow
BY DEF JobRow

LEMMA ArticleColumns ==
    ASSUME NEW row \in ArticleRow
    PROVE  /\ \A v \in Nat : [row EXCEPT !.generation = v] \in ArticleRow
           /\ \A v \in Profiles : [row EXCEPT !.profile = v] \in ArticleRow
           /\ \A v \in Jobs \cup {None} : [row EXCEPT !.job = v] \in ArticleRow
           /\ \A v \in Source \cup {None} : [row EXCEPT !.source = v] \in ArticleRow
           /\ \A v \in Key \cup {None} : [row EXCEPT !.canonical = v] \in ArticleRow
BY DEF ArticleRow

LEMMA WorkerColumns ==
    ASSUME NEW row \in WorkerRow
    PROVE  /\ \A v \in Pc : [row EXCEPT !.pc = v] \in WorkerRow
           /\ \A v \in Jobs \cup {None} : [row EXCEPT !.job = v] \in WorkerRow
           /\ \A v \in Nat : [row EXCEPT !.token = v] \in WorkerRow
           /\ \A v \in BOOLEAN : [row EXCEPT !.ready = v] \in WorkerRow
           /\ \A v \in Source \cup {None} : [row EXCEPT !.fetched = v] \in WorkerRow
           /\ \A v \in {"none", "sound", "mutation", "invalid"} :
                [row EXCEPT !.answer = v] \in WorkerRow
           /\ \A v \in Failure : [row EXCEPT !.failure = v] \in WorkerRow
BY DEF WorkerRow

(***************************************************************************)
(* The helpers that build or store a row.                                  *)
(***************************************************************************)
LEMMA JobRowStored ==
    ASSUME TypeInv, NEW j, NEW row \in JobRow, job' = [job EXCEPT ![j] = row]
    PROVE  job' \in [Jobs -> JobRow]
BY DEF TypeInv, TypeOK

LEMMA ArticleRowStored ==
    ASSUME TypeInv, NEW a \in Articles, NEW row \in ArticleRow,
           article' = [article EXCEPT ![a] = row]
    PROVE  article' \in [Articles -> ArticleRow]
BY DEF TypeInv, TypeOK

LEMMA WorkerRowStored ==
    ASSUME TypeInv, NEW w \in Workers, NEW row \in BusyRow,
           worker' = [worker EXCEPT ![w] = row]
    PROVE  worker' \in [Workers -> BusyRow]
BY DEF TypeInv

LEMMA IdleType == IdleWorker \in WorkerRow /\ IdleWorker \in BusyRow
BY DEF IdleWorker, BusyRow, WorkerRow, Pc, Failure

LEMMA LeaveType ==
    ASSUME TypeInv, NEW w \in Workers, Leave(w)
    PROVE  worker' \in [Workers -> BusyRow]
BY IdleType, WorkerRowStored DEF Leave

LEMMA GotoType ==
    ASSUME TypeInv, NEW w \in Workers, worker[w].pc # "idle",
           NEW pc \in Pc \ {"commit"}, Goto(w, pc)
    PROVE  worker' \in [Workers -> BusyRow]
<1>1. worker[w] \in BusyRow /\ worker[w] \in WorkerRow
  BY DEF TypeInv, TypeOK
<1> DEFINE row == [worker[w] EXCEPT !.pc = pc]
<1>2. row \in WorkerRow
  BY <1>1, WorkerColumns
<1>3. row \in BusyRow
  BY <1>1, <1>2 DEF BusyRow, WorkerRow
<1> QED BY <1>3, WorkerRowStored DEF Goto

LEMMA FailWithType ==
    ASSUME TypeInv, NEW w \in Workers, worker[w].pc # "idle",
           NEW pc \in {"record", "fail"}, NEW f \in Failure, FailWith(w, pc, f)
    PROVE  worker' \in [Workers -> BusyRow]
<1>1. worker[w] \in BusyRow /\ worker[w] \in WorkerRow
  BY DEF TypeInv, TypeOK
<1> DEFINE row == [worker[w] EXCEPT !.pc = pc, !.failure = f]
<1>2. row \in WorkerRow
  BY <1>1, WorkerColumns DEF Pc
<1>3. row.pc = pc /\ row.job = worker[w].job
  BY <1>1 DEF WorkerRow
<1>4. row \in BusyRow
  BY <1>1, <1>2, <1>3 DEF BusyRow
<1> QED BY <1>4, WorkerRowStored DEF FailWith

LEMMA PollType ==
    ASSUME TypeInv, NEW w \in Workers, NEW j \in Jobs, NEW ready \in BOOLEAN, Poll(w, j, ready)
    PROVE  worker' \in [Workers -> BusyRow]
<1>1. job[j].token + 1 \in Nat /\ "begin" \in Pc
  BY DEF TypeInv, TypeOK, JobRow, Pc
<1> DEFINE row == [IdleWorker EXCEPT !.pc = "begin", !.job = j,
                                     !.token = job[j].token + 1, !.ready = ready]
<1>2. row \in WorkerRow
  BY <1>1, IdleType, WorkerColumns
<1>3. row.pc = "begin" /\ row.job = j
  BY DEF IdleWorker
<1>4. row \in BusyRow
  BY <1>2, <1>3 DEF BusyRow
<1> QED BY <1>4, WorkerRowStored DEF Poll

LEMMA ReleasedType == ASSUME NEW row \in JobRow PROVE Released(row) \in JobRow
BY JobColumns DEF Released

LEMMA ClaimedType ==
    ASSUME NEW row \in JobRow, NEW w \in Workers
    PROVE  ClaimedBy(w, row) \in JobRow
<1>1. row.token + 1 \in Nat /\ "processing" \in Status
  BY DEF JobRow, Status
<1>2. [row EXCEPT !.status = "processing", !.token = @ + 1,
                  !.owner = w, !.lease = LeaseTerm] \in JobRow
  BY <1>1, JobColumns
<1> QED BY <1>2 DEF ClaimedBy

LEMMA AmbiguousType ==
    ASSUME TypeInv, NEW j
    PROVE  WithAmbiguous(j) \in SUBSET Attempt
BY DEF TypeInv, TypeOK, WithAmbiguous, Attempt

(***************************************************************************)
(* Requests.                                                               *)
(***************************************************************************)
LEMMA FreshJobType == ASSUME TypeInv, NEW a \in Articles PROVE FreshJob(a) \in JobRow
<1>1. article[a] \in ArticleRow
  BY DEF TypeInv, TypeOK
<1>2. AbsentJob(a, article[a].profile) \in JobRow
  BY <1>1 DEF AbsentJob, ArticleRow, JobRow, Status, Phase, ErrorCode, RewriteError
<1>3. [AbsentJob(a, article[a].profile) EXCEPT
          !.generation = article[a].generation, !.status = "pending"] \in JobRow
  BY <1>1, <1>2, JobColumns DEF ArticleRow, Status
<1> QED BY <1>3 DEF FreshJob

LEMMA RequestType == ASSUME TypeInv, NEW a \in Articles, Request(a) PROVE TypeInv'
<1>0. /\ FreshJob(a) \in JobRow
      /\ article[a] \in ArticleRow
      /\ article[a].generation + 1 \in Nat
  BY FreshJobType DEF TypeInv, TypeOK, ArticleRow
<1>1. CASE EnsureJob(a)
  <2>1. PICK j \in Jobs : /\ job' = [job EXCEPT ![j] = FreshJob(a)]
                          /\ article' = [article EXCEPT ![a] = [article[a] EXCEPT !.job = j]]
    BY <1>1 DEF EnsureJob, TypeInv, TypeOK
  <2>2. job' \in [Jobs -> JobRow]
    BY <1>0, <2>1, JobRowStored
  <2>3. [article[a] EXCEPT !.job = j] \in ArticleRow
    BY <1>0, ArticleColumns
  <2>4. article' \in [Articles -> ArticleRow]
    BY <2>1, <2>3, ArticleRowStored
  <2> QED BY <1>1, <2>2, <2>4 DEF TypeInv, TypeOK, EnsureJob, UntouchedByRequests
<1>2. ASSUME NEW p \in Profiles, RefreshJob(a, p) PROVE TypeInv'
  <2> DEFINE row == [FreshJob(a) EXCEPT !.generation = article[a].generation + 1, !.profile = p]
             arow(j) == [article[a] EXCEPT !.job = j, !.profile = p,
                                           !.generation = article[a].generation + 1]
  <2>1. PICK j \in Jobs : /\ job' = [job EXCEPT ![j] = row]
                          /\ article' = [article EXCEPT ![a] = arow(j)]
    BY <1>2 DEF RefreshJob, TypeInv, TypeOK
  <2>2. row \in JobRow
    BY <1>0, JobColumns
  <2>3. job' \in [Jobs -> JobRow]
    BY <2>1, <2>2, JobRowStored
  <2>4. arow(j) \in ArticleRow
    BY <1>0, ArticleColumns
  <2>5. article' \in [Articles -> ArticleRow]
    BY <2>1, <2>4, ArticleRowStored
  <2> QED BY <1>2, <2>3, <2>5 DEF TypeInv, TypeOK, RefreshJob, UntouchedByRequests
<1>3. CASE Reproject(a)
  <2> DEFINE corrected == [article[a].source EXCEPT !.projection = 2]
             row == [FreshJob(a) EXCEPT
                       !.generation = article[a].generation + 1,
                       !.status = "needs_review", !.phase = "completed",
                       !.error = "SOURCE_ONLY_REPROJECTION",
                       !.retry = 1, !.token = 1, !.source = corrected]
             arow(j) == [article[a] EXCEPT !.job = j, !.generation = article[a].generation + 1,
                                           !.source = corrected, !.canonical = None]
  <2>1. PICK j \in Jobs : /\ job' = [job EXCEPT ![j] = row]
                          /\ article' = [article EXCEPT ![a] = arow(j)]
    BY <1>3 DEF Reproject, TypeInv, TypeOK
  <2>2. corrected \in Source
    BY <1>0, <1>3 DEF Reproject, ArticleRow, Source
  <2>3. "needs_review" \in Status /\ "completed" \in Phase /\ "SOURCE_ONLY_REPROJECTION" \in ErrorCode
    BY DEF Status, Phase, ErrorCode
  <2> DEFINE refused == [FreshJob(a) EXCEPT !.generation = article[a].generation + 1,
                             !.status = "needs_review", !.phase = "completed",
                             !.error = "SOURCE_ONLY_REPROJECTION"]
  <2>4a. refused \in JobRow
    BY <1>0, <2>3, JobColumns
  <2>4b. [refused EXCEPT !.retry = 1, !.token = 1, !.source = corrected] \in JobRow
    <3> HIDE DEF refused
    <3> QED BY <2>2, <2>4a, JobColumns
  <2>4. row \in JobRow
    BY <2>4b
  <2>5. job' \in [Jobs -> JobRow]
    BY <2>1, <2>4, JobRowStored
  <2>6. arow(j) \in ArticleRow
    BY <1>0, <2>2, ArticleColumns
  <2>7. article' \in [Articles -> ArticleRow]
    BY <2>1, <2>6, ArticleRowStored
  <2> QED BY <1>3, <2>5, <2>7 DEF TypeInv, TypeOK, Reproject, UntouchedByRequests
<1> QED BY <1>1, <1>2, <1>3 DEF Request

(***************************************************************************)
(* Claims.                                                                 *)
(***************************************************************************)
LEMMA ClaimedRowType ==
    ASSUME TypeInv, NEW w \in Workers, NEW j \in Jobs
    PROVE  /\ ClaimedBy(w, job[j]) \in JobRow
           /\ Released(job[j]) \in JobRow
           /\ job[j].retry + 1 \in Nat
BY ClaimedType, ReleasedType DEF TypeInv, TypeOK, JobRow

LEMMA ResumeType ==
    ASSUME TypeInv, NEW w \in Workers, NEW j \in Jobs, NEW ready \in BOOLEAN
    PROVE  /\ ClaimAutomatic(w, j, ready) => TypeInv'
           /\ ClaimReview(w, j, ready) => TypeInv'
           /\ ClaimConfiguration(w, j) => TypeInv'
           /\ PassResume(w, j, ready) => TypeInv'
<1> DEFINE claimed(p) == [ClaimedBy(w, job[j]) EXCEPT !.phase = p, !.error = "none"]
           dead == [Released(job[j]) EXCEPT !.status = "dead_letter",
                                            !.error = "AUTOMATIC_CANDIDATE_INVALID"]
           waiting == [Released(job[j]) EXCEPT !.status = "needs_review",
                          !.error = "CONTENT_REVIEW_REQUIRED", !.review = "awaiting_review"]
<1>1. ASSUME NEW p \in Phase PROVE claimed(p) \in JobRow
  BY ClaimedRowType, JobColumns DEF ErrorCode, RewriteError
<1>2. dead \in JobRow
  BY ClaimedRowType, JobColumns DEF ErrorCode, Status
<1>3. waiting \in JobRow
  BY ClaimedRowType, JobColumns DEF ErrorCode, Status
<1>4. "validating" \in Phase /\ "publishing" \in Phase /\ "rewriting" \in Phase
  BY DEF Phase
<1>5. ASSUME ClaimAutomatic(w, j, ready) PROVE TypeInv'
  <2>1. \/ job' = [job EXCEPT ![j] = claimed("validating")] /\ Poll(w, j, ready)
        \/ job' = [job EXCEPT ![j] = dead] /\ UNCHANGED worker
    BY <1>5 DEF ClaimAutomatic, TypeInv, TypeOK
  <2>2. job' \in [Jobs -> JobRow]
    BY <1>1, <1>2, <1>4, <2>1, JobRowStored
  <2>3. worker' \in [Workers -> BusyRow]
    BY <2>1, PollType DEF TypeInv
  <2> QED BY <1>5, <2>2, <2>3 DEF TypeInv, TypeOK, BusyRow, ClaimAutomatic, UntouchedByClaims
<1>6. ASSUME ClaimReview(w, j, ready) PROVE TypeInv'
  <2>1. \/ job' = [job EXCEPT ![j] = claimed("publishing")] /\ Poll(w, j, ready)
        \/ job' = [job EXCEPT ![j] = waiting] /\ UNCHANGED worker
    BY <1>6 DEF ClaimReview, TypeInv, TypeOK
  <2>2. job' \in [Jobs -> JobRow]
    BY <1>1, <1>3, <1>4, <2>1, JobRowStored
  <2>3. worker' \in [Workers -> BusyRow]
    BY <2>1, PollType DEF TypeInv
  <2> QED BY <1>6, <2>2, <2>3 DEF TypeInv, TypeOK, BusyRow, ClaimReview, UntouchedByClaims
<1>7. ASSUME ClaimConfiguration(w, j) PROVE TypeInv'
  <2>1. job' = [job EXCEPT ![j] = claimed("rewriting")] /\ Poll(w, j, TRUE)
    BY <1>7 DEF ClaimConfiguration, TypeInv, TypeOK
  <2>2. job' \in [Jobs -> JobRow]
    BY <1>1, <1>4, <2>1, JobRowStored
  <2>3. worker' \in [Workers -> BusyRow]
    BY <2>1, PollType
  <2> QED BY <1>7, <2>2, <2>3 DEF TypeInv, TypeOK, BusyRow, ClaimConfiguration, UntouchedByClaims
<1>8. ASSUME PassResume(w, j, ready) PROVE TypeInv'
  <2> DEFINE row == [IdleWorker EXCEPT !.pc = "sweep", !.job = j, !.ready = ready]
  <2>1. worker' = [worker EXCEPT ![w] = row]
    BY <1>8 DEF PassResume
  <2>2. row \in WorkerRow
    BY IdleType, WorkerColumns DEF Pc
  <2>3. row.pc = "sweep" /\ row.job = j
    BY DEF IdleWorker
  <2>4. row \in BusyRow
    BY <2>2, <2>3 DEF BusyRow
  <2>5. worker' \in [Workers -> BusyRow]
    BY <2>1, <2>4, WorkerRowStored
  <2> QED BY <1>8, <2>5 DEF TypeInv, TypeOK, BusyRow, PassResume, UntouchedByClaims
<1> QED BY <1>5, <1>6, <1>7, <1>8

LEMMA SweepType ==
    ASSUME TypeInv, NEW w \in Workers
    PROVE  /\ SweepExhausted(w) => TypeInv'
           /\ ClaimGeneric(w) => TypeInv'
           /\ NothingToClaim(w) => TypeInv'
<1> DEFINE j == worker[w].job
<1>0. ASSUME worker[w].pc = "sweep"
      PROVE  j \in Jobs /\ job[j] \in JobRow /\ worker[w].ready \in BOOLEAN
  BY <1>0 DEF TypeInv, TypeOK, BusyRow, WorkerRow
<1>1. ASSUME SweepExhausted(w) PROVE TypeInv'
  <2>1. j \in Jobs
    BY <1>0, <1>1 DEF SweepExhausted
  <2> DEFINE dead == [Released(job[j]) EXCEPT !.status = "dead_letter",
                                              !.error = "LEASE_ATTEMPTS_EXHAUSTED"]
  <2>2. job' = [job EXCEPT ![j] = dead] /\ Leave(w) /\ attempts' = WithAmbiguous(j)
    BY <1>1, <2>1 DEF SweepExhausted, TypeInv, TypeOK
  <2>3. dead \in JobRow
    BY <2>1, ClaimedRowType, JobColumns DEF ErrorCode, Status
  <2>4. job' \in [Jobs -> JobRow]
    BY <2>2, <2>3, JobRowStored
  <2>5. worker' \in [Workers -> BusyRow]
    BY <2>2, LeaveType
  <2>6. attempts' \in SUBSET Attempt
    BY <2>2, AmbiguousType
  <2> QED BY <1>1, <2>4, <2>5, <2>6
          DEF TypeInv, TypeOK, BusyRow, SweepExhausted, UntouchedByClaims
<1>2. ASSUME ClaimGeneric(w) PROVE TypeInv'
  <2>1. j \in Jobs /\ job[j] \in JobRow /\ worker[w].ready \in BOOLEAN
    BY <1>0, <1>2 DEF ClaimGeneric
  <2> DEFINE row == [ClaimedBy(w, job[j]) EXCEPT !.retry = NextAttempt(j), !.phase = NextPhase(j)]
  <2>2. job' = [job EXCEPT ![j] = row]
    BY <1>2, <2>1 DEF ClaimGeneric, TypeInv, TypeOK
  <2>3. NextAttempt(j) \in Nat /\ NextPhase(j) \in Phase
    BY <2>1 DEF NextAttempt, NextPhase, JobRow, Phase
  <2>4. row \in JobRow
    BY <2>1, <2>3, ClaimedRowType, JobColumns
  <2>5. job' \in [Jobs -> JobRow]
    BY <2>2, <2>4, JobRowStored
  <2>6. worker' \in [Workers -> BusyRow]
    BY <1>2, <2>1, PollType DEF ClaimGeneric
  <2>7. attempts' \in SUBSET Attempt
    BY <1>2, AmbiguousType DEF ClaimGeneric, TypeInv, TypeOK
  <2> QED BY <1>2, <2>5, <2>6, <2>7 DEF TypeInv, TypeOK, BusyRow, ClaimGeneric, UntouchedByClaims
<1>3. ASSUME NothingToClaim(w) PROVE TypeInv'
  <2>1. worker' \in [Workers -> BusyRow]
    BY <1>3, LeaveType DEF NothingToClaim
  <2> QED BY <1>3, <2>1 DEF TypeInv, TypeOK, BusyRow, NothingToClaim, UntouchedByClaims
<1> QED BY <1>1, <1>2, <1>3

LEMMA ClaimType == ASSUME TypeInv, NEW w \in Workers, Claim(w) PROVE TypeInv'
BY ResumeType, SweepType DEF Claim

(***************************************************************************)
(* A worker's steps.                                                       *)
(***************************************************************************)
LEMMA HeldType ==
    ASSUME TypeInv, NEW w \in Workers, worker[w].pc # "idle"
    PROVE  /\ worker[w].job \in Jobs
           /\ job[worker[w].job] \in JobRow
           /\ job[worker[w].job].article \in Articles
           /\ article[job[worker[w].job].article] \in ArticleRow
BY DEF TypeInv, TypeOK, BusyRow, JobRow

\* Steps that change the worker alone.
LEMMA WalkType ==
    ASSUME TypeInv, NEW w \in Workers
    PROVE  Begin(w) \/ Capture(w) \/ Load(w) \/ Model(w) \/ Reload(w) \/ Crash(w) => TypeInv'
<1>0. ASSUME worker' \in [Workers -> BusyRow], RowsKept PROVE TypeInv'
  BY <1>0 DEF TypeInv, TypeOK, BusyRow, RowsKept
<1>1. ASSUME Begin(w) PROVE worker' \in [Workers -> BusyRow] /\ RowsKept
  <2>1. worker[w].pc # "idle" /\ (Leave(w) \/ Goto(w, "capture") \/ Goto(w, "load")) /\ RowsKept
    BY <1>1 DEF Begin
  <2> QED BY <2>1, LeaveType, GotoType DEF Pc
<1>2. ASSUME Capture(w) PROVE worker' \in [Workers -> BusyRow] /\ RowsKept
  <2>0. worker[w].pc # "idle" /\ RowsKept
    BY <1>2 DEF Capture
  <2>1. CASE Leave(w)
    BY <2>0, <2>1, LeaveType
  <2>2. CASE \E s \in Source :
                worker' = [worker EXCEPT ![w] = [@ EXCEPT !.pc = "commit", !.fetched = s]]
    <3> PICK s \in Source :
                worker' = [worker EXCEPT ![w] = [worker[w] EXCEPT !.pc = "commit", !.fetched = s]]
      BY <2>2 DEF TypeInv, TypeOK
    <3> DEFINE row == [worker[w] EXCEPT !.pc = "commit", !.fetched = s]
    <3>1. worker[w] \in WorkerRow /\ worker[w] \in BusyRow
      BY DEF TypeInv, TypeOK
    <3>2. row \in WorkerRow
      BY <3>1, WorkerColumns DEF Pc
    <3>3. row.job = worker[w].job /\ row.fetched = s
      BY <3>1 DEF WorkerRow
    <3>4. row \in BusyRow
      BY <2>0, <3>1, <3>2, <3>3 DEF BusyRow
    <3> QED BY <2>0, <3>4, WorkerRowStored
  <2>3. CASE \E f \in {"source_retry", "source_refused"} : FailWith(w, "fail", f)
    BY <2>0, <2>3, FailWithType DEF Failure
  <2>4. CASE \E f \in {"refused", "transport"} : FailWith(w, "record", f)
    BY <2>0, <2>4, FailWithType DEF Failure
  <2> QED BY <1>2, <2>1, <2>2, <2>3, <2>4 DEF Capture
<1>3. ASSUME Load(w) PROVE worker' \in [Workers -> BusyRow] /\ RowsKept
  <2>1. worker[w].pc # "idle" /\ (Leave(w) \/ Goto(w, "reload") \/ Goto(w, "normalize")) /\ RowsKept
    BY <1>3 DEF Load
  <2> QED BY <2>1, LeaveType, GotoType DEF Pc
<1>4. ASSUME Model(w) PROVE worker' \in [Workers -> BusyRow] /\ RowsKept
  <2>0. worker[w].pc # "idle" /\ RowsKept
    BY <1>4 DEF Model
  <2>1. CASE \E x \in {"sound", "mutation", "invalid"} :
                worker' = [worker EXCEPT ![w] = [@ EXCEPT !.pc = "result", !.answer = x]]
    <3> PICK x \in {"sound", "mutation", "invalid"} :
                worker' = [worker EXCEPT ![w] = [worker[w] EXCEPT !.pc = "result", !.answer = x]]
      BY <2>1 DEF TypeInv, TypeOK
    <3> DEFINE row == [worker[w] EXCEPT !.pc = "result", !.answer = x]
    <3>1. worker[w] \in WorkerRow /\ worker[w] \in BusyRow
      BY DEF TypeInv, TypeOK
    <3>2. row \in WorkerRow
      BY <3>1, WorkerColumns DEF Pc
    <3>3. row.job = worker[w].job /\ row.pc = "result"
      BY <3>1 DEF WorkerRow
    <3>4. row \in BusyRow
      BY <2>0, <3>1, <3>2, <3>3 DEF BusyRow
    <3> QED BY <2>0, <3>4, WorkerRowStored
  <2>2. CASE \E f \in {"refused", "transport", "configuration"} : FailWith(w, "record", f)
    BY <2>0, <2>2, FailWithType DEF Failure
  <2> QED BY <1>4, <2>1, <2>2 DEF Model
<1>5. ASSUME Reload(w) PROVE worker' \in [Workers -> BusyRow] /\ RowsKept
  <2>1. /\ worker[w].pc # "idle" /\ RowsKept
        /\ Leave(w) \/ FailWith(w, "fail", "rewrite") \/ Goto(w, "validate")
    BY <1>5 DEF Reload
  <2> QED BY <2>1, LeaveType, GotoType, FailWithType DEF Pc, Failure
<1>6. ASSUME Crash(w) PROVE worker' \in [Workers -> BusyRow] /\ RowsKept
  BY <1>6, LeaveType DEF Crash, GiveUp
<1> QED BY <1>0, <1>1, <1>2, <1>3, <1>4, <1>5, <1>6

LEMMA CommitSourceType == ASSUME TypeInv, NEW w \in Workers, CommitSource(w) PROVE TypeInv'
<1> DEFINE j == worker[w].job
           a == job[j].article
           s == worker[w].fetched
           k == KeyOf(j, s)
<1>0. worker[w].pc = "commit"
  BY DEF CommitSource
<1>1. j \in Jobs /\ job[j] \in JobRow /\ a \in Articles /\ article[a] \in ArticleRow
  BY <1>0, HeldType
<1>2. s \in Source /\ k \in Key
  <2>1. s \in Source
    BY <1>0 DEF TypeInv, BusyRow
  <2>2. job[j].profile \in Profiles
    BY <1>1 DEF JobRow
  <2> QED BY <1>1, <2>1, <2>2 DEF KeyOf, Key
<1>3. Canonical(k) \in Key \cup {None}
  BY <1>2 DEF Canonical
<1>4. UNCHANGED <<revision, attempts, review, outbox, desk>>
  BY DEF CommitSource
<1> HIDE DEF k, s, a, j
<1>5. CASE Leave(w) /\ UNCHANGED <<article, job>>
  <2>1. worker' \in [Workers -> BusyRow]
    BY <1>5, LeaveType
  <2> QED BY <1>4, <1>5, <2>1 DEF TypeInv, TypeOK, BusyRow
<1>6. CASE FailWith(w, "record", "refused") /\ UNCHANGED <<article, job>>
  <2>1. worker' \in [Workers -> BusyRow]
    BY <1>0, <1>6, FailWithType DEF Failure
  <2> QED BY <1>4, <1>6, <2>1 DEF TypeInv, TypeOK, BusyRow
<1>7. CASE TakeKey(w, j, a, s, k)
  <2> DEFINE row == [job[j] EXCEPT !.source = s, !.key = k, !.phase = "normalizing"]
             arow == [article[a] EXCEPT !.source = s, !.canonical = Canonical(k)]
  <2>1. /\ job' = [job EXCEPT ![j] = row] /\ article' = [article EXCEPT ![a] = arow]
        /\ Goto(w, "load")
    BY <1>1, <1>7 DEF TakeKey, TypeInv, TypeOK
  <2>2. row \in JobRow
    BY <1>1, <1>2, JobColumns DEF Phase
  <2>3. arow \in ArticleRow
    BY <1>1, <1>2, <1>3, ArticleColumns
  <2>4. job' \in [Jobs -> JobRow] /\ article' \in [Articles -> ArticleRow]
    BY <1>1, <2>1, <2>2, <2>3, JobRowStored, ArticleRowStored
  <2>5. worker' \in [Workers -> BusyRow]
    BY <1>0, <2>1, GotoType DEF Pc
  <2> QED BY <1>4, <2>4, <2>5 DEF TypeInv, TypeOK, BusyRow
<1>8. CASE \E o \in OwnerOf(k) \ {j} : Reuse(w, j, a, s, k, o)
  <2> PICK o \in OwnerOf(k) \ {j} : Reuse(w, j, a, s, k, o)
    BY <1>8
  <2> DEFINE done == [Released(job[j]) EXCEPT !.source = s, !.status = "completed",
                                              !.phase = "completed"]
             inspected == [job EXCEPT ![j] = done]
             moved == [job[o] EXCEPT !.generation = AdoptedGeneration(j),
                                     !.review = "awaiting_review"]
             generation == IF TerminalOwner(o, k) /\ Adopts(o, k) THEN AdoptedGeneration(j)
                           ELSE article[a].generation
             target == IF TerminalOwner(o, k) THEN o ELSE article[a].job
             arow == [article[a] EXCEPT !.source = s, !.canonical = Canonical(k),
                                        !.job = target, !.generation = generation]
  <2>1. o \in Jobs /\ o # j /\ job[o] \in JobRow
    BY DEF OwnerOf, TypeInv, TypeOK
  <2>2. AdoptedGeneration(j) \in Nat
    BY <1>1 DEF AdoptedGeneration, JobRow
  <2>3. Released(job[j]) \in JobRow
    BY <1>1, ReleasedType
  <2>4. done \in JobRow
    BY <1>2, <2>3, JobColumns DEF Status, Phase
  <2>5. moved \in JobRow
    BY <2>1, <2>2, JobColumns
  <2>6. job' = inspected \/ job' = [inspected EXCEPT ![o] = moved]
    BY <1>1, <2>1 DEF Reuse, TypeInv, TypeOK
  <2>7. job' \in [Jobs -> JobRow]
    BY <2>4, <2>5, <2>6 DEF TypeInv, TypeOK
  <2>8. article' = [article EXCEPT ![a] = arow]
    BY <1>1 DEF Reuse, TypeInv, TypeOK
  <2>9. generation \in Nat /\ target \in Jobs \cup {None}
    BY <1>1, <2>1, <2>2 DEF ArticleRow
  <2>10. arow \in ArticleRow
    <3> HIDE DEF generation, target
    <3> QED BY <1>1, <1>2, <1>3, <2>9, ArticleColumns
  <2>11. article' \in [Articles -> ArticleRow]
    BY <1>1, <2>8, <2>10, ArticleRowStored
  <2>12. worker' \in [Workers -> BusyRow]
    BY LeaveType DEF Reuse
  <2> QED BY <1>4, <2>7, <2>11, <2>12 DEF TypeInv, TypeOK, BusyRow
<1> QED BY <1>5, <1>6, <1>7, <1>8 DEF CommitSource, j, a, s, k

LEMMA DraftStepsType ==
    ASSUME TypeInv, NEW w \in Workers
    PROVE  /\ Normalize(w) => TypeInv'
           /\ Preserve(w) => TypeInv'
           /\ Park(w) => TypeInv'
           /\ Validate(w) => TypeInv'
<1> DEFINE j == worker[w].job
<1>1. ASSUME Normalize(w) PROVE TypeInv'
  <2> DEFINE row == [job[j] EXCEPT !.phase = "rewriting", !.normalized = TRUE]
  <2>1. /\ worker[w].pc # "idle"
        /\ job' = job \/ job' = [job EXCEPT ![j] = row]
        /\ \/ Leave(w) \/ FailWith(w, "record", "refused")
           \/ \E pc \in {"preserve", "prepare", "park"} : Goto(w, pc)
    BY <1>1, HeldType DEF Normalize, TypeInv, TypeOK
  <2>2. row \in JobRow
    BY <2>1, HeldType, JobColumns DEF Phase
  <2>3. job' \in [Jobs -> JobRow]
    BY <2>1, <2>2, JobRowStored DEF TypeInv, TypeOK
  <2>4. worker' \in [Workers -> BusyRow]
    BY <2>1, LeaveType, GotoType, FailWithType DEF Pc, Failure
  <2> QED BY <1>1, <2>3, <2>4 DEF TypeInv, TypeOK, BusyRow, Normalize
<1>2. ASSUME Preserve(w) PROVE TypeInv'
  <2> DEFINE row == [job[j] EXCEPT !.phase = "validating"]
  <2>1. /\ worker[w].pc # "idle"
        /\ job' = job \/ job' = [job EXCEPT ![j] = row]
        /\ \/ revision' = revision
           \/ revision' = [revision EXCEPT ![job[j].key] = Draft("building", TRUE, TRUE)]
        /\ Leave(w) \/ FailWith(w, "record", "refused") \/ Goto(w, "reload")
    BY <1>2, HeldType DEF Preserve, TypeInv, TypeOK
  <2>2. row \in JobRow
    BY <2>1, HeldType, JobColumns DEF Phase
  <2>3. job' \in [Jobs -> JobRow]
    BY <2>1, <2>2, JobRowStored DEF TypeInv, TypeOK
  <2>4. worker' \in [Workers -> BusyRow]
    BY <2>1, LeaveType, GotoType, FailWithType DEF Pc, Failure
  <2>5. revision' \in [Key -> RevisionRow]
    <3>1. Draft("building", TRUE, TRUE) \in RevisionRow
      BY DEF Draft, RevisionRow
    <3> QED BY <2>1, <3>1 DEF TypeInv, TypeOK
  <2> QED BY <1>2, <2>3, <2>4, <2>5 DEF TypeInv, TypeOK, BusyRow, Preserve
<1>3. ASSUME Park(w) PROVE TypeInv'
  <2> DEFINE row == [Released(job[j]) EXCEPT !.status = "failed", !.error = "MODEL_NOT_CONFIGURED"]
  <2>1. /\ worker[w].pc # "idle"
        /\ job' = job \/ job' = [job EXCEPT ![j] = row]
        /\ Leave(w) \/ FailWith(w, "record", "refused")
    BY <1>3, HeldType DEF Park, TypeInv, TypeOK
  <2>2. row \in JobRow
    BY <2>1, HeldType, ReleasedType, JobColumns DEF Status, ErrorCode
  <2>3. job' \in [Jobs -> JobRow]
    BY <2>1, <2>2, JobRowStored DEF TypeInv, TypeOK
  <2>4. worker' \in [Workers -> BusyRow]
    BY <2>1, LeaveType, FailWithType DEF Failure
  <2> QED BY <1>3, <2>3, <2>4 DEF TypeInv, TypeOK, BusyRow, Park
<1>4. ASSUME Validate(w) PROVE TypeInv'
  <2> DEFINE row == [job[j] EXCEPT !.phase = "publishing"]
             k == job[j].key
             rrow == [revision[k] EXCEPT !.status =
                         IF revision[k].sound THEN "validated" ELSE "rejected"]
  <2>1. /\ worker[w].pc # "idle"
        /\ job' = job \/ job' = [job EXCEPT ![j] = row]
        /\ revision' = revision \/ revision' = [revision EXCEPT ![k] = rrow]
        /\ Leave(w) \/ FailWith(w, "fail", "rewrite") \/ Goto(w, "publish")
    BY <1>4, HeldType DEF Validate, TypeInv, TypeOK
  <2>2. row \in JobRow
    BY <2>1, HeldType, JobColumns DEF Phase
  <2>3. job' \in [Jobs -> JobRow]
    BY <2>1, <2>2, JobRowStored DEF TypeInv, TypeOK
  <2>4. worker' \in [Workers -> BusyRow]
    BY <2>1, LeaveType, GotoType, FailWithType DEF Pc, Failure
  <2>5. revision' \in [Key -> RevisionRow]
    BY <2>1 DEF TypeInv, TypeOK, RevisionRow
  <2> QED BY <1>4, <2>3, <2>4, <2>5 DEF TypeInv, TypeOK, BusyRow, Validate
<1> QED BY <1>1, <1>2, <1>3, <1>4

LEMMA DeliveryStepsType ==
    ASSUME TypeInv, NEW w \in Workers
    PROVE  /\ Prepare(w) => TypeInv'
           /\ Dispatch(w) => TypeInv'
           /\ Result(w) => TypeInv'
           /\ Record(w) => TypeInv'
<1> DEFINE j == worker[w].job
<1>0. ASSUME worker[w].pc # "idle",
             NEW status \in {"prepared", "dispatched", "succeeded", "failed", "ambiguous"}
      PROVE  With(AttemptOf(w), status) \in Attempt
  <2>1. worker[w].token \in Nat /\ job[j].retry \in Nat /\ j \in Jobs
    BY <1>0, HeldType DEF TypeInv, TypeOK, WorkerRow, JobRow
  <2> QED BY <2>1 DEF With, AttemptOf, Attempt
<1>1. ASSUME Prepare(w) PROVE TypeInv'
  <2>1. /\ worker[w].pc # "idle"
        /\ attempts' = attempts \/ attempts' = attempts \cup {With(AttemptOf(w), "prepared")}
        /\ Leave(w) \/ Goto(w, "dispatch")
    BY <1>1 DEF Prepare
  <2>2. attempts' \in SUBSET Attempt
    BY <1>0, <2>1 DEF TypeInv, TypeOK
  <2>3. worker' \in [Workers -> BusyRow]
    BY <2>1, LeaveType, GotoType DEF Pc
  <2> QED BY <1>1, <2>2, <2>3 DEF TypeInv, TypeOK, BusyRow, Prepare
<1>2. ASSUME Dispatch(w) PROVE TypeInv'
  <2>1. /\ worker[w].pc # "idle"
        /\ \/ attempts' = attempts
           \/ attempts' = (attempts \ {With(AttemptOf(w), "prepared")})
                            \cup {With(AttemptOf(w), "dispatched")}
        /\ Leave(w) \/ FailWith(w, "record", "refused") \/ Goto(w, "model")
    BY <1>2 DEF Dispatch
  <2>2. attempts' \in SUBSET Attempt
    BY <1>0, <2>1 DEF TypeInv, TypeOK
  <2>3. worker' \in [Workers -> BusyRow]
    BY <2>1, LeaveType, GotoType, FailWithType DEF Pc, Failure
  <2> QED BY <1>2, <2>2, <2>3 DEF TypeInv, TypeOK, BusyRow, Dispatch
<1>3. ASSUME Result(w) PROVE TypeInv'
  <2>0. worker[w].pc # "idle" /\ j \in Jobs /\ job[j] \in JobRow
    BY <1>3, HeldType DEF Result
  <2>1. CASE UNCHANGED <<job, revision, attempts>> /\ (Leave(w) \/ FailWith(w, "record", "refused"))
    <3>1. worker' \in [Workers -> BusyRow]
      BY <2>0, <2>1, LeaveType, FailWithType DEF Failure
    <3> QED BY <1>3, <2>1, <3>1 DEF TypeInv, TypeOK, BusyRow, Result
  <2>2. CASE StoreResult(w, j, With(AttemptOf(w), "dispatched"))
    <3> DEFINE error == ErrorOf(worker[w].answer)
               sound == error = "none"
               waits == sound /\ job[j].profile = "review"
               saved == [job[j] EXCEPT !.phase = "validating", !.rewriteError = error]
               dispatched == With(AttemptOf(w), "dispatched")
    <3>1. error \in RewriteError
      BY DEF ErrorOf, RewriteError
    <3>2. saved \in JobRow
      <4> HIDE DEF error
      <4> QED BY <2>0, <3>1, JobColumns DEF Phase
    <3>3. AwaitReview(saved) \in JobRow
      <4> HIDE DEF saved
      <4>1. Released(saved) \in JobRow
        BY <3>2, ReleasedType
      <4> QED BY <4>1, JobColumns DEF AwaitReview, Status, Phase, ErrorCode
    <3>4. job' = [job EXCEPT ![j] = saved] \/ job' = [job EXCEPT ![j] = AwaitReview(saved)]
      BY <2>2 DEF StoreResult
    <3>5. job' \in [Jobs -> JobRow]
      <4> HIDE DEF saved
      <4> QED BY <3>2, <3>3, <3>4, JobRowStored
    <3>6. revision' = [revision EXCEPT ![job[j].key] =
                          Draft(IF waits THEN "validated" ELSE "building", sound, FALSE)]
      BY <2>2 DEF StoreResult
    <3>7. revision' \in [Key -> RevisionRow]
      <4> HIDE DEF error
      <4> QED BY <3>6 DEF TypeInv, TypeOK, Draft, RevisionRow
    <3>8. Leave(w) \/ Goto(w, "reload")
      BY <2>2 DEF StoreResult
    <3>9. worker' \in [Workers -> BusyRow]
      BY <2>0, <3>8, LeaveType, GotoType DEF Pc
    <3>10. \/ attempts' = (attempts \ {dispatched}) \cup {With(dispatched, "succeeded")}
           \/ attempts' = (attempts \ {dispatched}) \cup {With(dispatched, "failed")}
      BY <2>2 DEF StoreResult
    <3>11. \A status : With(dispatched, status) = With(AttemptOf(w), status)
      BY DEF With
    <3>12. attempts' \in SUBSET Attempt
      BY <1>0, <2>0, <3>10, <3>11 DEF TypeInv, TypeOK
    <3> QED BY <1>3, <3>5, <3>7, <3>9, <3>12 DEF TypeInv, TypeOK, BusyRow, Result
  <2> QED BY <1>3, <2>1, <2>2 DEF Result
<1>4. ASSUME Record(w) PROVE TypeInv'
  <2>1. worker[w].pc # "idle" /\ (Leave(w) \/ Goto(w, "fail"))
    BY <1>4 DEF Record
  <2>2. Closed(worker[w].failure) \in {"ambiguous", "failed"}
    BY DEF Closed
  <2>3. attempts' \in SUBSET Attempt
    <3>1. \A x \in Attempt, v \in {"ambiguous", "failed"} : [x EXCEPT !.status = v] \in Attempt
      BY DEF Attempt
    <3> DEFINE v == Closed(worker[w].failure)
               open(x) == /\ x.job = worker[w].job /\ x.token = worker[w].token
                          /\ x.status \in {"prepared", "dispatched"}
    <3>2. \/ attempts' = attempts
          \/ attempts' = {IF open(x) THEN [x EXCEPT !.status = v] ELSE x : x \in attempts}
      BY <1>4 DEF Record
    <3>3. \A x \in attempts : x \in Attempt /\ [x EXCEPT !.status = v] \in Attempt
      <4> HIDE DEF v
      <4> QED BY <2>2, <3>1 DEF v, TypeInv, TypeOK
    <3> HIDE DEF v, open
    <3> QED BY <3>2, <3>3 DEF TypeInv, TypeOK
  <2>4. worker' \in [Workers -> BusyRow]
    BY <2>1, LeaveType, GotoType DEF Pc
  <2> QED BY <1>4, <2>3, <2>4 DEF TypeInv, TypeOK, BusyRow, Record
<1> QED BY <1>1, <1>2, <1>3, <1>4

LEMMA RevisionColumns ==
    ASSUME NEW row \in RevisionRow, NEW v \in Nat
    PROVE  /\ [row EXCEPT !.version = v] \in RevisionRow
           /\ [row EXCEPT !.status = "validated", !.sound = TRUE, !.version = v] \in RevisionRow
           /\ [row EXCEPT !.status = "published"] \in RevisionRow
BY DEF RevisionRow

LEMMA EndStepsType ==
    ASSUME TypeInv, NEW w \in Workers
    PROVE  /\ Publish(w) => TypeInv'
           /\ Fail(w) => TypeInv'
           /\ Heartbeat(w) => TypeInv'
<1> DEFINE j == worker[w].job
<1>1. ASSUME Publish(w) PROVE TypeInv'
  <2> DEFINE k == job[j].key
             a == job[j].article
  <2>0. /\ worker[w].pc # "idle" /\ j \in Jobs /\ job[j] \in JobRow
        /\ a \in Articles /\ article[a] \in ArticleRow
    BY <1>1, HeldType DEF Publish
  <2>1. CASE /\ UNCHANGED <<article, job, revision, outbox>>
             /\ Leave(w) \/ FailWith(w, "record", "refused")
    <3>1. worker' \in [Workers -> BusyRow]
      BY <2>0, <2>1, LeaveType, FailWithType DEF Failure
    <3> QED BY <1>1, <2>1, <3>1 DEF TypeInv, TypeOK, BusyRow, Publish
  <2>2. CASE /\ Publishable(j)
             /\ revision' = [revision EXCEPT ![k] = [@ EXCEPT !.status = "published"]]
             /\ article' = [article EXCEPT ![a] = [@ EXCEPT !.canonical = k]]
             /\ job' = [job EXCEPT ![j] = [Released(@) EXCEPT
                            !.status = "completed", !.phase = "completed", !.error = "none"]]
             /\ outbox' = outbox \cup {k}
             /\ Leave(w)
    <3>1. k \in Key
      BY <2>0, <2>2 DEF Publishable, HasCandidate, JobRow
    <3>2. Released(job[j]) \in JobRow
      BY <2>0, ReleasedType
    <3>3. [Released(job[j]) EXCEPT !.status = "completed", !.phase = "completed",
                                   !.error = "none"] \in JobRow
      BY <3>2, JobColumns DEF Status, Phase, ErrorCode, RewriteError
    <3>4. job' \in [Jobs -> JobRow]
      BY <2>0, <2>2, <3>3 DEF TypeInv, TypeOK
    <3>5. [article[a] EXCEPT !.canonical = k] \in ArticleRow
      BY <2>0, <3>1, ArticleColumns
    <3>6. article' \in [Articles -> ArticleRow]
      BY <2>0, <2>2, <3>5 DEF TypeInv, TypeOK
    <3>7. revision' \in [Key -> RevisionRow]
      <4>1. [revision[k] EXCEPT !.status = "published"] \in RevisionRow
        BY <3>1, RevisionColumns DEF TypeInv, TypeOK
      <4> QED BY <2>2, <3>1, <4>1 DEF TypeInv, TypeOK
    <3>8. worker' \in [Workers -> BusyRow]
      BY <2>2, LeaveType
    <3>9. outbox' \in SUBSET Key
      BY <2>2, <3>1 DEF TypeInv, TypeOK
    <3> QED BY <1>1, <3>4, <3>6, <3>7, <3>8, <3>9 DEF TypeInv, TypeOK, BusyRow, Publish
  <2> QED BY <1>1, <2>1, <2>2 DEF Publish
<1>2. ASSUME Fail(w) PROVE TypeInv'
  <2>0. worker[w].pc # "idle" /\ j \in Jobs /\ job[j] \in JobRow
    BY <1>2, HeldType DEF Fail
  <2> DEFINE row(s, e) == [Released(job[j]) EXCEPT !.status = s, !.error = e]
  <2>1. \/ job' = job
        \/ \E s \in Status, e \in ErrorCode : job' = [job EXCEPT ![j] = row(s, e)]
    <3>1. job[j].rewriteError \in ErrorCode /\ "REFUSED" \in ErrorCode
      BY <2>0 DEF JobRow, ErrorCode
    <3>2. {"failed", "dead_letter", "needs_review"} \subseteq Status
      BY DEF Status
    <3> QED BY <1>2, <2>0, <3>1, <3>2 DEF Fail, TypeInv, TypeOK
  <2>2. \A s \in Status, e \in ErrorCode : row(s, e) \in JobRow
    BY <2>0, ReleasedType, JobColumns
  <2>3. job' \in [Jobs -> JobRow]
    <3> HIDE DEF row
    <3> QED BY <2>1, <2>2, JobRowStored DEF TypeInv, TypeOK
  <2>4. worker' \in [Workers -> BusyRow]
    BY <1>2, LeaveType DEF Fail
  <2> QED BY <1>2, <2>3, <2>4 DEF TypeInv, TypeOK, BusyRow, Fail
<1>3. ASSUME Heartbeat(w) PROVE TypeInv'
  <2> DEFINE row == [job[j] EXCEPT !.lease = LeaseTerm]
  <2>0. worker[w].pc # "idle" /\ j \in Jobs /\ job[j] \in JobRow
    BY <1>3, HeldType DEF Heartbeat
  <2>1. job' = [job EXCEPT ![j] = row]
    BY <1>3, <2>0 DEF Heartbeat, TypeInv, TypeOK
  <2>2. row \in JobRow
    BY <2>0, JobColumns
  <2>3. job' \in [Jobs -> JobRow]
    BY <2>1, <2>2, JobRowStored
  <2> QED BY <1>3, <2>3 DEF TypeInv, TypeOK, BusyRow, Heartbeat
<1> QED BY <1>1, <1>2, <1>3

LEMMA RunType == ASSUME TypeInv, NEW w \in Workers, Run(w) PROVE TypeInv'
BY WalkType, CommitSourceType, DraftStepsType, DeliveryStepsType, EndStepsType DEF Run

LEMMA LeaseTickType == ASSUME TypeInv, NEW j \in Jobs, LeaseTick(j) PROVE TypeInv'
<1> DEFINE row == [job[j] EXCEPT !.lease = job[j].lease - 1]
<1>1. job' = [job EXCEPT ![j] = row] /\ job[j].lease > 0 /\ job[j] \in JobRow
  BY DEF LeaseTick, TypeInv, TypeOK
<1>2. job[j].lease - 1 \in Nat
  BY <1>1 DEF JobRow
<1>3. row \in JobRow
  BY <1>1, <1>2, JobColumns
<1>4. job' \in [Jobs -> JobRow]
  BY <1>1, <1>3, JobRowStored
<1> QED BY <1>4 DEF TypeInv, TypeOK, BusyRow, LeaseTick

(***************************************************************************)
(* A reviewer's decisions.                                                 *)
(***************************************************************************)
LEMMA DraftType ==
    ASSUME TypeInv, NEW j \in Jobs, DraftCurrent(j)
    PROVE  /\ job[j] \in JobRow /\ job[j].generation \in Nat /\ job[j].token \in Nat
           /\ job[j].key \in Key
           /\ revision[job[j].key] \in RevisionRow /\ revision[job[j].key].version \in Nat
           /\ review[job[j].key] \in ReviewRow
BY DEF DraftCurrent, HasCandidate, TypeInv, TypeOK, JobRow, RevisionRow

LEMMA WaitAgainType == ASSUME NEW row \in JobRow PROVE WaitAgain(row) \in JobRow
<1> DEFINE token == IF row.status = "processing" THEN Released(row).token + 1 ELSE Released(row).token
           waiting == [Released(row) EXCEPT !.status = "needs_review", !.phase = "publishing",
                          !.error = "CONTENT_REVIEW_REQUIRED", !.review = "awaiting_review"]
<1>1. Released(row) \in JobRow
  BY ReleasedType
<1>2. token \in Nat
  BY <1>1 DEF JobRow
<1>3. waiting \in JobRow
  BY <1>1, JobColumns DEF Status, Phase, ErrorCode
<1>4. [waiting EXCEPT !.token = token] \in JobRow
  <2> HIDE DEF waiting, token
  <2> QED BY <1>2, <1>3, JobColumns
<1>5. WaitAgain(row) = [waiting EXCEPT !.token = token]
  BY DEF WaitAgain
<1> QED BY <1>4, <1>5

LEMMA ReviewColumns ==
    ASSUME NEW row \in ReviewRow, NEW r \in Reviewers, NEW v \in Nat, NEW g \in Nat
    PROVE  /\ \A d \in {"APPROVED", "REJECTED"} :
                [row EXCEPT !.decision = d, !.reviewer = r, !.version = v,
                            !.generation = g] \in ReviewRow
           /\ [row EXCEPT !.decision = "REJECTED", !.reviewer = r, !.version = v,
                          !.generation = g, !.corrector = r,
                          !.authors = row.authors \cup {r}] \in ReviewRow
<1>1. row.authors \cup {r} \in SUBSET Reviewers
  BY DEF ReviewRow
<1> QED BY <1>1 DEF ReviewRow

LEMMA DecideType ==
    ASSUME TypeInv, NEW r \in Reviewers, NEW j \in Jobs, Decide(r, j)
    PROVE  TypeInv'
<1> DEFINE k == job[j].key
           version == revision[k].version
           generation == job[j].generation
<1>0. ASSUME DraftCurrent(j)
      PROVE  /\ job[j] \in JobRow /\ generation \in Nat /\ k \in Key
             /\ revision[k] \in RevisionRow /\ version \in Nat /\ version + 1 \in Nat
             /\ review[k] \in ReviewRow
  BY <1>0, DraftType
<1>1. CASE Export(r, j)
  <2>1. DraftCurrent(j)
    BY <1>1 DEF Export, Reviewable, FailedDraft
  <2>2. BindingOf(j) \in Binding
    BY <1>0, <2>1 DEF BindingOf, Binding
  <2>3. desk' \in [Reviewers -> Binding \cup {None}]
    BY <1>1, <2>2 DEF Export, TypeInv, TypeOK
  <2> QED BY <1>1, <2>3 DEF TypeInv, TypeOK, BusyRow, Export
<1>2. CASE Approve(r, j)
  <2> DEFINE row == [job[j] EXCEPT !.status = "pending", !.phase = "publishing",
                                   !.error = "none", !.review = "approved"]
             rrow == [review[k] EXCEPT !.decision = "APPROVED", !.reviewer = r,
                                       !.version = version, !.generation = generation]
  <2>1. DraftCurrent(j)
    BY <1>2 DEF Approve, Reviewable
  <2>2. job' = [job EXCEPT ![j] = row] /\ review' = [review EXCEPT ![k] = rrow]
    BY <1>0, <1>2, <2>1 DEF Approve, TypeInv, TypeOK
  <2>3. row \in JobRow
    BY <1>0, <2>1, JobColumns DEF Status, Phase, ErrorCode, RewriteError
  <2>4. rrow \in ReviewRow
    <3> HIDE DEF k, version, generation
    <3> QED BY <1>0, <2>1, ReviewColumns
  <2>5. job' \in [Jobs -> JobRow] /\ review' \in [Key -> ReviewRow]
    BY <2>2, <2>3, <2>4, JobRowStored DEF TypeInv, TypeOK
  <2> QED BY <1>2, <2>5 DEF TypeInv, TypeOK, BusyRow, Approve, UntouchedByReviews
<1>3. CASE Reject(r, j)
  <2> DEFINE rrow == [review[k] EXCEPT !.decision = "REJECTED", !.reviewer = r,
                                       !.version = version, !.generation = generation]
  <2>1. DraftCurrent(j)
    BY <1>3 DEF Reject, Reviewable
  <2>2. job' = [job EXCEPT ![j] = WaitAgain(job[j])] /\ review' = [review EXCEPT ![k] = rrow]
    BY <1>0, <1>3, <2>1 DEF Reject, TypeInv, TypeOK
  <2>3. WaitAgain(job[j]) \in JobRow
    BY <1>0, <2>1, WaitAgainType
  <2>4. rrow \in ReviewRow
    <3> HIDE DEF k, version, generation
    <3> QED BY <1>0, <2>1, ReviewColumns
  <2>5. job' \in [Jobs -> JobRow] /\ review' \in [Key -> ReviewRow]
    BY <2>2, <2>3, <2>4, JobRowStored DEF TypeInv, TypeOK
  <2> QED BY <1>3, <2>5 DEF TypeInv, TypeOK, BusyRow, Reject, UntouchedByReviews
<1>4. CASE Correct(r, j)
  <2> DEFINE rrow == [review[k] EXCEPT !.decision = "REJECTED", !.reviewer = r,
                          !.version = version + 1, !.generation = generation,
                          !.corrector = r, !.authors = review[k].authors \cup {r}]
             drow == [revision[k] EXCEPT !.version = version + 1]
  <2>1. DraftCurrent(j)
    BY <1>4 DEF Correct, Reviewable
  <2>2. /\ job' = [job EXCEPT ![j] = WaitAgain(job[j])]
        /\ review' = [review EXCEPT ![k] = rrow]
        /\ revision' = [revision EXCEPT ![k] = drow]
    BY <1>0, <1>4, <2>1 DEF Correct, TypeInv, TypeOK
  <2>3. WaitAgain(job[j]) \in JobRow
    BY <1>0, <2>1, WaitAgainType
  <2>4. rrow \in ReviewRow
    <3> HIDE DEF k, version, generation
    <3> QED BY <1>0, <2>1, ReviewColumns
  <2>5. drow \in RevisionRow
    BY <1>0, <2>1, RevisionColumns
  <2>6. /\ job' \in [Jobs -> JobRow] /\ review' \in [Key -> ReviewRow]
        /\ revision' \in [Key -> RevisionRow]
    BY <2>2, <2>3, <2>4, <2>5, JobRowStored DEF TypeInv, TypeOK
  <2> QED BY <1>4, <2>6 DEF TypeInv, TypeOK, BusyRow, Correct, UntouchedByReviews
<1>5. CASE CorrectFailed(r, j)
  <2> DEFINE rrow == [decision |-> "REJECTED", reviewer |-> r, version |-> version + 1,
                      generation |-> generation, corrector |-> r,
                      failedOrigin |-> TRUE, authors |-> {r}]
             drow == [revision[k] EXCEPT !.status = "validated", !.sound = TRUE,
                                         !.version = version + 1]
             row == [WaitAgain(job[j]) EXCEPT !.rewriteError = "none"]
  <2>1. DraftCurrent(j)
    BY <1>5 DEF CorrectFailed, FailedDraft
  <2>2. /\ job' = [job EXCEPT ![j] = row]
        /\ review' = [review EXCEPT ![k] = rrow]
        /\ revision' = [revision EXCEPT ![k] = drow]
    BY <1>0, <1>5, <2>1 DEF CorrectFailed, TypeInv, TypeOK
  <2>3. row \in JobRow
    <3>1. WaitAgain(job[j]) \in JobRow
      BY <1>0, <2>1, WaitAgainType
    <3> QED BY <3>1, JobColumns DEF RewriteError
  <2>4. rrow \in ReviewRow
    BY <1>0, <2>1 DEF ReviewRow
  <2>5. drow \in RevisionRow
    BY <1>0, <2>1, RevisionColumns
  <2>6. /\ job' \in [Jobs -> JobRow] /\ review' \in [Key -> ReviewRow]
        /\ revision' \in [Key -> RevisionRow]
    BY <2>2, <2>3, <2>4, <2>5, JobRowStored DEF TypeInv, TypeOK
  <2> QED BY <1>5, <2>6 DEF TypeInv, TypeOK, BusyRow, CorrectFailed, UntouchedByReviews
<1> QED BY <1>1, <1>2, <1>3, <1>4, <1>5 DEF Decide

(***************************************************************************)
(* The invariant.                                                          *)
(***************************************************************************)
LEMMA InitType == Init => TypeInv
<1> SUFFICES ASSUME Init PROVE TypeInv
  OBVIOUS
<1>1. article \in [Articles -> ArticleRow]
  BY DEF Init, ArticleRow
<1>2. \A a \in Articles, p \in Profiles : AbsentJob(a, p) \in JobRow
  BY DEF AbsentJob, JobRow, Status, Phase, ErrorCode, RewriteError
<1>3. job \in [Jobs -> JobRow]
  <2> PICK a \in Articles, p \in Profiles : job = [j \in Jobs |-> AbsentJob(a, p)]
    BY DEF Init
  <2> QED BY <1>2
<1>4. revision \in [Key -> RevisionRow]
  BY DEF Init, RevisionRow
<1>5. review \in [Key -> ReviewRow]
  BY DEF Init, ReviewRow
<1>6. worker \in [Workers -> WorkerRow] /\ worker \in [Workers -> BusyRow]
  BY IdleType DEF Init
<1> QED BY <1>1, <1>3, <1>4, <1>5, <1>6 DEF Init, TypeInv, TypeOK

LEMMA NextType == TypeInv /\ [Next]_vars => TypeInv'
<1> SUFFICES ASSUME TypeInv, [Next]_vars PROVE TypeInv'
  OBVIOUS
<1>1. CASE UNCHANGED vars
  BY <1>1 DEF TypeInv, TypeOK, BusyRow, vars
<1>2. CASE Next
  <2>1. ASSUME NEW w \in Workers, Claim(w) \/ Run(w) \/ Heartbeat(w) \/ Crash(w) PROVE TypeInv'
    BY <2>1, ClaimType, RunType, EndStepsType, WalkType
  <2>2. ASSUME NEW a \in Articles, Request(a) PROVE TypeInv'
    BY <2>2, RequestType
  <2>3. ASSUME NEW j \in Jobs, LeaseTick(j) PROVE TypeInv'
    BY <2>3, LeaseTickType
  <2>4. ASSUME NEW r \in Reviewers, NEW j \in Jobs, Decide(r, j) PROVE TypeInv'
    BY <2>4, DecideType
  <2> QED BY <1>2, <2>1, <2>2, <2>3, <2>4 DEF Next
<1> QED BY <1>1, <1>2

\* Every row stays of its type, and a worker past its poll names a job.
THEOREM TypeInvariant == Spec => []TypeInv
BY InitType, NextType, PTL DEF Spec

\* The rows of the database, the workers and the reviewers stay of their types.
THEOREM TypeCorrect == Spec => []TypeOK
<1>1. TypeInv => TypeOK
  BY DEF TypeInv
<1> QED BY <1>1, TypeInvariant, PTL
=============================================================================
