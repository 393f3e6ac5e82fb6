------------------------- MODULE ArticleSafety_proofs -------------------------
(***************************************************************************)
(* What the leases, the pointers and the transformation keys protect, for  *)
(* any number of articles, jobs, workers and reviewers.  In this order: a  *)
(* parked job stays resumable; a worker that lost its lease writes         *)
(* nothing; a key has one owner, so what is published matches its source   *)
(* and stays, as readers are promised; the review profile publishes what   *)
(* was approved; every attempt is dispatched once and accounted for; a     *)
(* saved automatic draft resumes and an approval covers its draft.         *)
(***************************************************************************)
EXTENDS ArticleOwnership_proofs

USE ConstantsAssumption, NoneAssumption

(***************************************************************************)
(* What becomes of the rows in a step.  Rows last: they are not removed,   *)
(* keep their profile and keep a source.  They go on: none starts to wait  *)
(* for the model to be configured.                                         *)
(***************************************************************************)
Waits(row) == row.status = "failed" /\ row.error = "MODEL_NOT_CONFIGURED"

RowLasts(old, new) ==
    old.status # "absent" =>
        /\ new.status # "absent" /\ new.profile = old.profile
        /\ old.source # None => new.source # None

RowGoes(old, new) == RowLasts(old, new) /\ (Waits(new) => new = old)

JobsLast == \A i \in Jobs : RowLasts(job[i], job'[i])
JobsGo == \A i \in Jobs : RowGoes(job[i], job'[i])

LEMMA StillGoes == ASSUME UNCHANGED job PROVE JobsGo
BY DEF JobsGo, RowGoes, RowLasts

LEMMA OneGoes ==
    ASSUME TypeInv, NEW j \in Jobs, NEW row, job' = [job EXCEPT ![j] = row],
           RowGoes(job[j], row)
    PROVE  JobsGo
<1>1. job'[j] = row /\ \A i \in Jobs \ {j} : job'[i] = job[i]
  BY DEF TypeInv, TypeOK
<1> QED BY <1>1 DEF JobsGo, RowGoes, RowLasts

LEMMA GoingLasts == ASSUME JobsGo PROVE JobsLast
BY DEF JobsGo, JobsLast, RowGoes

(***************************************************************************)
(* No step but Park lets a row wait.                                       *)
(***************************************************************************)
LEMMA RequestGoes == ASSUME TypeInv, NEW a \in Articles, Request(a) PROVE JobsGo
<1>0. FreshJob(a) \in JobRow /\ FreshJob(a).status = "pending" /\ FreshJob(a).error = "none"
  BY FreshJobType DEF FreshJob, AbsentJob
<1>1. ASSUME NEW j \in Jobs, NEW row, job[j].status = "absent", row.status # "failed",
             job' = [job EXCEPT ![j] = row]
      PROVE  JobsGo
  <2>1. RowGoes(job[j], row)
    BY <1>1 DEF RowGoes, RowLasts, Waits
  <2> QED BY <1>1, <2>1, OneGoes
<1>2. CASE EnsureJob(a)
  BY <1>0, <1>1, <1>2 DEF EnsureJob
<1>3. ASSUME NEW p \in Profiles, RefreshJob(a, p) PROVE JobsGo
  <2> DEFINE row == [FreshJob(a) EXCEPT !.generation = article[a].generation + 1, !.profile = p]
  <2>1. row.status # "failed"
    BY <1>0 DEF JobRow
  <2>2. \E j \in Jobs : job[j].status = "absent" /\ job' = [job EXCEPT ![j] = row]
    BY <1>3 DEF RefreshJob
  <2> HIDE DEF row
  <2> QED BY <1>1, <2>1, <2>2
<1>4. CASE Reproject(a)
  <2> DEFINE row == [FreshJob(a) EXCEPT
                       !.generation = article[a].generation + 1,
                       !.status = "needs_review", !.phase = "completed",
                       !.error = "SOURCE_ONLY_REPROJECTION",
                       !.retry = 1, !.token = 1,
                       !.source = [article[a].source EXCEPT !.projection = 2]]
  <2>1. row.status # "failed"
    BY <1>0 DEF JobRow
  <2>2. \E j \in Jobs : job[j].status = "absent" /\ job' = [job EXCEPT ![j] = row]
    BY <1>4 DEF Reproject
  <2> HIDE DEF row
  <2> QED BY <1>1, <2>1, <2>2
<1> QED BY <1>2, <1>3, <1>4 DEF Request

LEMMA ClaimGoes == ASSUME TypeInv, NEW w \in Workers, Claim(w) PROVE JobsGo
<1>1. ASSUME NEW j \in Jobs, NEW p \in Phase,
             job' = [job EXCEPT ![j] = [ClaimedBy(w, @) EXCEPT !.phase = p, !.error = "none"]]
      PROVE  JobsGo
  <2> DEFINE row == [ClaimedBy(w, job[j]) EXCEPT !.phase = p, !.error = "none"]
  <2>1. job[j] \in JobRow /\ job' = [job EXCEPT ![j] = row]
    BY <1>1 DEF TypeInv, TypeOK
  <2>2. RowGoes(job[j], row)
    BY <2>1 DEF ClaimedBy, RowGoes, RowLasts, Waits, JobRow
  <2> HIDE DEF row
  <2> QED BY <2>1, <2>2, OneGoes
<1>2. ASSUME NEW j \in Jobs, NEW s \in {"dead_letter", "needs_review"}, NEW e, NEW v,
             \/ job' = [job EXCEPT ![j] = [Released(@) EXCEPT !.status = s, !.error = e]]
             \/ job' = [job EXCEPT ![j] = [Released(@) EXCEPT !.status = s, !.error = e,
                                                              !.review = v]]
      PROVE  JobsGo
  <2>0. job[j] \in JobRow
    BY DEF TypeInv, TypeOK
  <2> DEFINE row == [Released(job[j]) EXCEPT !.status = s, !.error = e]
             reviewed == [Released(job[j]) EXCEPT !.status = s, !.error = e, !.review = v]
  <2>1. job' = [job EXCEPT ![j] = row] \/ job' = [job EXCEPT ![j] = reviewed]
    BY <1>2 DEF TypeInv, TypeOK
  <2>2. RowGoes(job[j], row) /\ RowGoes(job[j], reviewed)
    BY <2>0 DEF Released, RowGoes, RowLasts, Waits, JobRow
  <2> HIDE DEF row, reviewed
  <2> QED BY <2>1, <2>2, OneGoes
<1>3. {"validating", "publishing", "rewriting"} \subseteq Phase
  BY DEF Phase
<1>4. ASSUME NEW j \in Jobs, NEW ready \in BOOLEAN, ClaimAutomatic(w, j, ready) PROVE JobsGo
  BY <1>1, <1>2, <1>3, <1>4 DEF ClaimAutomatic
<1>5. ASSUME NEW j \in Jobs, NEW ready \in BOOLEAN, ClaimReview(w, j, ready) PROVE JobsGo
  BY <1>1, <1>2, <1>3, <1>5 DEF ClaimReview
<1>6. ASSUME NEW j \in Jobs, ClaimConfiguration(w, j) PROVE JobsGo
  BY <1>1, <1>3, <1>6 DEF ClaimConfiguration
<1>7. ASSUME SweepExhausted(w) PROVE JobsGo
  <2>1. worker[w].job \in Jobs
    BY <1>7, HeldType DEF SweepExhausted
  <2> QED BY <1>2, <1>7, <2>1 DEF SweepExhausted
<1>8. ASSUME ClaimGeneric(w) PROVE JobsGo
  <2> DEFINE j == worker[w].job
             row == [ClaimedBy(w, job[j]) EXCEPT !.retry = NextAttempt(j), !.phase = NextPhase(j)]
  <2>1. j \in Jobs /\ job[j] \in JobRow
    BY <1>8, HeldType DEF ClaimGeneric
  <2>2. job' = [job EXCEPT ![j] = row]
    BY <1>8, <2>1 DEF ClaimGeneric, TypeInv, TypeOK
  <2>3. RowGoes(job[j], row)
    BY <2>1 DEF ClaimedBy, RowGoes, RowLasts, Waits, JobRow
  <2> HIDE DEF j, row
  <2> QED BY <2>1, <2>2, <2>3, OneGoes
<1>9. ASSUME UNCHANGED job PROVE JobsGo
  BY <1>9, StillGoes
<1> QED BY <1>4, <1>5, <1>6, <1>7, <1>8, <1>9 DEF Claim, PassResume, NothingToClaim

LEMMA DraftGoes ==
    ASSUME TypeInv, NEW w \in Workers, Normalize(w) \/ Preserve(w) \/ Validate(w)
    PROVE  JobsGo
<1> DEFINE j == worker[w].job
           phased(p) == [job[j] EXCEPT !.phase = p]
           normal == [job[j] EXCEPT !.phase = "rewriting", !.normalized = TRUE]
<1>1. worker[w].pc # "idle"
  BY DEF Normalize, Preserve, Validate
<1>2. CASE UNCHANGED job
  BY <1>2, StillGoes
<1>3. CASE job' # job
  <2>1. LeaseHeld(w)
    BY <1>3 DEF Normalize, Preserve, Validate, TransformHeld
  <2>2. j \in Jobs /\ job[j] \in JobRow /\ job[j].status = "processing"
    BY <1>1, <2>1, HeldActive
  <2>3. PICK row \in {normal, phased("validating"), phased("publishing")} :
            job' = [job EXCEPT ![j] = row]
    BY <1>3, <2>2 DEF Normalize, Preserve, Validate, TypeInv, TypeOK
  <2>4. RowGoes(job[j], row)
    BY <2>2 DEF RowGoes, RowLasts, Waits, JobRow
  <2> HIDE DEF normal, phased
  <2> QED BY <2>2, <2>3, <2>4, OneGoes
<1> QED BY <1>2, <1>3

LEMMA EndGoes ==
    ASSUME TypeInv, NEW w \in Workers, Result(w) \/ Publish(w) \/ Fail(w) \/ Heartbeat(w)
    PROVE  JobsGo
<1> DEFINE j == worker[w].job
           saved == [job[j] EXCEPT !.phase = "validating", !.rewriteError = ErrorOf(worker[w].answer)]
           published == [Released(job[j]) EXCEPT !.status = "completed", !.phase = "completed",
                                                 !.error = "none"]
           failed(s, e) == [Released(job[j]) EXCEPT !.status = s, !.error = e]
           beat == [job[j] EXCEPT !.lease = LeaseTerm]
<1>1. worker[w].pc # "idle"
  BY DEF Result, Publish, Fail, Heartbeat, LeaseHeld
<1>2. CASE UNCHANGED job
  BY <1>2, StillGoes
<1>3. CASE job' # job
  <2>1. LeaseHeld(w)
    BY <1>3 DEF Result, Publish, Fail, Heartbeat, TransformHeld
  <2>2. j \in Jobs /\ job[j] \in JobRow /\ job[j].status = "processing"
    BY <1>1, <2>1, HeldActive
  <2>3. CASE Result(w)
    <3>1. job' = [job EXCEPT ![j] = saved] \/ job' = [job EXCEPT ![j] = AwaitReview(saved)]
      BY <1>3, <2>3 DEF Result, StoreResult
    <3>2. RowGoes(job[j], saved) /\ RowGoes(job[j], AwaitReview(saved))
      BY <2>2 DEF AwaitReview, Released, RowGoes, RowLasts, Waits, JobRow
    <3> HIDE DEF saved
    <3> QED BY <2>2, <3>1, <3>2, OneGoes
  <2>4. CASE Publish(w)
    <3>1. job' = [job EXCEPT ![j] = published]
      BY <1>3, <2>2, <2>4 DEF Publish, TypeInv, TypeOK
    <3>2. RowGoes(job[j], published)
      BY <2>2 DEF Released, RowGoes, RowLasts, Waits, JobRow
    <3> HIDE DEF published
    <3> QED BY <2>2, <3>1, <3>2, OneGoes
  <2>5. CASE Fail(w)
    <3>1. job[j].rewriteError # "MODEL_NOT_CONFIGURED"
      BY <2>2 DEF JobRow, RewriteError
    <3>2. PICK s \in {"failed", "dead_letter", "needs_review"},
               e \in {job[j].rewriteError, "REFUSED"} :
              job' = [job EXCEPT ![j] = failed(s, e)]
      BY <1>3, <2>2, <2>5 DEF Fail, TypeInv, TypeOK
    <3>3. RowGoes(job[j], failed(s, e))
      BY <2>2, <3>1 DEF Released, RowGoes, RowLasts, Waits, JobRow
    <3> HIDE DEF failed
    <3> QED BY <2>2, <3>2, <3>3, OneGoes
  <2>6. CASE Heartbeat(w)
    <3>1. job' = [job EXCEPT ![j] = beat]
      BY <2>2, <2>6 DEF Heartbeat, TypeInv, TypeOK
    <3>2. RowGoes(job[j], beat)
      BY <2>2 DEF RowGoes, RowLasts, Waits, JobRow
    <3> HIDE DEF beat
    <3> QED BY <2>2, <3>1, <3>2, OneGoes
  <2> QED BY <2>3, <2>4, <2>5, <2>6
<1> QED BY <1>2, <1>3

LEMMA CommitGoes == ASSUME TypeInv, NEW w \in Workers, CommitSource(w) PROVE JobsGo
<1> DEFINE j == worker[w].job
           a == job[j].article
           s == worker[w].fetched
           k == KeyOf(j, s)
<1>1. /\ j \in Jobs /\ job[j] \in JobRow /\ a \in Articles /\ article[a] \in ArticleRow
      /\ s \in Source /\ s # None
  <2>1. worker[w].pc = "commit"
    BY DEF CommitSource
  <2>2. s \in Source
    BY <2>1 DEF TypeInv, BusyRow
  <2> QED BY <2>1, <2>2, HeldType
<1>2. CASE UNCHANGED job
  BY <1>2, StillGoes
<1>3. ASSUME LeaseHeld(w), TakeKey(w, j, a, s, k) PROVE JobsGo
  <2> DEFINE row == [job[j] EXCEPT !.source = s, !.key = k, !.phase = "normalizing"]
  <2>1. job' = [job EXCEPT ![j] = row]
    BY <1>1, <1>3 DEF TakeKey, TypeInv, TypeOK
  <2>2. RowGoes(job[j], row)
    <3>1. row.status = job[j].status /\ row.profile = job[j].profile /\ row.source = s
      BY <1>1 DEF JobRow
    <3>2. job[j].status = "processing"
      BY <1>3 DEF LeaseHeld
    <3> HIDE DEF row, s, k
    <3> QED BY <1>1, <3>1, <3>2 DEF RowGoes, RowLasts, Waits
  <2> HIDE DEF row, j
  <2> QED BY <1>1, <2>1, <2>2, OneGoes
<1>4. ASSUME NEW o \in OwnerOf(k) \ {j}, Reuse(w, j, a, s, k, o) PROVE JobsGo
  <2> DEFINE done == [Released(job[j]) EXCEPT !.source = s, !.status = "completed",
                                              !.phase = "completed"]
             inspected == [job EXCEPT ![j] = done]
             moved == [job[o] EXCEPT !.generation = AdoptedGeneration(j),
                                     !.review = "awaiting_review"]
             adopted == TerminalOwner(o, k) /\ Adopts(o, k)
  <2>1. o \in Jobs /\ o # j /\ job[o] \in JobRow
    BY <1>4 DEF OwnerOf, TypeInv, TypeOK
  <2>2. job' = IF adopted THEN [inspected EXCEPT ![o] = moved] ELSE inspected
    BY <1>1, <1>4, <2>1 DEF Reuse, TypeInv, TypeOK
  <2>3. RowGoes(job[j], done)
    BY <1>1 DEF Released, RowGoes, RowLasts, Waits, JobRow
  <2>4. adopted => RowGoes(job[o], moved)
    BY <2>1 DEF Adopts, RowGoes, RowLasts, Waits, JobRow
  <2> HIDE DEF done, moved, adopted, k, s, a, j
  <2>5. /\ job'[j] = done
        /\ job'[o] = IF adopted THEN moved ELSE job[o]
        /\ \A i \in Jobs \ {j, o} : job'[i] = job[i]
    BY <1>1, <2>1, <2>2 DEF TypeInv, TypeOK
  <2>6. \A i \in Jobs : RowGoes(job[i], job[i])
    BY DEF RowGoes, RowLasts
  <2> QED BY <2>3, <2>4, <2>5, <2>6 DEF JobsGo
<1> QED BY <1>1, <1>2, <1>3, <1>4 DEF CommitSource

LEMMA DecideGoes ==
    ASSUME TypeInv, NEW r \in Reviewers, NEW j \in Jobs, Decide(r, j)
    PROVE  JobsGo
<1>1. job[j] \in JobRow
  BY DEF TypeInv, TypeOK
<1> DEFINE approved == [job[j] EXCEPT !.status = "pending", !.phase = "publishing",
                                      !.error = "none", !.review = "approved"]
           corrected == [WaitAgain(job[j]) EXCEPT !.rewriteError = "none"]
<1>2. /\ RowGoes(job[j], approved) /\ RowGoes(job[j], WaitAgain(job[j]))
      /\ RowGoes(job[j], corrected)
  BY <1>1 DEF WaitAgain, Released, RowGoes, RowLasts, Waits, JobRow
<1>3. \/ UNCHANGED job
      \/ job' = [job EXCEPT ![j] = approved]
      \/ job' = [job EXCEPT ![j] = WaitAgain(job[j])]
      \/ job' = [job EXCEPT ![j] = corrected]
  BY DEF Decide, Export, Approve, Reject, Correct, CorrectFailed, TypeInv, TypeOK
<1> HIDE DEF approved, corrected
<1> QED BY <1>2, <1>3, OneGoes, StillGoes

LEMMA TickGoes == ASSUME TypeInv, NEW j \in Jobs, LeaseTick(j) PROVE JobsGo
<1> DEFINE row == [job[j] EXCEPT !.lease = job[j].lease - 1]
<1>1. job' = [job EXCEPT ![j] = row] /\ job[j] \in JobRow /\ job[j].status = "processing"
  BY DEF LeaseTick, TypeInv, TypeOK
<1>2. RowGoes(job[j], row)
  BY <1>1 DEF RowGoes, RowLasts, Waits, JobRow
<1> HIDE DEF row
<1> QED BY <1>1, <1>2, OneGoes

\* What a worker that parks its job does to the rows.
Parks(w) ==
    LET j == worker[w].job IN
    /\ worker[w].pc = "park" /\ TransformHeld(w) /\ MayPark(j)
    /\ job' = [job EXCEPT ![j] = [Released(@) EXCEPT
                  !.status = "failed", !.error = "MODEL_NOT_CONFIGURED"]]
    /\ UNCHANGED <<article, attempts>>

LEMMA ParkLasts ==
    ASSUME TypeInv, NEW w \in Workers, Parks(w)
    PROVE  /\ JobsLast
           /\ worker[w].job \in Jobs
           /\ \A i \in Jobs \ {worker[w].job} : job'[i] = job[i]
           /\ \A c \in {"article", "generation", "profile", "source", "normalized"} :
                job'[worker[w].job][c] = job[worker[w].job][c]
<1> DEFINE j == worker[w].job
           row == [Released(job[j]) EXCEPT !.status = "failed", !.error = "MODEL_NOT_CONFIGURED"]
<1>1. j \in Jobs /\ job[j] \in JobRow
  BY HeldType DEF Parks
<1>2. job' = [job EXCEPT ![j] = row]
  BY <1>1 DEF Parks, TypeInv, TypeOK
<1>3. RowLasts(job[j], row)
  BY <1>1 DEF Released, RowLasts, JobRow
<1>4. /\ row.article = job[j].article /\ row.generation = job[j].generation
      /\ row.profile = job[j].profile /\ row.source = job[j].source
      /\ row.normalized = job[j].normalized
  BY <1>1 DEF Released, JobRow
<1> HIDE DEF row
<1>5. job'[j] = row /\ \A i \in Jobs \ {j} : job'[i] = job[i]
  BY <1>1, <1>2 DEF TypeInv, TypeOK
<1> QED BY <1>1, <1>3, <1>4, <1>5 DEF JobsLast, RowLasts

LEMMA NextGoes == ASSUME TypeInv, [Next]_vars PROVE JobsGo \/ \E w \in Workers : Parks(w)
<1>1. CASE UNCHANGED vars
  BY <1>1, StillGoes DEF vars
<1>2. ASSUME NEW w \in Workers, Run(w) PROVE JobsGo \/ Parks(w)
  <2>1. CASE Normalize(w) \/ Preserve(w) \/ Validate(w)
    BY <2>1, DraftGoes
  <2>2. CASE Result(w) \/ Publish(w) \/ Fail(w)
    BY <2>2, EndGoes
  <2>3. CASE CommitSource(w)
    BY <2>3, CommitGoes
  <2>4. CASE \/ Begin(w) \/ Capture(w) \/ Load(w) \/ Prepare(w) \/ Dispatch(w)
             \/ Model(w) \/ Reload(w) \/ Record(w)
    BY <2>4, StillGoes
    DEF Begin, Capture, Load, Prepare, Dispatch, Model, Reload, Record, RowsKept
  <2>5. CASE Park(w)
    BY <2>5, StillGoes DEF Park, Parks
  <2> QED BY <1>2, <2>1, <2>2, <2>3, <2>4, <2>5 DEF Run
<1>3. ASSUME NEW w \in Workers, Claim(w) \/ Heartbeat(w) \/ Crash(w) PROVE JobsGo
  BY <1>3, ClaimGoes, EndGoes, StillGoes DEF Crash, GiveUp, RowsKept
<1>4. ASSUME NEW a \in Articles, Request(a) PROVE JobsGo
  BY <1>4, RequestGoes
<1>5. ASSUME NEW j \in Jobs, LeaseTick(j) PROVE JobsGo
  BY <1>5, TickGoes
<1>6. ASSUME NEW r \in Reviewers, NEW j \in Jobs, Decide(r, j) PROVE JobsGo
  BY <1>6, DecideGoes
<1> QED BY <1>1, <1>2, <1>3, <1>4, <1>5, <1>6 DEF Next

(***************************************************************************)
(* What a worker knows of the job it holds, lease or no lease.             *)
(***************************************************************************)
Fits(x, row) ==
    x.pc # "idle" =>
        /\ row.status # "absent"
        /\ x.pc \in {"load", "normalize", "park"} => row.source # None
        /\ x.pc = "park" => row.profile = "auto"

WalkInv == \A w \in Workers : Fits(worker[w], job[worker[w].job])

\* A step of w that leaves it where nothing more need be known.
Onward(w) ==
    \/ worker'[w].pc = "idle"
    \/ /\ worker[w].pc # "idle" /\ worker'[w].job = worker[w].job
       /\ worker'[w].pc \notin {"load", "normalize", "park"}

Alone(w) == \A v \in Workers \ {w} : worker'[v] = worker[v]

LEMMA WorkersStill == ASSUME TypeInv, WalkInv, JobsLast, UNCHANGED worker PROVE WalkInv'
<1> SUFFICES ASSUME NEW w \in Workers PROVE Fits(worker[w], job'[worker[w].job])
  BY DEF WalkInv
<1>1. CASE worker[w].pc = "idle"
  BY <1>1 DEF Fits
<1>2. CASE worker[w].pc # "idle"
  <2>1. worker[w].job \in Jobs
    BY <1>2, HeldType
  <2>2. RowLasts(job[worker[w].job], job'[worker[w].job]) /\ Fits(worker[w], job[worker[w].job])
    BY <2>1 DEF JobsLast, WalkInv
  <2> QED BY <2>2 DEF RowLasts, Fits
<1> QED BY <1>1, <1>2

LEMMA WorkerMoves ==
    ASSUME TypeInv, WalkInv, JobsLast, NEW w \in Workers, Alone(w),
           Onward(w) \/ Fits(worker'[w], job'[worker'[w].job])
    PROVE  WalkInv'
<1> SUFFICES ASSUME NEW v \in Workers PROVE Fits(worker'[v], job'[worker'[v].job])
  BY DEF WalkInv
<1>1. ASSUME NEW u \in Workers, worker[u].pc # "idle"
      PROVE  /\ RowLasts(job[worker[u].job], job'[worker[u].job])
             /\ Fits(worker[u], job[worker[u].job])
  BY <1>1, HeldType DEF JobsLast, WalkInv
<1>2. CASE v # w
  <2>1. worker'[v] = worker[v]
    BY <1>2 DEF Alone
  <2> QED BY <1>1, <2>1 DEF RowLasts, Fits
<1>3. CASE v = w /\ Onward(w)
  BY <1>1, <1>3 DEF Onward, RowLasts, Fits
<1> QED BY <1>2, <1>3

LEMMA LeaveOnward == ASSUME TypeInv, NEW w \in Workers, Leave(w) PROVE Alone(w) /\ Onward(w)
BY DEF Leave, Alone, Onward, IdleWorker, TypeInv, TypeOK

LEMMA GotoMoves ==
    ASSUME TypeInv, NEW w \in Workers, NEW pc, Goto(w, pc)
    PROVE  Alone(w) /\ worker'[w].pc = pc /\ worker'[w].job = worker[w].job
BY DEF Goto, Alone, TypeInv, TypeOK, WorkerRow

LEMMA FailWithOnward ==
    ASSUME TypeInv, NEW w \in Workers, worker[w].pc # "idle",
           NEW pc \in {"record", "fail"}, NEW f, FailWith(w, pc, f)
    PROVE  Alone(w) /\ Onward(w)
BY DEF FailWith, Alone, Onward, TypeInv, TypeOK, WorkerRow

LEMMA PollMoves ==
    ASSUME TypeInv, NEW w \in Workers, NEW j \in Jobs, NEW ready \in BOOLEAN,
           Poll(w, j, ready), job'[j].status # "absent"
    PROVE  Alone(w) /\ Fits(worker'[w], job'[worker'[w].job])
<1>1. worker'[w].pc = "begin" /\ worker'[w].job = j /\ Alone(w)
  BY DEF Poll, IdleWorker, Alone, TypeInv, TypeOK
<1> QED BY <1>1 DEF Fits

LEMMA ClaimWalk == ASSUME TypeInv, WalkInv, NEW w \in Workers, Claim(w) PROVE WalkInv'
<1>0. JobsLast
  BY ClaimGoes, GoingLasts
<1>1. ASSUME UNCHANGED worker PROVE WalkInv'
  BY <1>0, <1>1, WorkersStill
<1>2. ASSUME Leave(w) PROVE WalkInv'
  BY <1>0, <1>2, LeaveOnward, WorkerMoves
<1>3. ASSUME NEW j \in Jobs, NEW ready \in BOOLEAN, Poll(w, j, ready), job[j].status # "absent"
      PROVE  WalkInv'
  <2>1. job'[j].status # "absent"
    BY <1>0, <1>3 DEF JobsLast, RowLasts
  <2> QED BY <1>0, <1>3, <2>1, PollMoves, WorkerMoves
<1>4. ASSUME NEW j \in Jobs, NEW ready \in BOOLEAN, PassResume(w, j, ready) PROVE WalkInv'
  <2>1. job[j].status # "absent" /\ job' = job
    BY <1>4 DEF PassResume, Active
  <2>2. worker'[w].pc = "sweep" /\ worker'[w].job = j /\ Alone(w)
    BY <1>4 DEF PassResume, IdleWorker, Alone, TypeInv, TypeOK
  <2>3. Fits(worker'[w], job'[worker'[w].job])
    BY <2>1, <2>2 DEF Fits
  <2> QED BY <1>0, <2>2, <2>3, WorkerMoves
<1>5. ASSUME NEW j \in Jobs, NEW ready \in BOOLEAN,
             ClaimAutomatic(w, j, ready) \/ ClaimReview(w, j, ready)
      PROVE  WalkInv'
  <2>1. job[j].status # "absent"
    BY <1>5 DEF ClaimAutomatic, ClaimReview, Resumable, Expired
  <2> QED BY <1>1, <1>3, <1>5, <2>1 DEF ClaimAutomatic, ClaimReview
<1>6. ASSUME NEW j \in Jobs, ClaimConfiguration(w, j) PROVE WalkInv'
  BY <1>3, <1>6 DEF ClaimConfiguration, AwaitingModel
<1>7. ASSUME ClaimGeneric(w) PROVE WalkInv'
  <2>1. worker[w].job \in Jobs /\ worker[w].ready \in BOOLEAN
    BY <1>7, HeldType DEF ClaimGeneric, TypeInv, TypeOK, WorkerRow
  <2>2. job[worker[w].job].status # "absent"
    BY <1>7 DEF ClaimGeneric, Claimable, Expired
  <2> QED BY <1>3, <1>7, <2>1, <2>2 DEF ClaimGeneric
<1> QED BY <1>2, <1>4, <1>5, <1>6, <1>7 DEF Claim, SweepExhausted, NothingToClaim

LEMMA StaysOnward ==
    ASSUME TypeInv, NEW w \in Workers, worker[w].pc # "idle",
           \/ Leave(w)
           \/ \E pc \in Pc \ {"load", "normalize", "park"} : Goto(w, pc)
           \/ \E pc \in {"record", "fail"}, f \in Failure : FailWith(w, pc, f)
    PROVE  Alone(w) /\ Onward(w)
<1>1. CASE \E pc \in Pc \ {"load", "normalize", "park"} : Goto(w, pc)
  BY <1>1, GotoMoves DEF Onward
<1> QED BY <1>1, LeaveOnward, FailWithOnward

LEMMA RunWalk == ASSUME TypeInv, WalkInv, NEW w \in Workers, Run(w) PROVE WalkInv'
<1>0. JobsLast
  <2>1. JobsGo \/ \E v \in Workers : Parks(v)
    BY NextGoes DEF Next
  <2> QED BY <2>1, GoingLasts, ParkLasts
<1>1. ASSUME Alone(w), Onward(w) \/ Fits(worker'[w], job'[worker'[w].job]) PROVE WalkInv'
  BY <1>0, <1>1, WorkerMoves
<1>2. worker[w].pc # "idle"
  BY DEF Run, Begin, Capture, CommitSource, Load, Normalize, Preserve, Park, Prepare, Dispatch,
         Model, Result, Reload, Validate, Publish, Record, Fail
<1> DEFINE j == worker[w].job
<1>3. /\ j \in Jobs
      /\ RowLasts(job[j], job'[j]) /\ Fits(worker[w], job[j])
  BY <1>0, <1>2, HeldType DEF JobsLast, WalkInv
<1>4. CASE Begin(w)
  <2>1. CASE Leave(w) \/ Goto(w, "capture")
    BY <1>1, <1>2, <2>1, StaysOnward DEF Pc
  <2>2. CASE Goto(w, "load") /\ job[j].source # None
    BY <1>1, <1>2, <1>3, <2>2, GotoMoves DEF RowLasts, Fits
  <2> QED BY <1>4, <2>1, <2>2 DEF Begin
<1>5. CASE Capture(w) \/ Model(w)
  <2>1. CASE \/ Leave(w)
             \/ \E pc \in {"record", "fail"}, f \in Failure : FailWith(w, pc, f)
    BY <1>1, <1>2, <2>1, StaysOnward
  <2>2. CASE \/ \E s \in Source :
                  worker' = [worker EXCEPT ![w] = [@ EXCEPT !.pc = "commit", !.fetched = s]]
             \/ \E x \in {"sound", "mutation", "invalid"} :
                  worker' = [worker EXCEPT ![w] = [@ EXCEPT !.pc = "result", !.answer = x]]
    <3>0. worker[w] \in WorkerRow /\ worker \in [Workers -> WorkerRow]
      BY DEF TypeInv, TypeOK
    <3> DEFINE fetched(x) == [worker[w] EXCEPT !.pc = "commit", !.fetched = x]
               answered(x) == [worker[w] EXCEPT !.pc = "result", !.answer = x]
    <3>1. PICK row : /\ worker' = [worker EXCEPT ![w] = row]
                     /\ \E x : row = fetched(x) \/ row = answered(x)
      BY <2>2, <3>0
    <3>3. row.pc \in {"commit", "result"} /\ row.job = worker[w].job
      BY <3>0, <3>1 DEF WorkerRow
    <3>4. worker'[w] = row /\ Alone(w)
      BY <3>0, <3>1 DEF Alone
    <3>2. Alone(w) /\ Onward(w)
      BY <1>2, <3>3, <3>4 DEF Onward
    <3> QED BY <1>1, <3>2
  <2> QED BY <1>5, <2>1, <2>2 DEF Capture, Model, Failure
<1>6. CASE CommitSource(w)
  <2> DEFINE s == worker[w].fetched
             k == KeyOf(j, s)
             a == job[j].article
  <2>1. CASE Leave(w) \/ FailWith(w, "record", "refused")
    BY <1>1, <1>2, <2>1, StaysOnward DEF Failure
  <2>2. CASE TakeKey(w, j, a, s, k)
    <3>1. job'[j].source = s
      BY <1>3, <2>2, HeldType, <1>2 DEF TakeKey, TypeInv, TypeOK, JobRow
    <3>2. s # None
      BY <1>6 DEF CommitSource, TypeInv, BusyRow
    <3>3. Alone(w) /\ worker'[w].pc = "load" /\ worker'[w].job = j
      BY <2>2, GotoMoves DEF TakeKey
    <3>4. job'[j].status # "absent"
      BY <1>2, <1>3 DEF RowLasts, Fits
    <3> HIDE DEF s, j
    <3> QED BY <1>1, <3>1, <3>2, <3>3, <3>4 DEF Fits
  <2> QED BY <1>6, <2>1, <2>2 DEF CommitSource, Reuse
<1>7. CASE Load(w)
  <2>1. CASE Leave(w) \/ Goto(w, "reload")
    BY <1>1, <1>2, <2>1, StaysOnward DEF Pc
  <2>2. CASE Goto(w, "normalize")
    <3>1. worker[w].pc = "load"
      BY <1>7 DEF Load
    <3> QED BY <1>1, <1>3, <2>2, <3>1, GotoMoves DEF RowLasts, Fits
  <2> QED BY <1>7, <2>1, <2>2 DEF Load
<1>8. CASE Normalize(w)
  <2>1. CASE Leave(w) \/ Goto(w, "preserve") \/ Goto(w, "prepare") \/ FailWith(w, "record", "refused")
    BY <1>1, <1>2, <2>1, StaysOnward DEF Pc, Failure
  <2>2. CASE Goto(w, "park") /\ job[j].profile = "auto"
    <3>1. worker[w].pc = "normalize"
      BY <1>8 DEF Normalize
    <3> QED BY <1>1, <1>3, <2>2, <3>1, GotoMoves DEF RowLasts, Fits
  <2> QED BY <1>8, <2>1, <2>2 DEF Normalize
<1>9. CASE \/ Preserve(w) \/ Park(w) \/ Prepare(w) \/ Dispatch(w) \/ Result(w)
           \/ Reload(w) \/ Validate(w) \/ Publish(w) \/ Record(w) \/ Fail(w)
  <2>1. \/ Leave(w)
        \/ \E pc \in Pc \ {"load", "normalize", "park"} : Goto(w, pc)
        \/ \E pc \in {"record", "fail"}, f \in Failure : FailWith(w, pc, f)
    BY <1>9 DEF Preserve, Park, Prepare, Dispatch, Result, StoreResult, Reload, Validate,
                Publish, Record, Fail, Pc, Failure
  <2> QED BY <1>1, <1>2, <2>1, StaysOnward
<1> QED BY <1>4, <1>5, <1>6, <1>7, <1>8, <1>9 DEF Run

LEMMA WalkNext == ASSUME TypeInv, WalkInv, [Next]_vars PROVE WalkInv'
<1>0. JobsLast
  BY NextGoes, GoingLasts, ParkLasts
<1>1. ASSUME NEW w \in Workers, Claim(w) \/ Run(w) PROVE WalkInv'
  BY <1>1, ClaimWalk, RunWalk
<1>2. ASSUME NEW w \in Workers, Crash(w) PROVE WalkInv'
  BY <1>0, <1>2, LeaveOnward, WorkerMoves DEF Crash, GiveUp
<1>3. ASSUME UNCHANGED worker PROVE WalkInv'
  BY <1>0, <1>3, WorkersStill
<1> QED BY <1>1, <1>2, <1>3
        DEF Next, vars, Request, EnsureJob, RefreshJob, Reproject, UntouchedByRequests,
            Heartbeat, LeaseTick, Decide, Export, Approve, Reject, Correct, CorrectFailed,
            UntouchedByReviews

(***************************************************************************)
(* Parked jobs.  A job that waits is active, so its article asks for it:   *)
(* nobody else may then change what the article asks for, and only a job   *)
(* that is being processed dispatches an attempt.                          *)
(***************************************************************************)
Asked(b) == <<b.job, b.generation, b.source, b.profile>>

ArticlesWait ==
    \A i \in Jobs : Waits(job[i]) =>
        Asked(article'[job[i].article]) = Asked(article[job[i].article])

AttemptsWait ==
    \A i \in Jobs : Waits(job[i]) /\ AttemptsOf(i) = {} => AttemptsOf(i)' = {}

\* Where another job holds its article, no job waits.
LEMMA WaitingIsAsked ==
    ASSUME ActiveIsCurrent, NEW i \in Jobs, Waits(job[i])
    PROVE  Active(i) /\ article[job[i].article].job = i
BY DEF ActiveIsCurrent, Active, Waits

LEMMA OthersArticle ==
    ASSUME TypeInv, ActiveIsCurrent, NEW a \in Articles, NEW row,
           article' = [article EXCEPT ![a] = row],
           \A i \in Jobs : article[a].job = i /\ Active(i) => ~Waits(job[i])
    PROVE  ArticlesWait
<1> SUFFICES ASSUME NEW i \in Jobs, Waits(job[i])
             PROVE  article'[job[i].article] = article[job[i].article]
  BY DEF ArticlesWait
<1>1. Active(i) /\ article[job[i].article].job = i
  BY WaitingIsAsked
<1> QED BY <1>1 DEF TypeInv, TypeOK

LEMMA NextArticlesWait == ASSUME TypeInv, ActiveIsCurrent, [Next]_vars PROVE ArticlesWait
<1>1. ASSUME UNCHANGED article PROVE ArticlesWait
  BY <1>1 DEF ArticlesWait
<1>2. ASSUME NEW a \in Articles, Request(a) PROVE ArticlesWait
  <2>1. \E row : article' = [article EXCEPT ![a] = row]
    BY <1>2 DEF Request, EnsureJob, RefreshJob, Reproject
  <2>2. \A i \in Jobs : article[a].job = i /\ job[i].article = a => ~Active(i)
    BY <1>2 DEF Request, EnsureJob, RefreshJob, Reproject, NoActiveCurrentJob, NoActiveJobOf
  <2>3. ASSUME NEW i \in Jobs, Waits(job[i])
        PROVE  article'[job[i].article] = article[job[i].article]
    <3>1. Active(i) /\ article[job[i].article].job = i
      BY <2>3, WaitingIsAsked
    <3>2. job[i].article # a
      BY <2>2, <3>1
    <3> QED BY <2>1, <3>2 DEF TypeInv, TypeOK
  <2> QED BY <2>3 DEF ArticlesWait
<1>3. ASSUME NEW w \in Workers, CommitSource(w) \/ Publish(w), article' # article
      PROVE  ArticlesWait
  <2> DEFINE j == worker[w].job
             a == job[j].article
  <2>1. LeaseHeld(w) /\ SameGeneration(j)
    BY <1>3 DEF CommitSource, Publish, TransformHeld, Current, SameGeneration
  <2>2. worker[w].pc # "idle"
    BY <1>3 DEF CommitSource, Publish
  <2>3. a \in Articles /\ j \in Jobs /\ job[j].status = "processing" /\ article[a].job = j
    BY <2>1, <2>2, HeldType, HeldActive DEF SameGeneration
  <2>4. \E row : article' = [article EXCEPT ![a] = row]
    BY <1>3 DEF CommitSource, TakeKey, Reuse, Publish
  <2>5. \A i \in Jobs : article[a].job = i => ~Waits(job[i])
    BY <2>3 DEF Waits
  <2> QED BY <2>3, <2>4, <2>5, OthersArticle
<1>4. ASSUME NEW w \in Workers, Run(w) PROVE article' = article \/ CommitSource(w) \/ Publish(w)
  BY <1>4 DEF Run, Begin, Capture, Load, Normalize, Preserve, Park, Prepare, Dispatch, Model,
              Result, Reload, Validate, Record, Fail, RowsKept
<1>5. ASSUME NEW w \in Workers, Claim(w) \/ Heartbeat(w) \/ Crash(w) PROVE article' = article
  BY <1>5 DEF Claim, ClaimAutomatic, ClaimReview, ClaimConfiguration, PassResume, SweepExhausted,
              ClaimGeneric, NothingToClaim, UntouchedByClaims, Heartbeat, Crash, GiveUp, RowsKept
<1>6. ASSUME NEW r \in Reviewers, NEW j \in Jobs, Decide(r, j) PROVE article' = article
  BY <1>6 DEF Decide, Export, Approve, Reject, Correct, CorrectFailed, UntouchedByReviews
<1>7. ASSUME NEW j \in Jobs, LeaseTick(j) PROVE article' = article
  BY <1>7 DEF LeaseTick
<1> QED BY <1>1, <1>2, <1>3, <1>4, <1>5, <1>6, <1>7 DEF Next, vars

\* An attempt after a step belongs to a job that had one, or its worker prepares it.
NoNewcomer ==
    \A x \in attempts' : \/ \E y \in attempts : y.job = x.job
                        \/ \E w \in Workers : Prepare(w) /\ LeaseHeld(w) /\ x.job = worker[w].job

LEMMA NextAttempts == ASSUME TypeInv, [Next]_vars PROVE NoNewcomer
<1>1. ASSUME \A x \in attempts' : \E y \in attempts : y.job = x.job PROVE NoNewcomer
  BY <1>1 DEF NoNewcomer
<1>2. ASSUME UNCHANGED attempts PROVE NoNewcomer
  BY <1>1, <1>2
<1>3. ASSUME NEW j, attempts' = WithAmbiguous(j) PROVE NoNewcomer
  <2>1. \A x \in attempts' : \E y \in attempts : y.job = x.job
    BY <1>3 DEF WithAmbiguous, TypeInv, TypeOK, Attempt
  <2> QED BY <1>1, <2>1
<1>4. ASSUME NEW w \in Workers, Prepare(w) PROVE NoNewcomer
  <2>1. With(AttemptOf(w), "prepared").job = worker[w].job
    BY DEF AttemptOf, With
  <2>2. \/ UNCHANGED attempts
        \/ LeaseHeld(w) /\ attempts' = attempts \cup {With(AttemptOf(w), "prepared")}
    BY <1>4 DEF Prepare, TransformHeld
  <2> QED BY <1>2, <1>4, <2>1, <2>2 DEF NoNewcomer
<1>5. ASSUME NEW w \in Workers, Dispatch(w) \/ Result(w) PROVE NoNewcomer
  <2>1. ASSUME NEW x \in attempts, NEW y, y.job = x.job, attempts' = (attempts \ {x}) \cup {y}
        PROVE  NoNewcomer
    BY <1>1, <2>1
  <2>2. \A s : With(AttemptOf(w), s).job = worker[w].job
    BY DEF AttemptOf, With
  <2>3. CASE Dispatch(w)
    BY <1>2, <2>1, <2>2, <2>3 DEF Dispatch
  <2>4. CASE Result(w)
    <3> DEFINE d == With(AttemptOf(w), "dispatched")
    <3>1. \A s : With(d, s).job = d.job
      BY DEF With
    <3>2. \/ UNCHANGED attempts
          \/ d \in attempts /\ \E s : attempts' = (attempts \ {d}) \cup {With(d, s)}
      BY <2>4 DEF Result, StoreResult
    <3> QED BY <1>2, <2>1, <3>1, <3>2
  <2> QED BY <1>5, <2>3, <2>4
<1>6. ASSUME NEW w \in Workers, Record(w) PROVE NoNewcomer
  <2>1. \A x \in attempts' : \E y \in attempts : y.job = x.job
    BY <1>6 DEF Record, TypeInv, TypeOK, Attempt
  <2> QED BY <1>1, <2>1
<1>7. ASSUME NEW w \in Workers, Claim(w)
      PROVE  UNCHANGED attempts \/ \E j \in Jobs \cup {None} : attempts' = WithAmbiguous(j)
  BY <1>7 DEF Claim, ClaimAutomatic, ClaimReview, ClaimConfiguration, PassResume, SweepExhausted,
              ClaimGeneric, NothingToClaim, TypeInv, TypeOK, WorkerRow
<1>8. ASSUME NEW w \in Workers, Run(w)
      PROVE  UNCHANGED attempts \/ Prepare(w) \/ Dispatch(w) \/ Result(w) \/ Record(w)
  BY <1>8 DEF Run, Begin, Capture, CommitSource, Load, Normalize, Preserve, Park, Model,
              Reload, Validate, Publish, Fail, RowsKept
<1>9. ASSUME NEW w \in Workers, Heartbeat(w) \/ Crash(w) PROVE UNCHANGED attempts
  BY <1>9 DEF Heartbeat, Crash, GiveUp, RowsKept
<1>10. ASSUME NEW a \in Articles, Request(a) PROVE UNCHANGED attempts
  BY <1>10 DEF Request, EnsureJob, RefreshJob, Reproject, UntouchedByRequests
<1>11. ASSUME NEW r \in Reviewers, NEW j \in Jobs, Decide(r, j) PROVE UNCHANGED attempts
  BY <1>11 DEF Decide, Export, Approve, Reject, Correct, CorrectFailed, UntouchedByReviews
<1>12. ASSUME NEW j \in Jobs, LeaseTick(j) PROVE UNCHANGED attempts
  BY <1>12 DEF LeaseTick
<1> QED BY <1>2, <1>3, <1>4, <1>5, <1>6, <1>7, <1>8, <1>9, <1>10, <1>11, <1>12 DEF Next, vars

LEMMA NextAttemptsWait == ASSUME TypeInv, [Next]_vars PROVE AttemptsWait
<1>1. ASSUME NEW w \in Workers, Prepare(w), LeaseHeld(w)
      PROVE  ~Waits(job[worker[w].job])
  BY <1>1 DEF LeaseHeld, Waits
<1> QED BY <1>1, NextAttempts DEF NoNewcomer, AttemptsWait, AttemptsOf

ParkingInv == TypeInv /\ ActiveIsCurrent /\ WalkInv /\ ParkedCanResume

\* What a waiting job stays: resumable.
LEMMA StaysResumable ==
    ASSUME TypeInv, NEW i \in Jobs, Waits(job[i]), AwaitingModel(i), ArticlesWait, AttemptsWait,
           job'[i] = job[i]
    PROVE  AwaitingModel(i)'
<1>1. Asked(article'[job[i].article]) = Asked(article[job[i].article])
  BY DEF ArticlesWait
<1>2. AttemptsOf(i)' = {}
  BY DEF AwaitingModel, AttemptsWait
<1>3. Current(i)'
  BY <1>1 DEF AwaitingModel, Current, Asked
<1> QED BY <1>2, <1>3 DEF AwaitingModel

LEMMA ParkStarts ==
    ASSUME TypeInv, WalkInv, NEW w \in Workers, Parks(w), NEW j \in Jobs, worker[w].job = j,
           Waits(job'[j])
    PROVE  AwaitingModel(j)'
<1>1. /\ Current(j) /\ MayPark(j) /\ worker[w].pc = "park"
      /\ UNCHANGED <<article, attempts>>
  BY DEF Parks, TransformHeld
<1>2. job[j].source # None /\ job[j].profile = "auto"
  BY <1>1 DEF WalkInv, Fits
<1>3. /\ job'[j].article = job[j].article /\ job'[j].generation = job[j].generation
      /\ job'[j].profile = job[j].profile /\ job'[j].source = job[j].source
      /\ job'[j].normalized = job[j].normalized
  BY ParkLasts
<1>4. Current(j)'
  BY <1>1, <1>3 DEF Current
<1>5. AttemptsOf(j)' = {}
  BY <1>1 DEF MayPark, AttemptsOf
<1> QED BY <1>1, <1>2, <1>3, <1>4, <1>5 DEF AwaitingModel, MayPark, Waits

LEMMA ParkingNext == ParkingInv /\ [Next]_vars => ParkingInv'
<1> SUFFICES ASSUME ParkingInv, [Next]_vars PROVE ParkingInv'
  OBVIOUS
<1>0. TypeInv /\ ActiveIsCurrent /\ WalkInv /\ ParkedCanResume
  BY DEF ParkingInv
<1>1. TypeInv' /\ ActiveIsCurrent' /\ WalkInv'
  BY <1>0, NextType, NextKind, OneActiveStep, WalkNext
<1>2. ArticlesWait /\ AttemptsWait
  BY <1>0, NextArticlesWait, NextAttemptsWait
<1>3. ASSUME NEW i \in Jobs, Waits(job'[i]), job'[i] = job[i] PROVE AwaitingModel(i)'
  <2>1. Waits(job[i]) /\ AwaitingModel(i)
    BY <1>0, <1>3 DEF Waits, ParkedCanResume
  <2> QED BY <1>0, <1>2, <1>3, <2>1, StaysResumable
<1>4. ASSUME NEW i \in Jobs, Waits(job'[i]) PROVE AwaitingModel(i)'
  <2>1. CASE JobsGo
    BY <1>3, <1>4, <2>1 DEF JobsGo, RowGoes
  <2>2. ASSUME NEW w \in Workers, Parks(w) PROVE AwaitingModel(i)'
    <3>1. CASE i = worker[w].job
      BY <1>0, <1>4, <2>2, <3>1, ParkStarts
    <3>2. CASE i # worker[w].job
      BY <1>0, <1>3, <1>4, <2>2, <3>2, ParkLasts
    <3> QED BY <3>1, <3>2
  <2> QED BY <1>0, <2>1, <2>2, NextGoes
<1>5. ParkedCanResume'
  BY <1>4 DEF ParkedCanResume, Waits
<1> QED BY <1>1, <1>5 DEF ParkingInv

LEMMA ParkingInit == Init => ParkingInv
<1> SUFFICES ASSUME Init PROVE ParkingInv
  OBVIOUS
<1>1. \A i \in Jobs : job[i].status = "absent"
  BY DEF Init, AbsentJob
<1>2. WalkInv /\ ParkedCanResume
  BY <1>1 DEF Init, WalkInv, Fits, IdleWorker, ParkedCanResume
<1> QED BY <1>2, InitType, InitActive DEF ParkingInv

\* Whatever requests, reviews and other workers do meanwhile, a job that waits for the model
\* to be configured stays what its resume looks for (source_job_persistence.py:225-265).
THEOREM ParkedStaysResumable == Spec => []ParkedCanResume
<1>1. ParkingInv => ParkedCanResume
  BY DEF ParkingInv
<1> QED BY <1>1, ParkingInit, ParkingNext, PTL DEF Spec

(***************************************************************************)
(* Fencing.  Every transaction of a worker asks for its lease, and no step *)
(* but a worker's own changes what that worker holds.                      *)
(***************************************************************************)
LEMMA AloneMoves ==
    ASSUME TypeInv, NEW w \in Workers, NEW row, worker' = [worker EXCEPT ![w] = row]
    PROVE  Alone(w)
BY DEF Alone, TypeInv, TypeOK

LEMMA StaysAlone ==
    ASSUME TypeInv, NEW w \in Workers,
           Leave(w) \/ (\E pc : Goto(w, pc)) \/ (\E pc, f : FailWith(w, pc, f))
    PROVE  Alone(w)
BY AloneMoves DEF Leave, Goto, FailWith

LEMMA RunAlone == ASSUME TypeInv, NEW w \in Workers, Run(w) PROVE Alone(w)
<1>1. CASE Capture(w) \/ Model(w)
  <2>1. CASE \E row : worker' = [worker EXCEPT ![w] = row]
    BY <2>1, AloneMoves
  <2>2. CASE Leave(w) \/ \E pc, f : FailWith(w, pc, f)
    BY <2>2, StaysAlone
  <2> QED BY <1>1, <2>1, <2>2 DEF Capture, Model
<1>2. CASE CommitSource(w)
  BY <1>2, StaysAlone DEF CommitSource, TakeKey, Reuse
<1>3. CASE Normalize(w) \/ Preserve(w) \/ Park(w) \/ Begin(w) \/ Load(w)
  BY <1>3, StaysAlone DEF Normalize, Preserve, Park, Begin, Load
<1>4. CASE Prepare(w) \/ Dispatch(w) \/ Result(w) \/ Reload(w)
  BY <1>4, StaysAlone DEF Prepare, Dispatch, Result, StoreResult, Reload
<1>5. CASE Validate(w) \/ Publish(w) \/ Record(w) \/ Fail(w)
  BY <1>5, StaysAlone DEF Validate, Publish, Record, Fail
<1> QED BY <1>1, <1>2, <1>3, <1>4, <1>5 DEF Run

LEMMA ClaimAlone ==
    ASSUME TypeInv, NEW w \in Workers, Claim(w)
    PROVE  worker[w].pc \in {"idle", "sweep"} /\ Alone(w)
<1>1. ASSUME UNCHANGED worker PROVE Alone(w)
  BY <1>1 DEF Alone
<1>2. ASSUME Leave(w) \/ \E j, ready : Poll(w, j, ready) PROVE Alone(w)
  BY <1>2, StaysAlone, AloneMoves DEF Poll
<1>3. ASSUME NEW j \in Jobs, NEW ready \in BOOLEAN, PassResume(w, j, ready) PROVE Alone(w)
  BY <1>3, AloneMoves DEF PassResume
<1>4. worker[w].job \in Jobs \cup {None}
  BY DEF TypeInv, TypeOK, WorkerRow
<1>5. worker[w].pc \in {"idle", "sweep"}
  BY DEF Claim, ClaimAutomatic, ClaimReview, ClaimConfiguration, PassResume, SweepExhausted,
         ClaimGeneric, NothingToClaim
<1>6. ASSUME ~ \E j \in Jobs, ready \in BOOLEAN : PassResume(w, j, ready) PROVE Alone(w)
  BY <1>1, <1>2, <1>4, <1>6
  DEF Claim, ClaimAutomatic, ClaimReview, ClaimConfiguration, SweepExhausted, ClaimGeneric,
      NothingToClaim
<1> QED BY <1>3, <1>5, <1>6

LEMMA UnheldRun == ASSUME NEW w \in Workers, Run(w), ~LeaseHeld(w) PROVE UNCHANGED rows
<1>1. ~TransformHeld(w)
  BY DEF TransformHeld
<1>2. CASE Begin(w) \/ Capture(w) \/ Load(w) \/ Model(w) \/ Reload(w)
  BY <1>2 DEF Begin, Capture, Load, Model, Reload, RowsKept, rows
<1>3. CASE CommitSource(w)
  BY <1>3 DEF CommitSource, rows
<1>4. CASE Normalize(w) \/ Preserve(w) \/ Park(w)
  BY <1>1, <1>4 DEF Normalize, Preserve, Park, rows
<1>5. CASE Prepare(w) \/ Dispatch(w) \/ Result(w)
  BY <1>1, <1>5 DEF Prepare, Dispatch, Result, rows
<1>6. CASE Validate(w) \/ Publish(w) \/ Record(w) \/ Fail(w)
  BY <1>1, <1>6 DEF Validate, Publish, Record, Fail, rows
<1> QED BY <1>2, <1>3, <1>4, <1>5, <1>6 DEF Run

\* A worker that lost its lease, wherever it was then, changes no row any more
\* (source_job_persistence.py:499-506).
THEOREM StaleWritesNothing == Spec => StaleWorkerWritesNothing
<1> DEFINE Fenced == \A w \in Workers :
        worker[w].pc \notin {"idle", "sweep"} /\ worker'[w] # worker[w] /\ ~LeaseHeld(w)
            => UNCHANGED rows
<1>1. TypeInv /\ [Next]_vars => Fenced
  <2> SUFFICES ASSUME TypeInv, [Next]_vars, NEW w \in Workers,
                      worker[w].pc \notin {"idle", "sweep"}, worker'[w] # worker[w],
                      ~LeaseHeld(w)
               PROVE  UNCHANGED rows
    OBVIOUS
  <2>1. ASSUME NEW v \in Workers, Run(v) PROVE UNCHANGED rows
    BY <2>1, RunAlone, UnheldRun DEF Alone
  <2>2. ASSUME NEW v \in Workers, Claim(v) PROVE FALSE
    BY <2>2, ClaimAlone DEF Alone
  <2>3. ASSUME NEW v \in Workers, Crash(v) PROVE UNCHANGED rows
    BY <2>3 DEF Crash, GiveUp, RowsKept, rows
  <2>4. worker' # worker
    OBVIOUS
  <2> QED BY <2>1, <2>2, <2>3, <2>4
          DEF Next, vars, Request, EnsureJob, RefreshJob, Reproject, UntouchedByRequests,
              Heartbeat, LeaseTick, Decide, Export, Approve, Reject, Correct, CorrectFailed,
              UntouchedByReviews
<1>2. TypeInv /\ [Next]_vars => [Fenced]_vars
  BY <1>1
<1> QED BY <1>2, TypeInvariant, PTL DEF Spec, StaleWorkerWritesNothing

(***************************************************************************)
(* Keys, sources and leases in a step in which `mover' acts (None: nobody  *)
(* that may take a lease).  Only a capture changes a row's key or source.  *)
(***************************************************************************)
RowKeeps(mover, old, new) ==
    /\ old.status = "completed" => new = old
    /\ \/ old.status = "absent" /\ new.key = None
       \/ new.key = old.key /\ new.source = old.source /\ new.article = old.article
    /\ new.status = "processing" =>
         \/ new.owner = mover
         \/ /\ old.status = "processing" /\ new.owner = old.owner /\ new.token = old.token
            /\ new.lease > 0 => old.lease > 0

JobsKeep(mover) == \A i \in Jobs : RowKeeps(mover, job[i], job'[i])

LEMMA StillKeeps == ASSUME UNCHANGED job, NEW mover PROVE JobsKeep(mover)
BY DEF JobsKeep, RowKeeps

LEMMA OneKeeps ==
    ASSUME TypeInv, NEW j \in Jobs, NEW row, NEW mover, job' = [job EXCEPT ![j] = row],
           RowKeeps(mover, job[j], row)
    PROVE  JobsKeep(mover)
<1>1. job'[j] = row /\ \A i \in Jobs \ {j} : job'[i] = job[i]
  BY DEF TypeInv, TypeOK
<1> QED BY <1>1 DEF JobsKeep, RowKeeps

LEMMA RequestKeeps == ASSUME TypeInv, NEW a \in Articles, Request(a) PROVE JobsKeep(None)
<1>0. FreshJob(a) \in JobRow /\ FreshJob(a).status = "pending" /\ FreshJob(a).key = None
  BY FreshJobType DEF FreshJob, AbsentJob
<1>1. ASSUME NEW j \in Jobs, NEW row, job[j].status = "absent", row.key = None,
             row.status # "processing", job' = [job EXCEPT ![j] = row]
      PROVE  JobsKeep(None)
  <2>1. RowKeeps(None, job[j], row)
    BY <1>1 DEF RowKeeps
  <2> QED BY <1>1, <2>1, OneKeeps
<1>2. CASE EnsureJob(a)
  BY <1>0, <1>1, <1>2 DEF EnsureJob
<1>3. ASSUME NEW p \in Profiles, RefreshJob(a, p) PROVE JobsKeep(None)
  <2> DEFINE row == [FreshJob(a) EXCEPT !.generation = article[a].generation + 1, !.profile = p]
  <2>1. row.status # "processing" /\ row.key = None
    BY <1>0 DEF JobRow
  <2>2. \E j \in Jobs : job[j].status = "absent" /\ job' = [job EXCEPT ![j] = row]
    BY <1>3 DEF RefreshJob
  <2> HIDE DEF row
  <2> QED BY <1>1, <2>1, <2>2
<1>4. CASE Reproject(a)
  <2> DEFINE row == [FreshJob(a) EXCEPT
                       !.generation = article[a].generation + 1,
                       !.status = "needs_review", !.phase = "completed",
                       !.error = "SOURCE_ONLY_REPROJECTION",
                       !.retry = 1, !.token = 1,
                       !.source = [article[a].source EXCEPT !.projection = 2]]
  <2>1. row.status # "processing" /\ row.key = None
    BY <1>0 DEF JobRow
  <2>2. \E j \in Jobs : job[j].status = "absent" /\ job' = [job EXCEPT ![j] = row]
    BY <1>4 DEF Reproject
  <2> HIDE DEF row
  <2> QED BY <1>1, <2>1, <2>2
<1> QED BY <1>2, <1>3, <1>4 DEF Request

LEMMA ClaimKeeps == ASSUME TypeInv, NEW w \in Workers, Claim(w) PROVE JobsKeep(w)
<1> DEFINE Free(j) == job[j].status \in {"pending", "processing", "failed", "dead_letter"}
<1>1. ASSUME NEW j \in Jobs, NEW p \in Phase, Free(j),
             job' = [job EXCEPT ![j] = [ClaimedBy(w, @) EXCEPT !.phase = p, !.error = "none"]]
      PROVE  JobsKeep(w)
  <2> DEFINE row == [ClaimedBy(w, job[j]) EXCEPT !.phase = p, !.error = "none"]
  <2>1. job[j] \in JobRow /\ job' = [job EXCEPT ![j] = row]
    BY <1>1 DEF TypeInv, TypeOK
  <2>2. RowKeeps(w, job[j], row)
    BY <1>1, <2>1 DEF ClaimedBy, RowKeeps, JobRow
  <2> HIDE DEF row
  <2> QED BY <2>1, <2>2, OneKeeps
<1>2. ASSUME NEW j \in Jobs, NEW s \in {"dead_letter", "needs_review"}, NEW e, NEW v, Free(j),
             \/ job' = [job EXCEPT ![j] = [Released(@) EXCEPT !.status = s, !.error = e]]
             \/ job' = [job EXCEPT ![j] = [Released(@) EXCEPT !.status = s, !.error = e,
                                                              !.review = v]]
      PROVE  JobsKeep(w)
  <2>0. job[j] \in JobRow
    BY DEF TypeInv, TypeOK
  <2> DEFINE row == [Released(job[j]) EXCEPT !.status = s, !.error = e]
             reviewed == [Released(job[j]) EXCEPT !.status = s, !.error = e, !.review = v]
  <2>1. job' = [job EXCEPT ![j] = row] \/ job' = [job EXCEPT ![j] = reviewed]
    BY <1>2 DEF TypeInv, TypeOK
  <2>2. RowKeeps(w, job[j], row) /\ RowKeeps(w, job[j], reviewed)
    BY <1>2, <2>0 DEF Released, RowKeeps, JobRow
  <2> HIDE DEF row, reviewed
  <2> QED BY <2>1, <2>2, OneKeeps
<1>3. {"validating", "publishing", "rewriting"} \subseteq Phase
  BY DEF Phase
<1>4. ASSUME NEW j \in Jobs, NEW ready \in BOOLEAN,
             ClaimAutomatic(w, j, ready) \/ ClaimReview(w, j, ready)
      PROVE  JobsKeep(w)
  <2>1. Free(j)
    BY <1>4 DEF ClaimAutomatic, ClaimReview, Resumable, Expired
  <2> HIDE DEF Free
  <2> QED BY <1>1, <1>2, <1>3, <1>4, <2>1 DEF ClaimAutomatic, ClaimReview
<1>5. ASSUME NEW j \in Jobs, ClaimConfiguration(w, j) PROVE JobsKeep(w)
  <2>1. Free(j)
    BY <1>5 DEF ClaimConfiguration, AwaitingModel
  <2> HIDE DEF Free
  <2> QED BY <1>1, <1>3, <1>5, <2>1 DEF ClaimConfiguration
<1>6. ASSUME SweepExhausted(w) PROVE JobsKeep(w)
  <2>1. worker[w].job \in Jobs /\ Free(worker[w].job)
    BY <1>6, HeldType DEF SweepExhausted, Exhausted, Expired
  <2> HIDE DEF Free
  <2> QED BY <1>2, <1>6, <2>1 DEF SweepExhausted
<1>7. ASSUME ClaimGeneric(w) PROVE JobsKeep(w)
  <2> DEFINE j == worker[w].job
             row == [ClaimedBy(w, job[j]) EXCEPT !.retry = NextAttempt(j), !.phase = NextPhase(j)]
  <2>1. j \in Jobs /\ job[j] \in JobRow /\ Free(j)
    BY <1>7, HeldType DEF ClaimGeneric, Claimable, Expired
  <2>2. job' = [job EXCEPT ![j] = row]
    BY <1>7, <2>1 DEF ClaimGeneric, TypeInv, TypeOK
  <2>3. RowKeeps(w, job[j], row)
    BY <2>1 DEF ClaimedBy, RowKeeps, JobRow
  <2> HIDE DEF j, row
  <2> QED BY <2>1, <2>2, <2>3, OneKeeps
<1>8. ASSUME UNCHANGED job PROVE JobsKeep(w)
  BY <1>8, StillKeeps
<1> QED BY <1>4, <1>5, <1>6, <1>7, <1>8 DEF Claim, PassResume, NothingToClaim

\* A row its holder writes, without taking the lease again.
InPlace(old, new) ==
    /\ new.key = old.key /\ new.source = old.source /\ new.article = old.article
    /\ new.status = "processing" =>
         new.owner = old.owner /\ new.token = old.token /\ new.lease = old.lease

LEMMA HeldKeeps ==
    ASSUME TypeInv, NEW w \in Workers, worker[w].pc # "idle",
           NEW row, job' = [job EXCEPT ![worker[w].job] = row],
           job' # job => LeaseHeld(w), InPlace(job[worker[w].job], row)
    PROVE  JobsKeep(w)
<1> DEFINE j == worker[w].job
<1>1. j \in Jobs
  BY HeldType
<1>2. CASE job' = job
  BY <1>2, StillKeeps
<1>3. CASE job' # job
  <2>1. job[j].status = "processing"
    BY <1>3 DEF LeaseHeld
  <2>2. RowKeeps(w, job[j], row)
    BY <2>1 DEF RowKeeps, InPlace
  <2> QED BY <1>1, <2>2, OneKeeps
<1> QED BY <1>2, <1>3

LEMMA DraftKeeps ==
    ASSUME TypeInv, NEW w \in Workers, Normalize(w) \/ Preserve(w) \/ Park(w) \/ Validate(w)
    PROVE  JobsKeep(w)
<1> DEFINE j == worker[w].job
           phased(p) == [job[j] EXCEPT !.phase = p]
           normal == [job[j] EXCEPT !.phase = "rewriting", !.normalized = TRUE]
           parked == [Released(job[j]) EXCEPT !.status = "failed",
                                              !.error = "MODEL_NOT_CONFIGURED"]
<1>1. worker[w].pc # "idle" /\ j \in Jobs /\ job[j] \in JobRow
  BY HeldType DEF Normalize, Preserve, Park, Validate
<1>2. CASE UNCHANGED job
  BY <1>2, StillKeeps
<1>3. CASE job' # job
  <2>1. LeaseHeld(w)
    BY <1>3 DEF Normalize, Preserve, Park, Validate, TransformHeld
  <2>2. PICK row \in {normal, phased("validating"), phased("publishing"), parked} :
            job' = [job EXCEPT ![j] = row]
    BY <1>1, <1>3 DEF Normalize, Preserve, Park, Validate, TypeInv, TypeOK
  <2>3. /\ InPlace(job[j], normal) /\ InPlace(job[j], parked)
        /\ InPlace(job[j], phased("validating")) /\ InPlace(job[j], phased("publishing"))
    BY <1>1 DEF Released, JobRow, InPlace
  <2> HIDE DEF normal, phased, parked
  <2> QED BY <1>1, <2>1, <2>2, <2>3, HeldKeeps
<1> QED BY <1>2, <1>3

LEMMA EndKeeps ==
    ASSUME TypeInv, NEW w \in Workers, Result(w) \/ Publish(w) \/ Fail(w)
    PROVE  JobsKeep(w)
<1> DEFINE j == worker[w].job
           saved == [job[j] EXCEPT !.phase = "validating", !.rewriteError = ErrorOf(worker[w].answer)]
           published == [Released(job[j]) EXCEPT !.status = "completed", !.phase = "completed",
                                                 !.error = "none"]
           failed(s, e) == [Released(job[j]) EXCEPT !.status = s, !.error = e]
<1>1. worker[w].pc # "idle" /\ j \in Jobs /\ job[j] \in JobRow
  BY HeldType DEF Result, Publish, Fail
<1>2. CASE UNCHANGED job
  BY <1>2, StillKeeps
<1>3. CASE job' # job
  <2>1. LeaseHeld(w)
    BY <1>3 DEF Result, Publish, Fail, TransformHeld
  <2>2. \/ job' = [job EXCEPT ![j] = saved]
        \/ job' = [job EXCEPT ![j] = AwaitReview(saved)]
        \/ job' = [job EXCEPT ![j] = published]
        \/ \E s \in {"failed", "dead_letter", "needs_review"} : \E e :
             job' = [job EXCEPT ![j] = failed(s, e)]
    <3>1. CASE Result(w)
      BY <1>3, <3>1 DEF Result, StoreResult
    <3>2. CASE Publish(w)
      BY <1>1, <1>3, <3>2 DEF Publish, TypeInv, TypeOK
    <3>3. CASE Fail(w)
      BY <1>1, <1>3, <3>3 DEF Fail, TypeInv, TypeOK
    <3> QED BY <3>1, <3>2, <3>3
  <2>3. /\ InPlace(job[j], saved) /\ InPlace(job[j], AwaitReview(saved))
        /\ InPlace(job[j], published)
        /\ \A s \in {"failed", "dead_letter", "needs_review"} : \A e : InPlace(job[j], failed(s, e))
    BY <1>1 DEF AwaitReview, Released, JobRow, InPlace
  <2> HIDE DEF saved, published, failed
  <2> QED BY <1>1, <2>1, <2>2, <2>3, HeldKeeps
<1> QED BY <1>2, <1>3

LEMMA BeatKeeps == ASSUME TypeInv, NEW w \in Workers, Heartbeat(w) PROVE JobsKeep(None)
<1> DEFINE j == worker[w].job
           beat == [job[j] EXCEPT !.lease = LeaseTerm]
<1>1. j \in Jobs /\ job[j] \in JobRow /\ job[j].status = "processing" /\ job[j].lease > 0
  BY HeldType DEF Heartbeat, LeaseHeld
<1>2. job' = [job EXCEPT ![j] = beat]
  BY <1>1 DEF Heartbeat, TypeInv, TypeOK
<1>3. RowKeeps(None, job[j], beat)
  BY <1>1 DEF RowKeeps, JobRow
<1> HIDE DEF beat
<1> QED BY <1>1, <1>2, <1>3, OneKeeps

LEMMA DecideKeeps ==
    ASSUME TypeInv, NEW r \in Reviewers, NEW j \in Jobs, Decide(r, j)
    PROVE  JobsKeep(None)
<1>1. job[j] \in JobRow
  BY DEF TypeInv, TypeOK
<1> DEFINE approved == [job[j] EXCEPT !.status = "pending", !.phase = "publishing",
                                      !.error = "none", !.review = "approved"]
           corrected == [WaitAgain(job[j]) EXCEPT !.rewriteError = "none"]
<1>2. CASE UNCHANGED job
  BY <1>2, StillKeeps
<1>3. CASE job' # job
  <2>1. job[j].status \in {"needs_review", "pending", "processing"}
    BY <1>3 DEF Decide, Export, Approve, Reject, Correct, CorrectFailed, Waiting, Resuming,
                FailedDraft
  <2>2. /\ RowKeeps(None, job[j], approved) /\ RowKeeps(None, job[j], WaitAgain(job[j]))
        /\ RowKeeps(None, job[j], corrected)
    BY <1>1, <2>1 DEF WaitAgain, Released, RowKeeps, JobRow
  <2>3. \/ job' = [job EXCEPT ![j] = approved]
        \/ job' = [job EXCEPT ![j] = WaitAgain(job[j])]
        \/ job' = [job EXCEPT ![j] = corrected]
    BY <1>3 DEF Decide, Export, Approve, Reject, Correct, CorrectFailed, TypeInv, TypeOK
  <2> HIDE DEF approved, corrected
  <2> QED BY <2>2, <2>3, OneKeeps
<1> QED BY <1>2, <1>3

LEMMA TickKeeps == ASSUME TypeInv, NEW j \in Jobs, LeaseTick(j) PROVE JobsKeep(None)
<1> DEFINE row == [job[j] EXCEPT !.lease = job[j].lease - 1]
<1>1. /\ job' = [job EXCEPT ![j] = row] /\ job[j] \in JobRow
      /\ job[j].status = "processing" /\ job[j].lease > 0
  BY DEF LeaseTick, TypeInv, TypeOK
<1>2. RowKeeps(None, job[j], row)
  BY <1>1 DEF RowKeeps, JobRow
<1> HIDE DEF row
<1> QED BY <1>1, <1>2, OneKeeps

\* Every step but a capture keeps keys and sources, and gives a lease only to its worker.
LEMMA NextKeeps ==
    ASSUME TypeInv, [Next]_vars
    PROVE  \/ UNCHANGED worker /\ JobsKeep(None)
           \/ \E w \in Workers : Claim(w) /\ JobsKeep(w)
           \/ \E w \in Workers : Run(w) /\ ~CommitSource(w) /\ JobsKeep(w)
           \/ \E w \in Workers : Crash(w) /\ JobsKeep(w)
           \/ \E w \in Workers : CommitSource(w)
<1>1. CASE UNCHANGED vars
  BY <1>1, StillKeeps DEF vars
<1>2. ASSUME NEW w \in Workers, Run(w) PROVE JobsKeep(w) \/ CommitSource(w)
  <2>1. CASE Normalize(w) \/ Preserve(w) \/ Park(w) \/ Validate(w)
    BY <2>1, DraftKeeps
  <2>2. CASE Result(w) \/ Publish(w) \/ Fail(w)
    BY <2>2, EndKeeps
  <2>3. CASE \/ Begin(w) \/ Capture(w) \/ Load(w) \/ Prepare(w) \/ Dispatch(w)
             \/ Model(w) \/ Reload(w) \/ Record(w)
    BY <2>3, StillKeeps
    DEF Begin, Capture, Load, Prepare, Dispatch, Model, Reload, Record, RowsKept
  <2> QED BY <1>2, <2>1, <2>2, <2>3 DEF Run
<1>3. ASSUME NEW w \in Workers, Claim(w) PROVE JobsKeep(w)
  BY <1>3, ClaimKeeps
<1>4. ASSUME NEW w \in Workers, Crash(w) PROVE JobsKeep(w)
  BY <1>4, StillKeeps DEF Crash, GiveUp, RowsKept
<1>5. ASSUME NEW w \in Workers, Heartbeat(w) PROVE UNCHANGED worker /\ JobsKeep(None)
  BY <1>5, BeatKeeps DEF Heartbeat
<1>6. ASSUME NEW a \in Articles, Request(a) PROVE UNCHANGED worker /\ JobsKeep(None)
  BY <1>6, RequestKeeps DEF Request, EnsureJob, RefreshJob, Reproject, UntouchedByRequests
<1>7. ASSUME NEW j \in Jobs, LeaseTick(j) PROVE UNCHANGED worker /\ JobsKeep(None)
  BY <1>7, TickKeeps DEF LeaseTick
<1>8. ASSUME NEW r \in Reviewers, NEW j \in Jobs, Decide(r, j)
      PROVE  UNCHANGED worker /\ JobsKeep(None)
  BY <1>8, DecideKeeps
  DEF Decide, Export, Approve, Reject, Correct, CorrectFailed, UntouchedByReviews
<1> QED BY <1>1, <1>2, <1>3, <1>4, <1>5, <1>6, <1>7, <1>8 DEF Next

(***************************************************************************)
(* The transformation keys.  A key has one owner, transforms the source    *)
(* and the article of its owner, and a job that is being captured has no   *)
(* source yet.                                                             *)
(***************************************************************************)
OneOwner ==
    \A i, j \in Jobs : job[i].key # None /\ job[i].key = job[j].key => i = j

KeyFits ==
    \A i \in Jobs : job[i].key # None =>
        job[i].key.article = job[i].article /\ job[i].key.source = job[i].source

Unfetched ==
    \A w \in Workers :
        worker[w].pc \in {"capture", "commit"} /\ LeaseHeld(w) => job[worker[w].job].source = None

KeysInv == OneOwner /\ KeyFits /\ Unfetched

\* A row that waits for a person, moved into another generation at most.
Adoptable(old, new) ==
    \/ new = old
    \/ /\ old.status = "needs_review" /\ new.status = "needs_review"
       /\ new.key = old.key /\ new.source = old.source /\ new.article = old.article

\* A capture as the rows see it: the job takes a free key, or inspects and leaves the key
\* to its owner.
Captures(w, j, a, s, k) ==
    /\ worker[w].pc = "commit" /\ worker[w].job = j /\ LeaseHeld(w)
    /\ a = job[j].article
    /\ k.article = a /\ k.source = s /\ k.profile = job[j].profile
    /\ Alone(w) /\ worker'[w].pc \in {"load", "idle"}
    /\ article'[a].source = s /\ article'[a].canonical = Canonical(k)
    /\ \A b \in Articles \ {a} : article'[b] = article[b]
    /\ job'[j].article = a /\ job'[j].source = s /\ job'[j].owner \in {w, None}
    /\ \/ OwnerOf(k) \subseteq {j} /\ job'[j].key = k
       \/ job'[j].key = job[j].key
    /\ \A i \in Jobs \ {j} : Adoptable(job[i], job'[i])
    /\ UNCHANGED <<revision, outbox>>

CapturesAny(w) ==
    \E j \in Jobs, a \in Articles, s \in Source, k \in Key : Captures(w, j, a, s, k)

LEMMA LeavePc == ASSUME TypeInv, NEW w \in Workers, Leave(w) PROVE worker'[w].pc = "idle"
BY DEF Leave, IdleWorker, TypeInv, TypeOK

LEMMA FailWithPc ==
    ASSUME TypeInv, NEW w \in Workers, NEW pc, NEW f, FailWith(w, pc, f)
    PROVE  worker'[w].pc = pc
<1> DEFINE row == [worker[w] EXCEPT !.pc = pc, !.failure = f]
<1>1. worker[w] \in WorkerRow /\ worker \in [Workers -> WorkerRow]
  BY DEF TypeInv, TypeOK
<1>2. row.pc = pc
  BY <1>1 DEF WorkerRow
<1>3. worker' = [worker EXCEPT ![w] = row]
  BY <1>1 DEF FailWith
<1> HIDE DEF row
<1> QED BY <1>1, <1>2, <1>3

LEMMA CommitCaptures ==
    ASSUME TypeInv, NEW w \in Workers, CommitSource(w)
    PROVE  \/ CapturesAny(w)
           \/ /\ UNCHANGED <<article, job, revision, outbox>> /\ Alone(w)
              /\ worker'[w].pc \in {"idle", "record"}
<1> DEFINE j == worker[w].job
           a == job[j].article
           s == worker[w].fetched
           k == KeyOf(j, s)
<1>0. worker[w].pc = "commit" /\ UNCHANGED <<revision, outbox>>
  BY DEF CommitSource
<1>1. /\ j \in Jobs /\ job[j] \in JobRow /\ a \in Articles /\ article[a] \in ArticleRow
      /\ s \in Source
  BY <1>0, HeldType DEF TypeInv, BusyRow
<1>2. k \in Key /\ k.article = a /\ k.source = s /\ k.profile = job[j].profile
  BY <1>1 DEF KeyOf, Key, JobRow
<1>3. ASSUME Leave(w) \/ FailWith(w, "record", "refused")
      PROVE  Alone(w) /\ worker'[w].pc \in {"idle", "record"}
  <2>1. worker'[w].pc \in {"idle", "record"}
    BY <1>3, LeavePc, FailWithPc
  <2> QED BY <1>3, <2>1, StaysAlone
<1>4. ASSUME LeaseHeld(w), OwnerOf(k) \subseteq {j}, TakeKey(w, j, a, s, k)
      PROVE  Captures(w, j, a, s, k)
  <2> DEFINE row == [job[j] EXCEPT !.source = s, !.key = k, !.phase = "normalizing"]
             arow == [article[a] EXCEPT !.source = s, !.canonical = Canonical(k)]
  <2>1. job' = [job EXCEPT ![j] = row] /\ article' = [article EXCEPT ![a] = arow]
    BY <1>1, <1>4 DEF TakeKey, TypeInv, TypeOK
  <2>2. row.article = a /\ row.key = k /\ row.source = s /\ row.owner = w
    BY <1>1, <1>4 DEF JobRow, LeaseHeld
  <2>3. arow.source = s /\ arow.canonical = Canonical(k)
    BY <1>1 DEF ArticleRow
  <2>4. Alone(w) /\ worker'[w].pc = "load"
    BY <1>4, GotoMoves DEF TakeKey
  <2>5. worker[w].job = j /\ a = job[j].article
    OBVIOUS
  <2> HIDE DEF row, arow, k, s, a, j
  <2>6. job'[j] = row /\ \A i \in Jobs \ {j} : job'[i] = job[i]
    BY <1>1, <2>1 DEF TypeInv, TypeOK
  <2>7. article'[a] = arow /\ \A b \in Articles \ {a} : article'[b] = article[b]
    BY <1>1, <2>1 DEF TypeInv, TypeOK
  <2> QED BY <1>0, <1>2, <1>4, <2>2, <2>3, <2>4, <2>5, <2>6, <2>7 DEF Captures, Adoptable
<1>5. ASSUME LeaseHeld(w), NEW o \in OwnerOf(k) \ {j}, Reuse(w, j, a, s, k, o)
      PROVE  Captures(w, j, a, s, k)
  <2> DEFINE done == [Released(job[j]) EXCEPT !.source = s, !.status = "completed",
                                              !.phase = "completed"]
             inspected == [job EXCEPT ![j] = done]
             moved == [job[o] EXCEPT !.generation = AdoptedGeneration(j),
                                     !.review = "awaiting_review"]
             adopted == TerminalOwner(o, k) /\ Adopts(o, k)
             arow == [article[a] EXCEPT
                 !.source = s, !.canonical = Canonical(k),
                 !.job = IF TerminalOwner(o, k) THEN o ELSE article[a].job,
                 !.generation = IF adopted THEN AdoptedGeneration(j) ELSE article[a].generation]
  <2>1. o \in Jobs /\ o # j /\ job[o] \in JobRow
    BY <1>5 DEF OwnerOf, TypeInv, TypeOK
  <2>2. done.article = a /\ done.key = job[j].key /\ done.source = s /\ done.owner = None
    BY <1>1 DEF Released, JobRow
  <2>3. adopted => Adoptable(job[o], moved)
    BY <2>1 DEF Adopts, Adoptable, JobRow
  <2>4. job' = IF adopted THEN [inspected EXCEPT ![o] = moved] ELSE inspected
    BY <1>1, <1>5, <2>1 DEF Reuse, TypeInv, TypeOK
  <2>5. article' = [article EXCEPT ![a] = arow]
    BY <1>1, <1>5 DEF Reuse, TypeInv, TypeOK
  <2>6. arow.source = s /\ arow.canonical = Canonical(k)
    BY <1>1 DEF ArticleRow
  <2>7. Alone(w) /\ worker'[w].pc = "idle"
    BY <1>5, StaysAlone DEF Reuse, Leave, IdleWorker, TypeInv, TypeOK
  <2>8. worker[w].job = j /\ a = job[j].article
    OBVIOUS
  <2> HIDE DEF done, moved, adopted, arow, k, s, a, j
  <2>9. /\ job'[j] = done
        /\ job'[o] = IF adopted THEN moved ELSE job[o]
        /\ \A i \in Jobs \ {j, o} : job'[i] = job[i]
    BY <1>1, <2>1, <2>4 DEF TypeInv, TypeOK
  <2>10. \A i \in Jobs \ {j} : Adoptable(job[i], job'[i])
    BY <2>3, <2>9 DEF Adoptable
  <2>11. article'[a] = arow /\ \A b \in Articles \ {a} : article'[b] = article[b]
    BY <1>1, <2>5 DEF TypeInv, TypeOK
  <2> QED BY <1>0, <1>2, <1>5, <2>2, <2>6, <2>7, <2>8, <2>9, <2>10, <2>11 DEF Captures
<1>6. \/ UNCHANGED <<article, job>> /\ (Leave(w) \/ FailWith(w, "record", "refused"))
      \/ LeaseHeld(w) /\ OwnerOf(k) \subseteq {j} /\ TakeKey(w, j, a, s, k)
      \/ LeaseHeld(w) /\ \E o \in OwnerOf(k) \ {j} : Reuse(w, j, a, s, k, o)
  BY DEF CommitSource
<1> HIDE DEF k, s, a, j
<1> QED BY <1>0, <1>1, <1>2, <1>3, <1>4, <1>5, <1>6 DEF CapturesAny

\* Where no capture happens, rows keep keys and sources and no worker gains a lease but by
\* its own claim.
LEMMA KeptKeys ==
    ASSUME TypeInv, KeysInv, NEW mover, JobsKeep(mover),
           \A v \in Workers \ {mover} : worker'[v] = worker[v],
           mover \in Workers =>
               \/ worker'[mover].pc \notin {"capture", "commit"}
               \/ UNCHANGED job /\ worker[mover].pc \in {"begin", "capture"}
                  /\ (LeaseHeld(mover)' => job[worker'[mover].job].source = None)
    PROVE  KeysInv'
<1>1. OneOwner'
  BY DEF JobsKeep, RowKeeps, KeysInv, OneOwner
<1>2. KeyFits'
  BY DEF JobsKeep, RowKeeps, KeysInv, KeyFits
<1>3. ASSUME NEW v \in Workers, worker'[v].pc \in {"capture", "commit"}, LeaseHeld(v)'
      PROVE  job'[worker'[v].job].source = None
  <2>1. CASE v = mover
    BY <1>3, <2>1
  <2>2. CASE v # mover
    <3>1. worker'[v] = worker[v]
      BY <2>2
    <3> DEFINE j == worker[v].job
    <3>2. j \in Jobs /\ job'[j].status = "processing" /\ job'[j].owner = v
          /\ job'[j].token = worker[v].token /\ job'[j].lease > 0
      BY <1>3, <3>1, HeldType DEF LeaseHeld
    <3>3. RowKeeps(mover, job[j], job'[j])
      BY <3>2 DEF JobsKeep
    <3>4. LeaseHeld(v) /\ job[j].status = "processing"
      BY <2>2, <3>2, <3>3 DEF RowKeeps, LeaseHeld
    <3>5. job[j].source = None
      BY <1>3, <3>1, <3>4 DEF KeysInv, Unfetched
    <3> QED BY <3>1, <3>3, <3>4, <3>5 DEF RowKeeps
  <2> QED BY <2>1, <2>2
<1>4. Unfetched'
  BY <1>3 DEF Unfetched
<1> QED BY <1>1, <1>2, <1>4 DEF KeysInv

LEMMA CapturedKeys ==
    ASSUME TypeInv, KeysInv, NEW w \in Workers, NEW j \in Jobs, NEW a \in Articles,
           NEW s \in Source, NEW k \in Key, Captures(w, j, a, s, k)
    PROVE  KeysInv'
<1>0. s # None /\ k # None /\ w # None
  OBVIOUS
<1>1. job[j].key = None
  <2>1. job[j].source = None
    BY DEF Captures, KeysInv, Unfetched
  <2>2. job[j].key # None => job[j].key \in Key
    BY DEF TypeInv, TypeOK, JobRow
  <2>3. \A x \in Key : x.source # None
    BY DEF Key
  <2> QED BY <2>1, <2>2, <2>3 DEF KeysInv, KeyFits
<1>2. \A i \in Jobs \ {j} : /\ job'[i].key = job[i].key /\ job'[i].source = job[i].source
                            /\ job'[i].article = job[i].article
  BY DEF Captures, Adoptable
<1>3. \/ job'[j].key = None
      \/ job'[j].key = k /\ \A i \in Jobs \ {j} : job[i].key # k
  <2>1. \/ OwnerOf(k) \subseteq {j} /\ job'[j].key = k
        \/ job'[j].key = job[j].key
    BY DEF Captures
  <2>2. \A i \in Jobs : job[i].key = k => i \in OwnerOf(k)
    BY DEF OwnerOf
  <2> QED BY <1>1, <2>1, <2>2
<1>4. OneOwner'
  BY <1>0, <1>2, <1>3 DEF KeysInv, OneOwner
<1>5. KeyFits'
  BY <1>0, <1>2, <1>3 DEF KeysInv, KeyFits, Captures
<1>6. ASSUME NEW v \in Workers, worker'[v].pc \in {"capture", "commit"}, LeaseHeld(v)'
      PROVE  job'[worker'[v].job].source = None
  <2>1. v # w
    BY <1>6 DEF Captures
  <2>2. worker'[v] = worker[v]
    BY <2>1 DEF Captures, Alone
  <2> DEFINE i == worker[v].job
  <2>3. /\ i \in Jobs /\ job'[i].status = "processing" /\ job'[i].owner = v
        /\ job'[i].token = worker[v].token /\ job'[i].lease > 0
    BY <1>6, <2>2, HeldType DEF LeaseHeld
  <2>4. i # j
    BY <2>1, <2>3 DEF Captures
  <2>5. job'[i] = job[i]
    BY <2>3, <2>4 DEF Captures, Adoptable
  <2>6. LeaseHeld(v)
    BY <2>3, <2>5 DEF LeaseHeld
  <2> QED BY <1>6, <2>2, <2>5, <2>6 DEF KeysInv, Unfetched
<1>7. Unfetched'
  BY <1>6 DEF Unfetched
<1> QED BY <1>4, <1>5, <1>7 DEF KeysInv

\* What a step of a worker makes of its place.
LEMMA RunPc ==
    ASSUME TypeInv, KeysInv, NEW w \in Workers, Run(w), ~CommitSource(w)
    PROVE  \/ worker'[w].pc \notin {"capture", "commit"}
           \/ UNCHANGED job /\ worker[w].pc \in {"begin", "capture"}
              /\ (LeaseHeld(w)' => job[worker'[w].job].source = None)
<1> DEFINE Goal == \/ worker'[w].pc \notin {"capture", "commit"}
                   \/ UNCHANGED job /\ worker[w].pc \in {"begin", "capture"}
                      /\ (LeaseHeld(w)' => job[worker'[w].job].source = None)
<1>1. ASSUME \/ Leave(w)
             \/ \E pc \in Pc \ {"capture", "commit"} : Goto(w, pc)
             \/ \E pc \in {"record", "fail"}, f \in Failure : FailWith(w, pc, f)
      PROVE  Goal
  BY <1>1, LeavePc, GotoMoves, FailWithPc
<1>2. CASE Begin(w)
  <2>1. CASE Leave(w) \/ Goto(w, "load")
    BY <1>1, <2>1 DEF Pc
  <2>2. CASE Goto(w, "capture") /\ job[worker[w].job].source = None
    BY <1>2, <2>2, GotoMoves DEF Begin, RowsKept
  <2> QED BY <1>2, <2>1, <2>2 DEF Begin
<1>3. CASE Capture(w)
  <2>1. CASE Leave(w) \/ \E pc \in {"record", "fail"}, f \in Failure : FailWith(w, pc, f)
    BY <1>1, <2>1
  <2>2. CASE /\ LeaseHeld(w)
             /\ \E s \in Source :
                  worker' = [worker EXCEPT ![w] = [@ EXCEPT !.pc = "commit", !.fetched = s]]
    <3>1. worker'[w].job = worker[w].job
      BY <2>2 DEF TypeInv, TypeOK, WorkerRow
    <3>2. job[worker[w].job].source = None
      BY <1>3, <2>2 DEF Capture, KeysInv, Unfetched
    <3>3. UNCHANGED job /\ worker[w].pc = "capture"
      BY <1>3 DEF Capture, RowsKept
    <3> QED BY <3>1, <3>2, <3>3
  <2> QED BY <1>3, <2>1, <2>2 DEF Capture, Failure
<1>4. CASE Model(w)
  <2>1. CASE \E pc \in {"record", "fail"}, f \in Failure : FailWith(w, pc, f)
    BY <1>1, <2>1
  <2>2. CASE \E x \in {"sound", "mutation", "invalid"} :
                worker' = [worker EXCEPT ![w] = [@ EXCEPT !.pc = "result", !.answer = x]]
    <3>1. worker'[w].pc = "result"
      BY <2>2 DEF TypeInv, TypeOK, WorkerRow
    <3> QED BY <3>1
  <2> QED BY <1>4, <2>1, <2>2 DEF Model, Failure
<1>5. CASE \/ Load(w) \/ Normalize(w) \/ Preserve(w) \/ Park(w) \/ Prepare(w) \/ Dispatch(w)
           \/ Result(w) \/ Reload(w) \/ Validate(w) \/ Publish(w) \/ Record(w) \/ Fail(w)
  <2>1. \/ Leave(w)
        \/ \E pc \in Pc \ {"capture", "commit"} : Goto(w, pc)
        \/ \E pc \in {"record", "fail"}, f \in Failure : FailWith(w, pc, f)
    BY <1>5 DEF Load, Normalize, Preserve, Park, Prepare, Dispatch, Result, StoreResult, Reload,
                Validate, Publish, Record, Fail, Pc, Failure
  <2> QED BY <1>1, <2>1
<1> QED BY <1>2, <1>3, <1>4, <1>5 DEF Run

LEMMA ClaimPc ==
    ASSUME TypeInv, NEW w \in Workers, Claim(w)
    PROVE  worker'[w].pc \in {"idle", "sweep", "begin"}
<1>1. CASE UNCHANGED worker
  BY <1>1, ClaimAlone
<1>2. CASE Leave(w)
  BY <1>2, LeavePc
<1>3. CASE \E j, ready : Poll(w, j, ready)
  <2>1. worker'[w].pc = "begin"
    BY <1>3 DEF Poll, IdleWorker, TypeInv, TypeOK
  <2> QED BY <2>1
<1>4. CASE \E j, ready : worker' = [worker EXCEPT ![w] = [IdleWorker EXCEPT
                             !.pc = "sweep", !.job = j, !.ready = ready]]
  <2>1. worker'[w].pc = "sweep"
    BY <1>4 DEF IdleWorker, TypeInv, TypeOK
  <2> QED BY <2>1
<1> QED BY <1>1, <1>2, <1>3, <1>4
        DEF Claim, ClaimAutomatic, ClaimReview, ClaimConfiguration, PassResume, SweepExhausted,
            ClaimGeneric, NothingToClaim

LEMMA KeysNext == ASSUME TypeInv, KeysInv, [Next]_vars PROVE KeysInv'
<1>1. CASE UNCHANGED worker /\ JobsKeep(None)
  BY <1>1, KeptKeys
<1>2. ASSUME NEW w \in Workers, Claim(w), JobsKeep(w) PROVE KeysInv'
  BY <1>2, ClaimAlone, ClaimPc, KeptKeys DEF Alone
<1>3. ASSUME NEW w \in Workers, Run(w), ~CommitSource(w), JobsKeep(w) PROVE KeysInv'
  BY <1>3, RunAlone, RunPc, KeptKeys DEF Alone
<1>4. ASSUME NEW w \in Workers, Crash(w), JobsKeep(w) PROVE KeysInv'
  <2>1. Alone(w) /\ worker'[w].pc = "idle"
    BY <1>4, StaysAlone, LeavePc DEF Crash, GiveUp
  <2> QED BY <1>4, <2>1, KeptKeys DEF Alone
<1>5. ASSUME NEW w \in Workers, CommitSource(w) PROVE KeysInv'
  <2>1. CASE CapturesAny(w)
    BY <2>1, CapturedKeys DEF CapturesAny
  <2>2. CASE UNCHANGED job /\ Alone(w) /\ worker'[w].pc \in {"idle", "record"}
    BY <2>2, StillKeeps, KeptKeys DEF Alone
  <2> QED BY <1>5, <2>1, <2>2, CommitCaptures
<1> QED BY <1>1, <1>2, <1>3, <1>4, <1>5, NextKeeps

LEMMA KeysInit == Init => KeysInv
BY DEF Init, KeysInv, OneOwner, KeyFits, Unfetched, AbsentJob, IdleWorker

(***************************************************************************)
(* Publications.  What a step does to the revisions, to the announcements  *)
(* and to what the articles show: a capture, a first publication, an       *)
(* operator's correction of the source, or work on drafts.                 *)
(***************************************************************************)
PublishedKept ==
    \A k \in Key : revision[k].status = "published" =>
        /\ revision[k].sound /\ k \in outbox
        /\ \E j \in Jobs : job[j].key = k /\ job[j].status = "completed"

AnnouncedKept == \A k \in outbox : revision[k].status = "published"

PublicationInv == KeysInv /\ PublishedKept /\ AnnouncedKept /\ CanonicalMatchesSource

Publishes(j, k) ==
    /\ job[j].key = k /\ job[j].status = "processing" /\ Current(j)
    /\ revision[k].status = "validated"
    /\ job[j].profile = "review" => FullyApproved(j)
    /\ revision'[k].status = "published" /\ revision'[k].sound
    /\ revision'[k].version = revision[k].version /\ review' = review
    /\ \A x \in Key \ {k} : revision'[x] = revision[x]
    /\ outbox' = outbox \cup {k}
    /\ job'[j].status = "completed" /\ job'[j].key = k
    /\ article'[job[j].article].canonical = k
    /\ article'[job[j].article].source = article[job[j].article].source
    /\ \A b \in Articles \ {job[j].article} : article'[b] = article[b]

DraftsOnly ==
    /\ outbox' = outbox
    /\ \A k \in Key : \/ revision'[k] = revision[k]
                      \/ /\ revision'[k].status # "published"
                         /\ \E j \in Jobs : job[j].key = k /\ job[j].status # "completed"

ShownStill ==
    \A a \in Articles : /\ article'[a].source = article[a].source
                        /\ article'[a].canonical = article[a].canonical

Corrected(a, s) ==
    /\ article'[a].source = s /\ article'[a].canonical = None
    /\ \A b \in Articles \ {a} : article'[b] = article[b]

ShownKind ==
    \/ \E w \in Workers : CapturesAny(w)
    \/ \E j \in Jobs, k \in Key : Publishes(j, k)
    \/ DraftsOnly /\ ShownStill
    \/ DraftsOnly /\ \E a \in Articles, s \in Source : Corrected(a, s)

LEMMA OneDraft ==
    ASSUME TypeInv, NEW j \in Jobs, NEW row, revision' = [revision EXCEPT ![job[j].key] = row],
           row.status # "published", job[j].status # "completed", UNCHANGED outbox
    PROVE  DraftsOnly
<1>1. \A k \in Key : revision'[k] = IF k = job[j].key THEN row ELSE revision[k]
  BY DEF TypeInv, TypeOK
<1> QED BY <1>1 DEF DraftsOnly

LEMMA NoDraft == ASSUME UNCHANGED <<revision, outbox>> PROVE DraftsOnly
BY DEF DraftsOnly

LEMMA KeyRow ==
    ASSUME TypeInv, NEW j \in Jobs, job[j].key # None
    PROVE  /\ job[j].key \in Key /\ revision[job[j].key] \in RevisionRow
           /\ job[j].key.source \in Source /\ job[j].key.article \in Articles
<1>1. job[j].key \in Key
  BY DEF TypeInv, TypeOK, JobRow
<1> QED BY <1>1 DEF TypeInv, TypeOK, Key

LEMMA RunShown ==
    ASSUME TypeInv, NEW w \in Workers, Run(w), ~CommitSource(w)
    PROVE  \/ \E j \in Jobs, k \in Key : Publishes(j, k)
           \/ DraftsOnly /\ UNCHANGED article
<1> DEFINE j == worker[w].job
           k == job[j].key
<1>0. worker[w].pc # "idle"
  BY DEF Run, Begin, Capture, Load, Normalize, Preserve, Park, Prepare, Dispatch,
         Model, Result, Reload, Validate, Publish, Record, Fail
<1>1. j \in Jobs /\ job[j] \in JobRow
  BY <1>0, HeldType
<1>2. ASSUME LeaseHeld(w) PROVE job[j].status = "processing"
  BY <1>2 DEF LeaseHeld
<1>3. CASE UNCHANGED <<article, revision, outbox>>
  BY <1>3, NoDraft
<1>4. CASE Preserve(w) /\ revision' # revision
  <2>1. LeaseHeld(w) /\ UNCHANGED <<article, outbox>>
        /\ revision' = [revision EXCEPT ![k] = Draft("building", TRUE, TRUE)]
    BY <1>4 DEF Preserve, TransformHeld
  <2>2. Draft("building", TRUE, TRUE).status = "building"
    BY DEF Draft
  <2> QED BY <1>1, <1>2, <2>1, <2>2, OneDraft
<1>5. CASE Result(w) /\ revision' # revision
  <2>1. LeaseHeld(w) /\ UNCHANGED <<article, outbox>>
    BY <1>5 DEF Result, StoreResult, TransformHeld
  <2>2. PICK s \in {"validated", "building"}, b \in BOOLEAN :
            revision' = [revision EXCEPT ![k] = Draft(s, b, FALSE)]
    BY <1>5 DEF Result, StoreResult
  <2> DEFINE row == Draft(s, b, FALSE)
  <2>3. row.status # "published"
    BY DEF Draft
  <2> HIDE DEF row
  <2>4. revision' = [revision EXCEPT ![k] = row]
    BY <2>2 DEF row
  <2> QED BY <1>1, <1>2, <2>1, <2>3, <2>4, OneDraft
<1>6. CASE Validate(w) /\ revision' # revision
  <2>1. LeaseHeld(w) /\ UNCHANGED <<article, outbox>>
        /\ \E s \in {"validated", "rejected"} :
             revision' = [revision EXCEPT ![k] = [@ EXCEPT !.status = s]]
    BY <1>6 DEF Validate, TransformHeld
  <2>2. k \in Key
    BY <1>6, <2>1 DEF TypeInv, TypeOK
  <2>3. revision[k] \in RevisionRow
    BY <2>2 DEF TypeInv, TypeOK
  <2>4. PICK s \in {"validated", "rejected"} :
            revision' = [revision EXCEPT ![k] = [revision[k] EXCEPT !.status = s]]
    BY <2>1, <2>2 DEF TypeInv, TypeOK
  <2>5. [revision[k] EXCEPT !.status = s].status = s
    BY <2>3 DEF RevisionRow
  <2> QED BY <1>1, <1>2, <2>1, <2>4, <2>5, OneDraft
<1>7. CASE Publish(w) /\ ~UNCHANGED <<article, revision, outbox>>
  <2> DEFINE row == [revision[k] EXCEPT !.status = "published"]
             a == job[j].article
             arow == [article[a] EXCEPT !.canonical = k]
             done == [Released(job[j]) EXCEPT !.status = "completed", !.phase = "completed",
                                              !.error = "none"]
  <2>1. LeaseHeld(w) /\ Current(j) /\ Publishable(j)
    BY <1>7 DEF Publish, TransformHeld
  <2>2. k \in Key /\ revision[k] \in RevisionRow
    BY <1>1, <2>1, KeyRow DEF Publishable, HasCandidate
  <2>3. /\ revision[k].status = "validated" /\ revision[k].sound
        /\ job[j].profile = "review" => FullyApproved(j)
    BY <2>1 DEF Publishable
  <2>4. a \in Articles /\ article[a] \in ArticleRow
    BY <1>0, HeldType
  <2>5. /\ revision' = [revision EXCEPT ![k] = row]
        /\ article' = [article EXCEPT ![a] = arow]
        /\ job' = [job EXCEPT ![j] = done] /\ outbox' = outbox \cup {k} /\ review' = review
    BY <1>1, <1>7, <2>1, <2>2, <2>4 DEF Publish, TypeInv, TypeOK
  <2>6. row.status = "published" /\ row.sound /\ row.version = revision[k].version
    BY <2>2, <2>3 DEF RevisionRow
  <2>7. arow.canonical = k /\ arow.source = article[a].source
    BY <2>4 DEF ArticleRow
  <2>8. done.status = "completed" /\ done.key = k
    BY <1>1 DEF Released, JobRow
  <2> HIDE DEF row, arow, done
  <2>9. revision'[k] = row /\ \A x \in Key \ {k} : revision'[x] = revision[x]
    BY <2>2, <2>5 DEF TypeInv, TypeOK
  <2>10. article'[a] = arow /\ \A b \in Articles \ {a} : article'[b] = article[b]
    BY <2>4, <2>5 DEF TypeInv, TypeOK
  <2>11. job'[j] = done
    BY <1>1, <2>5 DEF TypeInv, TypeOK
  <2>12. Publishes(j, k)
    BY <1>2, <2>1, <2>3, <2>5, <2>6, <2>7, <2>8, <2>9, <2>10, <2>11 DEF Publishes
  <2> QED BY <1>1, <2>2, <2>12
<1>8. \/ UNCHANGED <<article, revision, outbox>>
      \/ Preserve(w) /\ revision' # revision
      \/ Result(w) /\ revision' # revision
      \/ Validate(w) /\ revision' # revision
      \/ Publish(w) /\ ~UNCHANGED <<article, revision, outbox>>
  BY DEF Run, Begin, Capture, Load, Normalize, Preserve, Park, Prepare, Dispatch,
         Model, Result, Reload, Validate, Record, Fail, RowsKept
<1> QED BY <1>3, <1>4, <1>5, <1>6, <1>7, <1>8

LEMMA DecideDrafts ==
    ASSUME TypeInv, NEW r \in Reviewers, NEW j \in Jobs, Decide(r, j)
    PROVE  DraftsOnly /\ UNCHANGED article
<1> DEFINE k == job[j].key
           corrected == [revision[k] EXCEPT !.version = revision[k].version + 1]
           repaired == [revision[k] EXCEPT !.status = "validated", !.sound = TRUE,
                                           !.version = revision[k].version + 1]
<1>1. UNCHANGED <<article, outbox>>
  BY DEF Decide, Export, Approve, Reject, Correct, CorrectFailed, UntouchedByReviews
<1>2. CASE UNCHANGED revision
  BY <1>1, <1>2, NoDraft
<1>3. CASE revision' # revision
  <2>1. Correct(r, j) \/ CorrectFailed(r, j)
    BY <1>3 DEF Decide, Export, Approve, Reject
  <2>2. /\ job[j].status # "completed" /\ job[j].key # None
        /\ revision[k].status \in {"validated", "building"}
    BY <2>1 DEF Correct, CorrectFailed, Reviewable, FailedDraft, DraftCurrent, HasCandidate,
                Waiting, Resuming
  <2>3. k \in Key /\ revision[k] \in RevisionRow
    BY <2>2, KeyRow
  <2>4. revision' = [revision EXCEPT ![k] = corrected] \/ revision' = [revision EXCEPT ![k] = repaired]
    BY <2>1, <2>3 DEF Correct, CorrectFailed, TypeInv, TypeOK
  <2>5. corrected.status # "published" /\ repaired.status # "published"
    BY <2>2, <2>3 DEF RevisionRow
  <2> HIDE DEF corrected, repaired
  <2> QED BY <1>1, <2>2, <2>4, <2>5, OneDraft
<1> QED BY <1>2, <1>3

LEMMA RequestShown ==
    ASSUME TypeInv, NEW a \in Articles, Request(a)
    PROVE  DraftsOnly /\ (ShownStill \/ \E s \in Source : Corrected(a, s))
<1>0. article[a] \in ArticleRow
  BY DEF TypeInv, TypeOK
<1>1. DraftsOnly
  BY NoDraft DEF Request, EnsureJob, RefreshJob, Reproject, UntouchedByRequests
<1>2. ASSUME NEW row, article' = [article EXCEPT ![a] = row],
             row.source = article[a].source, row.canonical = article[a].canonical
      PROVE  ShownStill
  BY <1>2 DEF ShownStill, TypeInv, TypeOK
<1>3. CASE EnsureJob(a)
  <2>1. PICK j \in Jobs : article' = [article EXCEPT ![a] = [article[a] EXCEPT !.job = j]]
    BY <1>3 DEF EnsureJob, TypeInv, TypeOK
  <2> DEFINE row == [article[a] EXCEPT !.job = j]
  <2>2. row.source = article[a].source /\ row.canonical = article[a].canonical
    BY <1>0 DEF ArticleRow
  <2> HIDE DEF row
  <2>3. article' = [article EXCEPT ![a] = row]
    BY <2>1 DEF row
  <2> QED BY <1>1, <1>2, <2>2, <2>3
<1>4. ASSUME NEW p \in Profiles, RefreshJob(a, p) PROVE ShownStill
  <2>1. PICK j \in Jobs : article' = [article EXCEPT ![a] = [article[a] EXCEPT
                              !.job = j, !.profile = p, !.generation = article[a].generation + 1]]
    BY <1>4 DEF RefreshJob, TypeInv, TypeOK
  <2> DEFINE row == [article[a] EXCEPT !.job = j, !.profile = p,
                                       !.generation = article[a].generation + 1]
  <2>2. row.source = article[a].source /\ row.canonical = article[a].canonical
    BY <1>0 DEF ArticleRow
  <2>3. article' = [article EXCEPT ![a] = row]
    BY <2>1
  <2> HIDE DEF row
  <2> QED BY <1>2, <2>2, <2>3
<1>5. CASE Reproject(a)
  <2> DEFINE s == [article[a].source EXCEPT !.projection = 2]
  <2>1. s \in Source
    BY <1>0, <1>5 DEF Reproject, ArticleRow, Source
  <2>2. PICK j \in Jobs : article' = [article EXCEPT ![a] = [article[a] EXCEPT
                              !.job = j, !.generation = article[a].generation + 1,
                              !.source = s, !.canonical = None]]
    BY <1>5 DEF Reproject, TypeInv, TypeOK
  <2> DEFINE row == [article[a] EXCEPT !.job = j, !.generation = article[a].generation + 1,
                                       !.source = s, !.canonical = None]
  <2>3. article' = [article EXCEPT ![a] = row]
    BY <2>2
  <2> HIDE DEF s
  <2>4. row.source = s /\ row.canonical = None
    BY <1>0 DEF ArticleRow
  <2> HIDE DEF row
  <2>5. Corrected(a, s)
    BY <2>3, <2>4 DEF Corrected, TypeInv, TypeOK
  <2> QED BY <1>1, <2>1, <2>5
<1> QED BY <1>1, <1>3, <1>4, <1>5 DEF Request

LEMMA NextShown == ASSUME TypeInv, [Next]_vars PROVE ShownKind
<1>1. ASSUME UNCHANGED <<article, revision, outbox>> PROVE ShownKind
  BY <1>1, NoDraft DEF ShownKind, ShownStill
<1>2. ASSUME NEW w \in Workers, CommitSource(w) PROVE ShownKind
  BY <1>1, <1>2, CommitCaptures DEF ShownKind
<1>3. ASSUME DraftsOnly, UNCHANGED article PROVE ShownKind
  BY <1>3 DEF ShownKind, ShownStill
<1>4. ASSUME NEW w \in Workers, Run(w) PROVE ShownKind
  BY <1>2, <1>3, <1>4, RunShown DEF ShownKind
<1>5. ASSUME NEW w \in Workers, Claim(w) \/ Heartbeat(w) \/ Crash(w)
      PROVE  UNCHANGED <<article, revision, outbox>>
  BY <1>5 DEF Claim, ClaimAutomatic, ClaimReview, ClaimConfiguration, PassResume, SweepExhausted,
              ClaimGeneric, NothingToClaim, UntouchedByClaims, Heartbeat, Crash, GiveUp, RowsKept
<1>6. ASSUME NEW a \in Articles, Request(a) PROVE ShownKind
  BY <1>6, RequestShown DEF ShownKind
<1>7. ASSUME NEW r \in Reviewers, NEW j \in Jobs, Decide(r, j) PROVE ShownKind
  BY <1>3, <1>7, DecideDrafts
<1>8. ASSUME NEW j \in Jobs, LeaseTick(j) PROVE UNCHANGED <<article, revision, outbox>>
  BY <1>8 DEF LeaseTick
<1> QED BY <1>1, <1>4, <1>5, <1>6, <1>7, <1>8 DEF Next, vars
\* A completed job keeps its row.
LEMMA CompletedStays ==
    ASSUME TypeInv, [Next]_vars, NEW i \in Jobs, job[i].status = "completed"
    PROVE  job'[i] = job[i]
<1>1. ASSUME NEW mover, JobsKeep(mover) PROVE job'[i] = job[i]
  BY <1>1 DEF JobsKeep, RowKeeps
<1>2. ASSUME NEW w \in Workers, CommitSource(w) PROVE job'[i] = job[i]
  <2>1. CASE UNCHANGED job
    BY <2>1
  <2>2. CASE CapturesAny(w)
    <3>1. PICK j \in Jobs, a \in Articles, s \in Source, k \in Key : Captures(w, j, a, s, k)
      BY <2>2 DEF CapturesAny
    <3>2. i # j
      BY <3>1 DEF Captures, LeaseHeld
    <3> QED BY <3>1, <3>2 DEF Captures, Adoptable
  <2> QED BY <1>2, <2>1, <2>2, CommitCaptures
<1> QED BY <1>1, <1>2, NextKeeps

\* No step touches a published transformation, its event or the job that published it.
LEMMA PublishedStays ==
    ASSUME TypeInv, PublicationInv, [Next]_vars, NEW k \in Key, revision[k].status = "published"
    PROVE  /\ revision'[k] = revision[k] /\ k \in outbox'
           /\ \A i \in Jobs : job[i].key = k => job[i].status = "completed" /\ job'[i] = job[i]
<1>0. k # None
  OBVIOUS
<1>1. revision[k].sound /\ k \in outbox
  BY DEF PublicationInv, PublishedKept
<1>2. \A i \in Jobs : job[i].key = k => job[i].status = "completed"
  BY <1>0 DEF PublicationInv, PublishedKept, KeysInv, OneOwner
<1>3. revision'[k] = revision[k] /\ k \in outbox'
  <2>1. CASE \E w \in Workers : CapturesAny(w)
    BY <1>1, <2>1 DEF CapturesAny, Captures
  <2>2. CASE \E j \in Jobs, x \in Key : Publishes(j, x)
    BY <1>1, <2>2 DEF Publishes
  <2>3. CASE DraftsOnly
    BY <1>1, <1>2, <2>3 DEF DraftsOnly
  <2> QED BY <2>1, <2>2, <2>3, NextShown DEF ShownKind
<1> QED BY <1>2, <1>3, CompletedStays

\* What the articles show after each kind of step.
LEMMA CapturedShown ==
    ASSUME PublicationInv, NEW w \in Workers, NEW j \in Jobs, NEW a \in Articles,
           NEW s \in Source, NEW k \in Key, Captures(w, j, a, s, k)
    PROVE  CanonicalMatchesSource'
<1>1. k # None /\ UNCHANGED revision
  BY DEF Captures
<1>2. article'[a].canonical # None
        => article'[a].canonical = k /\ revision[k].status = "published"
  BY DEF Captures, Canonical
<1>3. revision[k].status = "published" => revision[k].sound
  BY DEF PublicationInv, PublishedKept
<1>4. k.article = a /\ article'[a].source = k.source
      /\ \A b \in Articles \ {a} : article'[b] = article[b]
  BY DEF Captures
<1> QED BY <1>1, <1>2, <1>3, <1>4 DEF PublicationInv, CanonicalMatchesSource

LEMMA PublishedShown ==
    ASSUME TypeInv, PublicationInv, NEW j \in Jobs, NEW k \in Key, Publishes(j, k)
    PROVE  /\ CanonicalMatchesSource'
           /\ k.article = job[j].article /\ article[k.article].source = k.source
<1> DEFINE a == job[j].article
<1>1. k # None /\ a \in Articles
  BY DEF TypeInv, TypeOK, JobRow
<1>2. k.article = a /\ article[a].source = k.source
  BY <1>1 DEF Publishes, Current, PublicationInv, KeysInv, KeyFits
<1>3. /\ article'[a].canonical = k /\ article'[a].source = k.source
      /\ revision'[k].status = "published" /\ revision'[k].sound
      /\ \A b \in Articles \ {a} : article'[b] = article[b]
      /\ \A x \in Key \ {k} : revision'[x] = revision[x]
  BY <1>2 DEF Publishes
<1>4. ASSUME NEW b \in Articles, article'[b].canonical # None
      PROVE  LET x == article'[b].canonical IN
             /\ revision'[x].status = "published" /\ revision'[x].sound
             /\ x.article = b /\ x.source = article'[b].source
  <2>1. CASE b = a
    BY <1>2, <1>3, <2>1
  <2>2. CASE b # a
    <3> DEFINE x == article[b].canonical
    <3>1. article'[b] = article[b] /\ x \in Key
      BY <1>3, <1>4, <2>2 DEF TypeInv, TypeOK, ArticleRow
    <3>2. /\ revision[x].status = "published" /\ revision[x].sound
          /\ x.article = b /\ x.source = article[b].source
      BY <1>4, <3>1 DEF PublicationInv, CanonicalMatchesSource
    <3>3. revision'[x] = revision[x]
      BY <1>2, <1>3, <2>2, <3>1, <3>2
    <3> QED BY <3>1, <3>2, <3>3
  <2> QED BY <2>1, <2>2
<1> QED BY <1>2, <1>4 DEF CanonicalMatchesSource

LEMMA DraftedShown ==
    ASSUME TypeInv, PublicationInv, [Next]_vars,
           ShownStill \/ \E a \in Articles, s \in Source : Corrected(a, s)
    PROVE  CanonicalMatchesSource'
<1> SUFFICES ASSUME NEW b \in Articles, article'[b].canonical # None
             PROVE  LET x == article'[b].canonical IN
                    /\ revision'[x].status = "published" /\ revision'[x].sound
                    /\ x.article = b /\ x.source = article'[b].source
  BY DEF CanonicalMatchesSource
<1> DEFINE x == article[b].canonical
<1>1. article'[b].canonical = x /\ article'[b].source = article[b].source
  BY DEF ShownStill, Corrected
<1>2. /\ revision[x].status = "published" /\ revision[x].sound
      /\ x.article = b /\ x.source = article[b].source
  BY <1>1 DEF PublicationInv, CanonicalMatchesSource
<1>3. x \in Key
  BY <1>1 DEF TypeInv, TypeOK, ArticleRow
<1>4. revision'[x] = revision[x]
  BY <1>2, <1>3, PublishedStays
<1> QED BY <1>1, <1>2, <1>4

LEMMA PublicationNext == ASSUME TypeInv, PublicationInv, [Next]_vars PROVE PublicationInv'
<1>1. ASSUME NEW k \in Key, revision'[k].status = "published", revision[k].status # "published"
      PROVE  \E j \in Jobs : Publishes(j, k)
  BY <1>1, NextShown DEF ShownKind, CapturesAny, Captures, DraftsOnly, Publishes
<1>2. PublishedKept'
  <2> SUFFICES ASSUME NEW k \in Key, revision'[k].status = "published"
               PROVE  /\ revision'[k].sound /\ k \in outbox'
                      /\ \E j \in Jobs : job'[j].key = k /\ job'[j].status = "completed"
    BY DEF PublishedKept
  <2>1. CASE revision[k].status = "published"
    <3>1. PICK j \in Jobs : job[j].key = k
      BY <2>1 DEF PublicationInv, PublishedKept
    <3>2. revision[k].sound
      BY <2>1 DEF PublicationInv, PublishedKept
    <3> QED BY <2>1, <3>1, <3>2, PublishedStays
  <2>2. CASE revision[k].status # "published"
    BY <1>1, <2>2 DEF Publishes
  <2> QED BY <2>1, <2>2
<1>3. AnnouncedKept'
  <2> SUFFICES ASSUME NEW k \in outbox' PROVE revision'[k].status = "published"
    BY DEF AnnouncedKept
  <2>1. k \in outbox \/ \E j \in Jobs : Publishes(j, k)
    BY NextShown DEF ShownKind, CapturesAny, Captures, DraftsOnly, Publishes
  <2>2. CASE k \in outbox
    <3>1. k \in Key /\ revision[k].status = "published"
      BY <2>2 DEF PublicationInv, AnnouncedKept, TypeInv, TypeOK
    <3> QED BY <3>1, PublishedStays
  <2> QED BY <2>1, <2>2 DEF Publishes
<1>4. CanonicalMatchesSource'
  BY NextShown, CapturedShown, PublishedShown, DraftedShown DEF ShownKind, CapturesAny
<1>5. KeysInv'
  BY KeysNext DEF PublicationInv
<1> QED BY <1>2, <1>3, <1>4, <1>5 DEF PublicationInv

LEMMA PublicationInit == Init => PublicationInv
BY KeysInit DEF Init, PublicationInv, PublishedKept, AnnouncedKept, CanonicalMatchesSource

LEMMA PublicationAlways == Spec => [](TypeInv /\ PublicationInv)
<1>1. TypeInv /\ PublicationInv /\ [Next]_vars => PublicationInv'
  BY PublicationNext
<1> QED BY <1>1, PublicationInit, TypeInvariant, PTL DEF Spec

\* What an article shows is published, passes its validator and transforms the source the
\* article has now (migration 038 lines 58-60, article_lifecycle_store.py:319-322).
THEOREM CanonicalIsCurrent == Spec => []CanonicalMatchesSource
<1>1. PublicationInv => CanonicalMatchesSource
  BY DEF PublicationInv
<1> QED BY <1>1, PublicationAlways, PTL

\* No operator, worker, reviewer or crash takes a publication back or changes it
\* (migration 038 lines 30-32).
THEOREM PublicationIsFinal == Spec => PublishedForGood
<1> DEFINE Final == \A k \in Key : revision[k].status = "published" =>
        /\ revision'[k] = revision[k]
        /\ k \in outbox'
        /\ \A j \in Jobs : job[j].key = k => job'[j] = job[j]
<1>1. TypeInv /\ PublicationInv /\ [Next]_vars => [Final]_vars
  BY PublishedStays
<1> QED BY <1>1, PublicationAlways, PTL DEF Spec, PublishedForGood

(***************************************************************************)
(* The lifecycle implements what readers are promised: ArticlePublication. *)
(***************************************************************************)
Shown == [a \in Articles |-> article[a].source]
Canonicals == [a \in Articles |-> article[a].canonical]

\* What one row of the articles becomes is what readers see of it.
LEMMA OneShown ==
    ASSUME TypeInv, NEW a \in Articles, \A b \in Articles \ {a} : article'[b] = article[b]
    PROVE  /\ Shown' = [Shown EXCEPT ![a] = article'[a].source]
           /\ Canonicals' = [Canonicals EXCEPT ![a] = article'[a].canonical]
BY DEF Shown, Canonicals

LEMMA CaptureServed ==
    ASSUME TypeInv, PublicationInv, NEW w \in Workers, NEW j \in Jobs, NEW a \in Articles,
           NEW s \in Source, NEW k \in Key, Captures(w, j, a, s, k)
    PROVE  Readers!ShowSource(a, s)
<1>1. Shown' = [Shown EXCEPT ![a] = s] /\ Canonicals' = [Canonicals EXCEPT ![a] = Canonical(k)]
      /\ outbox' = outbox
  BY OneShown DEF Captures
<1>2. Canonical(k) = None \/ (Canonical(k) = k /\ k \in outbox)
  <2>1. revision[k].status = "published" => k \in outbox
    BY DEF PublicationInv, PublishedKept
  <2> QED BY <2>1 DEF Canonical
<1>3. k.article = a /\ k.source = s
  BY DEF Captures
<1> QED BY <1>1, <1>2, <1>3 DEF Readers!ShowSource, Readers!Transforms, Shown, Canonicals

LEMMA CorrectionServed ==
    ASSUME TypeInv, NEW a \in Articles, NEW s \in Source, Corrected(a, s), outbox' = outbox
    PROVE  Readers!ShowSource(a, s)
<1>1. Shown' = [Shown EXCEPT ![a] = s] /\ Canonicals' = [Canonicals EXCEPT ![a] = None]
  BY OneShown DEF Corrected
<1> QED BY <1>1 DEF Readers!ShowSource, Shown, Canonicals

LEMMA PublicationServed ==
    ASSUME TypeInv, PublicationInv, NEW j \in Jobs, NEW k \in Key, Publishes(j, k)
    PROVE  Readers!Announce(k)
<1>1. k.article = job[j].article /\ article[k.article].source = k.source
  BY PublishedShown
<1>2. k.article \in Articles
  BY DEF Key
<1>3. k \notin outbox
  BY DEF Publishes, PublicationInv, AnnouncedKept
<1>4. /\ outbox' = outbox \cup {k} /\ article'[k.article].canonical = k
      /\ article'[k.article].source = article[k.article].source
      /\ \A b \in Articles \ {k.article} : article'[b] = article[b]
  BY <1>1 DEF Publishes
<1>5. Shown' = Shown /\ Canonicals' = [Canonicals EXCEPT ![k.article] = k]
  <2>1. Canonicals' = [Canonicals EXCEPT ![k.article] = k]
    BY <1>2, <1>4, OneShown
  <2>2. \A b \in Articles : article'[b].source = article[b].source
    BY <1>4
  <2> QED BY <2>1, <2>2 DEF Shown
<1> QED BY <1>1, <1>2, <1>3, <1>4, <1>5 DEF Readers!Announce, Shown, Canonicals

LEMMA StillServed == ASSUME ShownStill PROVE Shown' = Shown /\ Canonicals' = Canonicals
BY DEF ShownStill, Shown, Canonicals

\* Every step of the lifecycle is a step of the readers' promise, or invisible to them.
LEMMA StepServed ==
    ASSUME TypeInv, PublicationInv, [Next]_vars
    PROVE  [Readers!ReaderNext]_<<Shown, Canonicals, outbox>>
<1>1. ASSUME NEW w \in Workers, CapturesAny(w) PROVE Readers!ReaderNext
  <2>1. PICK j \in Jobs, a \in Articles, s \in Source, k \in Key : Captures(w, j, a, s, k)
    BY <1>1 DEF CapturesAny
  <2> QED BY <2>1, CaptureServed DEF Readers!ReaderNext
<1>2. ASSUME NEW j \in Jobs, NEW k \in Key, Publishes(j, k) PROVE Readers!ReaderNext
  BY <1>2, PublicationServed DEF Readers!ReaderNext
<1>3. ASSUME DraftsOnly, ShownStill PROVE UNCHANGED <<Shown, Canonicals, outbox>>
  BY <1>3, StillServed DEF DraftsOnly
<1>4. ASSUME DraftsOnly, NEW a \in Articles, NEW s \in Source, Corrected(a, s)
      PROVE  Readers!ReaderNext
  BY <1>4, CorrectionServed DEF DraftsOnly, Readers!ReaderNext
<1> QED BY <1>1, <1>2, <1>3, <1>4, NextShown DEF ShownKind

\* An article shows its source or a published transformation of it, and a transformation is
\* published and announced once (article_lifecycle_store.py:319-322, 826-871).
THEOREM ReadersAreServed == Spec => ReadersServed
<1>1. Init => Readers!ReaderInit
  BY DEF Init, Readers!ReaderInit
<1>2. TypeInv /\ PublicationInv /\ [Next]_vars
        => [Readers!ReaderNext]_<<Shown, Canonicals, outbox>>
  BY StepServed
<1>3. TypeInv /\ PublicationInv /\ [Next]_vars
        => [Readers!ReaderNext]_<<[a \in Articles |-> article[a].source],
                                  [a \in Articles |-> article[a].canonical], outbox>>
  BY <1>2 DEF Shown, Canonicals
<1> QED BY <1>1, <1>3, PublicationAlways, PTL DEF Spec, ReadersServed, Readers!ReaderSpec

(***************************************************************************)
(* Reviews.  A key keeps the rewrite profile of its owner, a publication   *)
(* under the review profile needs the full approval of the draft as it is, *)
(* and no review is recorded for a draft that is public.                   *)
(***************************************************************************)
ProfileFits ==
    \A i \in Jobs : job[i].key # None =>
        job[i].status # "absent" /\ job[i].key.profile = job[i].profile

ReviewedInv == PublicationInv /\ ProfileFits /\ ReviewedPublication

LEMMA NextLasts == ASSUME TypeInv, [Next]_vars PROVE JobsLast
BY NextGoes, GoingLasts, ParkLasts

LEMMA ProfilesNext == ASSUME TypeInv, ProfileFits, [Next]_vars PROVE ProfileFits'
<1>1. \A i \in Jobs : RowLasts(job[i], job'[i])
  BY NextLasts DEF JobsLast
<1>2. ASSUME NEW mover, JobsKeep(mover) PROVE ProfileFits'
  BY <1>1, <1>2 DEF JobsKeep, RowKeeps, RowLasts, ProfileFits
<1>3. ASSUME UNCHANGED job PROVE ProfileFits'
  BY <1>3 DEF ProfileFits
<1>4. ASSUME NEW w \in Workers, CapturesAny(w) PROVE ProfileFits'
  <2>1. PICK j \in Jobs, a \in Articles, s \in Source, k \in Key : Captures(w, j, a, s, k)
    BY <1>4 DEF CapturesAny
  <2>2. \A i \in Jobs \ {j} : job'[i].key = job[i].key
    BY <2>1 DEF Captures, Adoptable
  <2>3. /\ job'[j].key = job[j].key \/ job'[j].key.profile = job[j].profile
        /\ job[j].status # "absent"
    BY <2>1 DEF Captures, LeaseHeld
  <2> QED BY <1>1, <2>2, <2>3 DEF RowLasts, ProfileFits
<1> QED BY <1>2, <1>3, <1>4, NextKeeps, CommitCaptures

LEMMA ReviewsKept ==
    ASSUME TypeInv, [Next]_vars, NEW k \in Key, revision[k].status = "published"
    PROVE  review'[k] = review[k]
<1>1. ASSUME NEW r \in Reviewers, NEW j \in Jobs, Decide(r, j) PROVE review'[k] = review[k]
  <2>1. \/ review' = review
        \/ /\ revision[job[j].key].status \in {"validated", "building"}
           /\ \E row : review' = [review EXCEPT ![job[j].key] = row]
    BY <1>1 DEF Decide, Export, Approve, Reject, Correct, CorrectFailed, Reviewable, FailedDraft
  <2> QED BY <2>1 DEF TypeInv, TypeOK
<1>2. ASSUME NEW w \in Workers, Run(w) PROVE review' = review
  BY <1>2 DEF Run, Begin, Capture, CommitSource, Load, Normalize, Preserve, Park, Prepare,
              Dispatch, Model, Result, Reload, Validate, Publish, Record, Fail, RowsKept
<1>3. ASSUME NEW w \in Workers, Claim(w) \/ Heartbeat(w) \/ Crash(w) PROVE review' = review
  BY <1>3 DEF Claim, ClaimAutomatic, ClaimReview, ClaimConfiguration, PassResume, SweepExhausted,
              ClaimGeneric, NothingToClaim, UntouchedByClaims, Heartbeat, Crash, GiveUp, RowsKept
<1>4. ASSUME NEW a \in Articles, Request(a) PROVE review' = review
  BY <1>4 DEF Request, EnsureJob, RefreshJob, Reproject, UntouchedByRequests
<1>5. ASSUME NEW j \in Jobs, LeaseTick(j) PROVE review' = review
  BY <1>5 DEF LeaseTick
<1> QED BY <1>1, <1>2, <1>3, <1>4, <1>5 DEF Next, vars

LEMMA ReviewedNext == ReviewedInv /\ TypeInv /\ [Next]_vars => ReviewedInv'
<1> SUFFICES ASSUME ReviewedInv, TypeInv, [Next]_vars PROVE ReviewedInv'
  OBVIOUS
<1>0. PublicationInv' /\ ProfileFits'
  BY PublicationNext, ProfilesNext DEF ReviewedInv
<1>1. SUFFICES ASSUME NEW k \in Key, k.profile = "review", revision'[k].status = "published"
               PROVE  /\ review'[k].decision = "APPROVED"
                      /\ review'[k].version = revision'[k].version
                      /\ review'[k].reviewer # review'[k].corrector
                      /\ review'[k].failedOrigin => review'[k].reviewer \notin review'[k].authors
  BY <1>0 DEF ReviewedInv, ReviewedPublication
<1>2. CASE revision[k].status = "published"
  <2>1. revision'[k] = revision[k] /\ review'[k] = review[k]
    BY <1>2, PublishedStays, ReviewsKept DEF ReviewedInv
  <2> QED BY <1>1, <1>2, <2>1 DEF ReviewedInv, ReviewedPublication
<1>3. CASE revision[k].status # "published"
  <2>1. PICK j \in Jobs : Publishes(j, k)
    BY <1>1, <1>3, NextShown DEF ShownKind, CapturesAny, Captures, DraftsOnly, Publishes
  <2>2. k # None /\ job[j].profile = "review"
    BY <1>1, <2>1 DEF ReviewedInv, ProfileFits, Publishes
  <2>3. FullyApproved(j) /\ review'[k] = review[k] /\ revision'[k].version = revision[k].version
    BY <2>1, <2>2 DEF Publishes
  <2> QED BY <2>1, <2>3 DEF FullyApproved, Independent, Publishes
<1> QED BY <1>2, <1>3

\* What the review profile shows was approved last, in that very version, by someone who
\* wrote none of it (article_lifecycle_store.py:527-552, 826-828).
THEOREM ReviewPrecedesPublication == Spec => []ReviewedPublication
<1>1. Init => ReviewedInv
  <2> SUFFICES ASSUME Init PROVE ProfileFits /\ ReviewedPublication
    BY PublicationInit DEF ReviewedInv
  <2>1. \A i \in Jobs : job[i].key = None
    BY DEF Init, AbsentJob
  <2>2. \A k \in Key : revision[k].status = "none"
    BY DEF Init
  <2> QED BY <2>1, <2>2 DEF ProfileFits, ReviewedPublication
<1>2. ReviewedInv => ReviewedPublication
  BY DEF ReviewedInv
<1> QED BY <1>1, <1>2, ReviewedNext, TypeInvariant, PTL DEF Spec

(***************************************************************************)
(* The ledger of the attempts.  A draft, once saved, stays saved, and only *)
(* the holder of a job's lease saves the first one.                        *)
(***************************************************************************)
LEMMA OneRevision ==
    ASSUME TypeInv, NEW x, NEW row, revision' = [revision EXCEPT ![x] = row], row.status # "none"
    PROVE  \A k \in Key : \/ revision'[k] = revision[k]
                          \/ k = x /\ revision'[k].status # "none"
BY DEF TypeInv, TypeOK

LEMMA RunDrafts ==
    ASSUME TypeInv, NEW w \in Workers, Run(w), NEW k \in Key
    PROVE  \/ revision'[k] = revision[k]
           \/ /\ revision'[k].status # "none"
              /\ \/ revision[k].status # "none"
                 \/ /\ LeaseHeld(w) /\ job[worker[w].job].key = k
                    /\ Result(w) \/ (Preserve(w) /\ AttemptsOf(worker[w].job) = {})
<1> DEFINE j == worker[w].job
           x == job[j].key
<1>1. CASE Preserve(w) /\ revision' # revision
  <2> DEFINE row == Draft("building", TRUE, TRUE)
  <2>1. LeaseHeld(w) /\ AttemptsOf(j) = {} /\ revision' = [revision EXCEPT ![x] = row]
    BY <1>1 DEF Preserve, TransformHeld
  <2>2. row.status # "none"
    BY DEF Draft
  <2> HIDE DEF row
  <2> QED BY <1>1, <2>1, <2>2, OneRevision
<1>2. CASE Result(w) /\ revision' # revision
  <2>1. LeaseHeld(w)
    BY <1>2 DEF Result, TransformHeld
  <2>2. PICK s \in {"validated", "building"}, b \in BOOLEAN :
            revision' = [revision EXCEPT ![x] = Draft(s, b, FALSE)]
    BY <1>2 DEF Result, StoreResult
  <2> DEFINE row == Draft(s, b, FALSE)
  <2>3. row.status # "none" /\ revision' = [revision EXCEPT ![x] = row]
    BY <2>2 DEF Draft
  <2> HIDE DEF row
  <2> QED BY <1>2, <2>1, <2>3, OneRevision
<1>3. CASE Validate(w) \/ Publish(w)
  <2>1. \/ revision' = revision
        \/ /\ revision[x].status # "none"
           /\ \E s \in {"validated", "rejected", "published"} :
                revision' = [revision EXCEPT ![x] = [@ EXCEPT !.status = s]]
    BY <1>3 DEF Validate, Publish, Publishable, HasCandidate
  <2>2. CASE k = x /\ revision' # revision
    <3>1. PICK s \in {"validated", "rejected", "published"} :
              revision' = [revision EXCEPT ![x] = [@ EXCEPT !.status = s]]
      BY <2>1, <2>2
    <3> DEFINE row == [revision[k] EXCEPT !.status = s]
    <3>2. revision[k] \in RevisionRow /\ revision'[k] = row
      BY <2>2, <3>1 DEF TypeInv, TypeOK
    <3>3. row.status = s
      BY <3>2 DEF RevisionRow
    <3> QED BY <2>1, <2>2, <3>2, <3>3
  <2>3. CASE k # x \/ revision' = revision
    BY <2>1, <2>3 DEF TypeInv, TypeOK
  <2> QED BY <2>2, <2>3
<1>4. \/ revision' = revision \/ Validate(w) \/ Publish(w)
      \/ Preserve(w) /\ revision' # revision
      \/ Result(w) /\ revision' # revision
  BY DEF Run, Begin, Capture, CommitSource, Load, Normalize, Park, Prepare, Dispatch, Model,
         Reload, Record, Fail, RowsKept
<1> QED BY <1>1, <1>2, <1>3, <1>4

\* Who makes a draft out of none.
Drafted(k) == revision[k].status = "none" /\ revision'[k].status # "none"

LEMMA NextDrafts ==
    ASSUME TypeInv, [Next]_vars, NEW k \in Key
    PROVE  /\ revision[k].status # "none" => revision'[k].status # "none"
           /\ Drafted(k) =>
                \E w \in Workers :
                    /\ Run(w) /\ LeaseHeld(w) /\ job[worker[w].job].key = k
                    /\ Result(w) \/ (Preserve(w) /\ AttemptsOf(worker[w].job) = {})
<1>1. CASE revision'[k] = revision[k]
  BY <1>1 DEF Drafted
<1>2. ASSUME NEW r \in Reviewers, NEW j \in Jobs, Decide(r, j)
      PROVE  revision'[k] = revision[k]
             \/ (revision[k].status # "none" /\ revision'[k].status # "none")
  <2>1. \/ revision' = revision
        \/ /\ revision[job[j].key].status \in {"validated", "building"}
           /\ \/ \E n : revision' = [revision EXCEPT ![job[j].key] = [@ EXCEPT !.version = n]]
              \/ \E n : revision' = [revision EXCEPT ![job[j].key] = [@ EXCEPT
                            !.status = "validated", !.sound = TRUE, !.version = n]]
    BY <1>2 DEF Decide, Export, Approve, Reject, Correct, CorrectFailed, Reviewable, FailedDraft
  <2>2. CASE k = job[j].key /\ revision' # revision
    <3>1. PICK n : \/ revision' = [revision EXCEPT ![k] = [@ EXCEPT !.version = n]]
                   \/ revision' = [revision EXCEPT ![k] = [@ EXCEPT
                            !.status = "validated", !.sound = TRUE, !.version = n]]
      BY <2>1, <2>2
    <3> DEFINE row == [revision[k] EXCEPT !.version = n]
               repaired == [revision[k] EXCEPT
                               !.status = "validated", !.sound = TRUE, !.version = n]
    <3>2. revision[k] \in RevisionRow /\ (revision'[k] = row \/ revision'[k] = repaired)
      BY <2>2, <3>1 DEF TypeInv, TypeOK
    <3>3. row.status = revision[k].status /\ repaired.status = "validated"
      BY <3>2 DEF RevisionRow
    <3> HIDE DEF row, repaired
    <3> QED BY <2>1, <2>2, <3>2, <3>3
  <2>3. CASE k # job[j].key \/ revision' = revision
    BY <2>1, <2>3 DEF TypeInv, TypeOK
  <2> QED BY <2>2, <2>3
<1>3. ASSUME NEW w \in Workers, Claim(w) \/ Heartbeat(w) \/ Crash(w) PROVE revision' = revision
  BY <1>3 DEF Claim, ClaimAutomatic, ClaimReview, ClaimConfiguration, PassResume, SweepExhausted,
              ClaimGeneric, NothingToClaim, UntouchedByClaims, Heartbeat, Crash, GiveUp, RowsKept
<1>4. ASSUME NEW a \in Articles, Request(a) PROVE revision' = revision
  BY <1>4 DEF Request, EnsureJob, RefreshJob, Reproject, UntouchedByRequests
<1>5. ASSUME NEW j \in Jobs, LeaseTick(j) PROVE revision' = revision
  BY <1>5 DEF LeaseTick
<1> QED BY <1>1, <1>2, <1>3, <1>4, <1>5, RunDrafts DEF Next, vars, Drafted

\* A job that owns a key owns it for good, and so keeps its draft.
LEMMA KeyStays ==
    ASSUME TypeInv, KeysInv, ProfileFits, [Next]_vars, NEW i \in Jobs, job[i].key # None
    PROVE  job'[i].key = job[i].key /\ job'[i].source = job[i].source
<1>1. job[i].status # "absent"
  BY DEF ProfileFits
<1>2. ASSUME NEW mover, JobsKeep(mover)
      PROVE  job'[i].key = job[i].key /\ job'[i].source = job[i].source
  BY <1>1, <1>2 DEF JobsKeep, RowKeeps
<1>3. ASSUME NEW w \in Workers, CapturesAny(w)
      PROVE  job'[i].key = job[i].key /\ job'[i].source = job[i].source
  <2>1. PICK j \in Jobs, a \in Articles, s \in Source, k \in Key : Captures(w, j, a, s, k)
    BY <1>3 DEF CapturesAny
  <2>2. i # j
    <3>1. job[j].source = None
      BY <2>1 DEF Captures, KeysInv, Unfetched
    <3>2. job[i].key \in Key /\ job[i].source = job[i].key.source
      BY DEF TypeInv, TypeOK, JobRow, KeysInv, KeyFits
    <3> QED BY <3>1, <3>2 DEF Key
  <2> QED BY <2>1, <2>2 DEF Captures, Adoptable
<1> QED BY <1>2, <1>3, NextKeeps, CommitCaptures

LEMMA CandidateStays ==
    ASSUME TypeInv, KeysInv, ProfileFits, [Next]_vars, NEW i \in Jobs, HasCandidate(i)
    PROVE  HasCandidate(i)'
<1>1. job[i].key \in Key
  BY DEF HasCandidate, TypeInv, TypeOK, JobRow
<1> QED BY <1>1, KeyStays, NextDrafts DEF HasCandidate

(***************************************************************************)
(* What becomes of a row, as the attempts of its job see it: its attempts  *)
(* and its token count on only for a new lease, and a lease that counts no *)
(* attempt is one for a saved draft or for a job that never tried.         *)
(***************************************************************************)
Rated(old, new) ==
    new.retry = old.retry /\ new.token = old.token /\ new.review = old.review

Owns(old, new) == new.key = old.key /\ new.source = old.source

Quiet(old, new) == Rated(old, new) /\ Owns(old, new) /\ new.status = old.status

Fresh(old, new) ==
    /\ old.status = "absent"
    /\ new.key = None /\ new.review = "none"
    /\ \/ new.status = "pending" /\ new.retry = 0 /\ new.source = None
       \/ new.status = "needs_review" /\ new.retry = 1

Refenced(old, new) ==
    /\ old.status # "absent" /\ new.status # "absent"
    /\ Owns(old, new) /\ new.retry = old.retry /\ new.token \in {old.token, old.token + 1}

Settled(i, old, new) == HasCandidate(i) /\ Refenced(old, new)

Untried(i, old, new) ==
    /\ AttemptsOf(i) = {} /\ Refenced(old, new) /\ new.review = old.review
    /\ old.status \in {"processing", "failed", "dead_letter"}
    /\ new.status \in {"processing", "failed"}

Calm(i, old, new) ==
    Quiet(old, new) \/ Fresh(old, new) \/ Settled(i, old, new) \/ Untried(i, old, new)

Stopped(old, new) ==
    /\ old.status = "processing" /\ Rated(old, new) /\ Owns(old, new)
    /\ new.status \in {"failed", "dead_letter", "needs_review"}

Respent(old, new) ==
    /\ old.status \in {"pending", "processing", "failed"} /\ old.retry < MaxAttempts
    /\ new.status = "processing" /\ Owns(old, new) /\ new.review = old.review
    /\ new.retry = old.retry + 1 /\ new.token = old.token + 1

Taken(old, new) ==
    /\ old.status = "processing" /\ old.key = None /\ Rated(old, new)
    /\ \/ new.status = "processing" /\ new.key # None
       \/ new.status = "completed" /\ new.key = None

Stored(old, new) ==
    /\ old.status = "processing" /\ new.status \in {"processing", "needs_review"}
    /\ Owns(old, new) /\ new.retry = old.retry /\ new.token = old.token

Rests == UNCHANGED attempts /\ \A i \in Jobs : Calm(i, job[i], job'[i])

\* A row changes and no other one does.
Only(j) == \A i \in Jobs \ {j} : job'[i] = job[i]

LEMMA StillRests == ASSUME UNCHANGED <<job, attempts>> PROVE Rests
BY DEF Rests, Calm, Quiet, Rated, Owns

LEMMA OneRests ==
    ASSUME TypeInv, NEW j \in Jobs, NEW row, job' = [job EXCEPT ![j] = row],
           Calm(j, job[j], row), UNCHANGED attempts
    PROVE  Rests
<1>1. job'[j] = row /\ \A i \in Jobs \ {j} : job'[i] = job[i]
  BY DEF TypeInv, TypeOK
<1> QED BY <1>1 DEF Rests, Calm, Quiet, Rated, Owns

LEMMA RequestRests == ASSUME TypeInv, NEW a \in Articles, Request(a) PROVE Rests
<1>0. /\ FreshJob(a) \in JobRow /\ FreshJob(a).status = "pending" /\ FreshJob(a).key = None
      /\ FreshJob(a).retry = 0 /\ FreshJob(a).source = None /\ FreshJob(a).review = "none"
  BY FreshJobType DEF FreshJob, AbsentJob
<1>1. UNCHANGED attempts
  BY DEF Request, EnsureJob, RefreshJob, Reproject, UntouchedByRequests
<1>2. ASSUME NEW j \in Jobs, NEW row, job[j].status = "absent", Fresh(job[j], row),
             job' = [job EXCEPT ![j] = row]
      PROVE  Rests
  BY <1>1, <1>2, OneRests DEF Calm
<1>3. CASE EnsureJob(a)
  <2>1. \A j \in Jobs : job[j].status = "absent" => Fresh(job[j], FreshJob(a))
    BY <1>0 DEF Fresh
  <2> QED BY <1>2, <1>3, <2>1 DEF EnsureJob
<1>4. ASSUME NEW p \in Profiles, RefreshJob(a, p) PROVE Rests
  <2> DEFINE row == [FreshJob(a) EXCEPT !.generation = article[a].generation + 1, !.profile = p]
  <2>1. \A j \in Jobs : job[j].status = "absent" => Fresh(job[j], row)
    BY <1>0 DEF Fresh, JobRow
  <2>2. \E j \in Jobs : job[j].status = "absent" /\ job' = [job EXCEPT ![j] = row]
    BY <1>4 DEF RefreshJob
  <2> HIDE DEF row
  <2> QED BY <1>2, <2>1, <2>2
<1>5. CASE Reproject(a)
  <2> DEFINE row == [FreshJob(a) EXCEPT
                       !.generation = article[a].generation + 1,
                       !.status = "needs_review", !.phase = "completed",
                       !.error = "SOURCE_ONLY_REPROJECTION",
                       !.retry = 1, !.token = 1,
                       !.source = [article[a].source EXCEPT !.projection = 2]]
  <2>1. \A j \in Jobs : job[j].status = "absent" => Fresh(job[j], row)
    BY <1>0 DEF Fresh, JobRow
  <2>2. \E j \in Jobs : job[j].status = "absent" /\ job' = [job EXCEPT ![j] = row]
    BY <1>5 DEF Reproject
  <2> HIDE DEF row
  <2> QED BY <1>2, <2>1, <2>2
<1> QED BY <1>3, <1>4, <1>5 DEF Request

\* Every claim but the one that spends an attempt.
Resumes(w) ==
    \/ \E j \in Jobs, ready \in BOOLEAN :
        ClaimAutomatic(w, j, ready) \/ ClaimReview(w, j, ready) \/ PassResume(w, j, ready)
    \/ \E j \in Jobs : ClaimConfiguration(w, j)
    \/ NothingToClaim(w)

RowInv ==
    \A i \in Jobs :
        /\ job[i].retry <= MaxAttempts
        /\ job[i].retry = 0 => job[i].status \in {"absent", "pending"} /\ job[i].key = None
        /\ job[i].review # "none" => HasCandidate(i)
        /\ job[i].source # None /\ job[i].key = None =>
             job[i].status \in {"completed", "needs_review"}

LEMMA ResumeRests ==
    ASSUME TypeInv, RowInv, NEW w \in Workers, Resumes(w)
    PROVE  Rests
<1>1. ASSUME NEW j \in Jobs, NEW p, HasCandidate(j) \/ AttemptsOf(j) = {},
             job[j].status \in {"pending", "processing", "failed", "dead_letter"},
             job[j].status = "pending" => HasCandidate(j), UNCHANGED attempts,
             job' = [job EXCEPT ![j] = [ClaimedBy(w, @) EXCEPT !.phase = p, !.error = "none"]]
      PROVE  Rests
  <2> DEFINE row == [ClaimedBy(w, job[j]) EXCEPT !.phase = p, !.error = "none"]
  <2>1. job[j] \in JobRow /\ job' = [job EXCEPT ![j] = row]
    BY <1>1 DEF TypeInv, TypeOK
  <2>2. Refenced(job[j], row) /\ row.review = job[j].review /\ row.status = "processing"
    BY <1>1, <2>1 DEF ClaimedBy, Refenced, Owns, JobRow
  <2> HIDE DEF row
  <2>3. Calm(j, job[j], row)
    BY <1>1, <2>2 DEF Calm, Settled, Untried
  <2> QED BY <1>1, <2>1, <2>3, OneRests
<1>2. ASSUME NEW j \in Jobs, NEW s \in {"dead_letter", "needs_review"}, NEW e, NEW v,
             HasCandidate(j), job[j].status # "absent", UNCHANGED attempts,
             \/ job' = [job EXCEPT ![j] = [Released(@) EXCEPT !.status = s, !.error = e]]
             \/ job' = [job EXCEPT ![j] = [Released(@) EXCEPT !.status = s, !.error = e,
                                                              !.review = v]]
      PROVE  Rests
  <2>0. job[j] \in JobRow
    BY DEF TypeInv, TypeOK
  <2> DEFINE row == [Released(job[j]) EXCEPT !.status = s, !.error = e]
             reviewed == [Released(job[j]) EXCEPT !.status = s, !.error = e, !.review = v]
  <2>1. job' = [job EXCEPT ![j] = row] \/ job' = [job EXCEPT ![j] = reviewed]
    BY <1>2 DEF TypeInv, TypeOK
  <2>2. Refenced(job[j], row) /\ Refenced(job[j], reviewed)
    BY <1>2, <2>0 DEF Released, Refenced, Owns, JobRow
  <2> HIDE DEF row, reviewed
  <2>3. Calm(j, job[j], row) /\ Calm(j, job[j], reviewed)
    BY <1>2, <2>2 DEF Calm, Settled
  <2> QED BY <1>2, <2>1, <2>3, OneRests
<1>3. ASSUME NEW j \in Jobs, NEW ready \in BOOLEAN, ClaimAutomatic(w, j, ready) PROVE Rests
  <2>1. /\ HasCandidate(j) /\ job[j].status \in {"pending", "processing"}
        /\ UNCHANGED attempts
    BY <1>3 DEF ClaimAutomatic, AutomaticDraft, Resumable, Expired
  <2> QED BY <1>1, <1>2, <1>3, <2>1 DEF ClaimAutomatic
<1>4. ASSUME NEW j \in Jobs, NEW ready \in BOOLEAN, ClaimReview(w, j, ready) PROVE Rests
  <2>1. /\ HasCandidate(j) /\ job[j].status \in {"pending", "processing"}
        /\ UNCHANGED attempts
    BY <1>4 DEF ClaimReview, RowInv, Resumable, Expired
  <2> QED BY <1>1, <1>2, <1>4, <2>1 DEF ClaimReview
<1>5. ASSUME NEW j \in Jobs, ClaimConfiguration(w, j) PROVE Rests
  <2>1. /\ AttemptsOf(j) = {} /\ job[j].status \in {"failed", "dead_letter"}
        /\ UNCHANGED attempts
    BY <1>5 DEF ClaimConfiguration, AwaitingModel
  <2> QED BY <1>1, <1>5, <2>1 DEF ClaimConfiguration
<1>6. ASSUME UNCHANGED <<job, attempts>> PROVE Rests
  BY <1>6, StillRests
<1> QED BY <1>3, <1>4, <1>5, <1>6 DEF Resumes, PassResume, NothingToClaim

LEMMA DecideRests ==
    ASSUME TypeInv, NEW r \in Reviewers, NEW j \in Jobs, Decide(r, j)
    PROVE  Rests
<1>1. job[j] \in JobRow
  BY DEF TypeInv, TypeOK
<1> DEFINE approved == [job[j] EXCEPT !.status = "pending", !.phase = "publishing",
                                      !.error = "none", !.review = "approved"]
           corrected == [WaitAgain(job[j]) EXCEPT !.rewriteError = "none"]
<1>2. UNCHANGED attempts
  BY DEF Decide, Export, Approve, Reject, Correct, CorrectFailed, UntouchedByReviews
<1>3. CASE UNCHANGED job
  BY <1>2, <1>3, StillRests
<1>4. CASE job' # job
  <2>1. HasCandidate(j) /\ job[j].status \in {"needs_review", "pending", "processing"}
    BY <1>4 DEF Decide, Export, Approve, Reject, Correct, CorrectFailed, Waiting, Resuming,
                FailedDraft, Reviewable, DraftCurrent
  <2>2. /\ Refenced(job[j], approved) /\ Refenced(job[j], WaitAgain(job[j]))
        /\ Refenced(job[j], corrected)
    BY <1>1, <2>1 DEF WaitAgain, Released, Refenced, Owns, JobRow
  <2>3. \/ job' = [job EXCEPT ![j] = approved]
        \/ job' = [job EXCEPT ![j] = WaitAgain(job[j])]
        \/ job' = [job EXCEPT ![j] = corrected]
    BY <1>4 DEF Decide, Export, Approve, Reject, Correct, CorrectFailed, TypeInv, TypeOK
  <2> HIDE DEF approved, corrected
  <2> QED BY <1>2, <2>1, <2>2, <2>3, OneRests DEF Calm, Settled
<1> QED BY <1>3, <1>4

LEMMA ClockRests ==
    ASSUME TypeInv, NEW j \in Jobs, NEW n, job' = [job EXCEPT ![j] = [@ EXCEPT !.lease = n]],
           UNCHANGED attempts
    PROVE  Rests
<1> DEFINE row == [job[j] EXCEPT !.lease = n]
<1>1. job[j] \in JobRow /\ job' = [job EXCEPT ![j] = row]
  BY DEF TypeInv, TypeOK
<1>2. Quiet(job[j], row)
  BY <1>1 DEF Quiet, Rated, Owns, JobRow
<1> HIDE DEF row
<1> QED BY <1>1, <1>2, OneRests DEF Calm

LEMMA DraftRests ==
    ASSUME TypeInv, NEW w \in Workers,
           Normalize(w) \/ Preserve(w) \/ Park(w) \/ Validate(w) \/ Publish(w)
    PROVE  Rests
<1> DEFINE j == worker[w].job
           phased(p) == [job[j] EXCEPT !.phase = p]
           normal == [job[j] EXCEPT !.phase = "rewriting", !.normalized = TRUE]
           parked == [Released(job[j]) EXCEPT !.status = "failed",
                                              !.error = "MODEL_NOT_CONFIGURED"]
           published == [Released(job[j]) EXCEPT !.status = "completed", !.phase = "completed",
                                                 !.error = "none"]
<1>0. UNCHANGED attempts
  BY DEF Normalize, Preserve, Park, Validate, Publish
<1>1. worker[w].pc # "idle" /\ j \in Jobs /\ job[j] \in JobRow
  BY HeldType DEF Normalize, Preserve, Park, Validate, Publish
<1>2. CASE UNCHANGED job
  BY <1>0, <1>2, StillRests
<1>3. CASE job' # job
  <2>1. job[j].status = "processing"
    BY <1>3 DEF Normalize, Preserve, Park, Validate, Publish, TransformHeld, LeaseHeld
  <2>2. \/ \E row \in {normal, phased("validating"), phased("publishing")} :
             job' = [job EXCEPT ![j] = row]
        \/ job' = [job EXCEPT ![j] = parked] /\ AttemptsOf(j) = {}
        \/ job' = [job EXCEPT ![j] = published] /\ HasCandidate(j)
    <3>1. CASE Park(w)
      BY <1>1, <1>3, <3>1 DEF Park, MayPark, TypeInv, TypeOK
    <3>2. CASE Publish(w)
      BY <1>1, <1>3, <3>2 DEF Publish, Publishable, TypeInv, TypeOK
    <3>3. CASE Normalize(w) \/ Preserve(w) \/ Validate(w)
      BY <1>1, <1>3, <3>3 DEF Normalize, Preserve, Validate, TypeInv, TypeOK
    <3> QED BY <3>1, <3>2, <3>3
  <2>3. /\ Quiet(job[j], normal) /\ Quiet(job[j], phased("validating"))
        /\ Quiet(job[j], phased("publishing"))
    BY <1>1 DEF Quiet, Rated, Owns, JobRow
  <2>4. /\ Refenced(job[j], parked) /\ Refenced(job[j], published)
        /\ parked.status = "failed" /\ parked.review = job[j].review
    BY <1>1, <2>1 DEF Released, Refenced, Owns, JobRow
  <2> HIDE DEF normal, phased, parked, published
  <2>5. /\ \A row \in {normal, phased("validating"), phased("publishing")} : Calm(j, job[j], row)
        /\ AttemptsOf(j) = {} => Calm(j, job[j], parked)
        /\ HasCandidate(j) => Calm(j, job[j], published)
    BY <2>1, <2>3, <2>4 DEF Calm, Settled, Untried
  <2> HIDE DEF j
  <2> QED BY <1>0, <1>1, <2>2, <2>5, OneRests
<1> QED BY <1>2, <1>3

(***************************************************************************)
(* The steps that count or close attempts, or end one.                     *)
(***************************************************************************)
\* A lost lease is swept or taken over; a delivery it may have made is ambiguous.
Takes(w, j) ==
    /\ worker[w].pc = "sweep" /\ Only(j)
    /\ Respent(job[j], job'[j]) \/ Stopped(job[j], job'[j])
    /\ \/ attempts' = WithAmbiguous(j)
       \/ UNCHANGED attempts /\ job[j].status # "processing"

LEMMA SweepTakes ==
    ASSUME TypeInv, NEW w \in Workers, SweepExhausted(w) \/ ClaimGeneric(w)
    PROVE  \E j \in Jobs : Takes(w, j)
<1> DEFINE j == worker[w].job
           swept == [Released(job[j]) EXCEPT !.status = "dead_letter",
                                             !.error = "LEASE_ATTEMPTS_EXHAUSTED"]
           claimed == [ClaimedBy(w, job[j]) EXCEPT !.retry = NextAttempt(j), !.phase = NextPhase(j)]
<1>1. worker[w].pc = "sweep" /\ j \in Jobs /\ job[j] \in JobRow
  BY HeldType DEF SweepExhausted, ClaimGeneric
<1>2. CASE SweepExhausted(w)
  <2>1. job' = [job EXCEPT ![j] = swept] /\ attempts' = WithAmbiguous(j)
    BY <1>1, <1>2 DEF SweepExhausted, TypeInv, TypeOK
  <2>2. job[j].status = "processing"
    BY <1>2 DEF SweepExhausted, Exhausted, Expired
  <2>3. Stopped(job[j], swept)
    BY <1>1, <2>2 DEF Stopped, Rated, Owns, Released, JobRow
  <2> HIDE DEF swept
  <2>4. job'[j] = swept /\ Only(j)
    BY <1>1, <2>1 DEF Only, TypeInv, TypeOK
  <2> QED BY <1>1, <2>1, <2>3, <2>4 DEF Takes
<1>3. CASE ClaimGeneric(w)
  <2>1. job' = [job EXCEPT ![j] = claimed]
    BY <1>1, <1>3 DEF ClaimGeneric, TypeInv, TypeOK
  <2>2. \/ attempts' = WithAmbiguous(j)
        \/ UNCHANGED attempts /\ job[j].status # "processing"
    BY <1>3 DEF ClaimGeneric
  <2>3. /\ job[j].status \in {"pending", "processing", "failed"} /\ job[j].retry < MaxAttempts
    BY <1>3 DEF ClaimGeneric, Claimable, Expired
  <2>4. Respent(job[j], claimed)
    BY <1>1, <2>3 DEF Respent, Owns, ClaimedBy, NextAttempt, JobRow
  <2> HIDE DEF claimed
  <2>5. job'[j] = claimed /\ Only(j)
    BY <1>1, <2>1 DEF Only, TypeInv, TypeOK
  <2> QED BY <1>1, <2>2, <2>4, <2>5 DEF Takes
<1> QED BY <1>2, <1>3

\* The holder's attempt fails, or its answer is stored with the draft.
Fails(w, j) ==
    /\ worker[w].pc = "fail" /\ worker[w].job = j /\ LeaseHeld(w)
    /\ Only(j) /\ Stopped(job[j], job'[j]) /\ UNCHANGED <<attempts, revision>>

LEMMA FailFails ==
    ASSUME TypeInv, NEW w \in Workers, Fail(w)
    PROVE  Rests \/ \E j \in Jobs : Fails(w, j)
<1> DEFINE j == worker[w].job
           failed(s, e) == [Released(job[j]) EXCEPT !.status = s, !.error = e]
<1>1. worker[w].pc = "fail" /\ j \in Jobs /\ job[j] \in JobRow /\ UNCHANGED <<attempts, revision>>
  BY HeldType DEF Fail
<1>2. CASE UNCHANGED job
  BY <1>1, <1>2, StillRests
<1>3. CASE job' # job
  <2>1. LeaseHeld(w) /\ job[j].status = "processing"
    BY <1>3 DEF Fail, LeaseHeld
  <2>2. PICK s \in {"failed", "dead_letter", "needs_review"}, e \in ErrorCode :
            job' = [job EXCEPT ![j] = failed(s, e)]
    <3>1. job[j].rewriteError \in ErrorCode /\ "REFUSED" \in ErrorCode
      BY <1>1 DEF JobRow, ErrorCode
    <3> QED BY <1>1, <1>3, <3>1 DEF Fail, TypeInv, TypeOK
  <2> DEFINE row == failed(s, e)
  <2>3. Stopped(job[j], row)
    BY <1>1, <2>1 DEF Stopped, Rated, Owns, Released, JobRow
  <2> HIDE DEF row
  <2>4. job'[j] = row /\ Only(j)
    BY <1>1, <2>2 DEF row, Only, TypeInv, TypeOK
  <2> QED BY <1>1, <2>1, <2>3, <2>4 DEF Fails
<1> QED BY <1>2, <1>3

Stores(w, j) ==
    LET dispatched == With(AttemptOf(w), "dispatched") IN
    /\ worker[w].pc = "result" /\ worker[w].job = j /\ LeaseHeld(w)
    /\ Only(j) /\ Stored(job[j], job'[j])
    /\ dispatched \in attempts
    /\ \E s \in {"succeeded", "failed"} :
         attempts' = (attempts \ {dispatched}) \cup {With(dispatched, s)}
    /\ job[j].key \in Key => revision'[job[j].key].status # "none"

LEMMA ResultStores ==
    ASSUME TypeInv, NEW w \in Workers, Result(w)
    PROVE  (Rests /\ UNCHANGED revision) \/ \E j \in Jobs : Stores(w, j)
<1> DEFINE j == worker[w].job
           dispatched == With(AttemptOf(w), "dispatched")
           saved == [job[j] EXCEPT !.phase = "validating", !.rewriteError = ErrorOf(worker[w].answer)]
<1>1. worker[w].pc = "result" /\ j \in Jobs /\ job[j] \in JobRow
  BY HeldType DEF Result
<1>2. CASE UNCHANGED <<job, attempts, revision>>
  BY <1>2, StillRests
<1>3. CASE ~UNCHANGED <<job, attempts, revision>>
  <2>1. /\ LeaseHeld(w) /\ job[j].status = "processing" /\ dispatched \in attempts
        /\ StoreResult(w, j, dispatched)
    BY <1>3 DEF Result, TransformHeld, LeaseHeld
  <2>2. job' = [job EXCEPT ![j] = saved] \/ job' = [job EXCEPT ![j] = AwaitReview(saved)]
    BY <2>1 DEF StoreResult
  <2>3. Stored(job[j], saved) /\ Stored(job[j], AwaitReview(saved))
    BY <1>1, <2>1 DEF Stored, Owns, AwaitReview, Released, JobRow
  <2>4. \E s \in {"succeeded", "failed"} :
            attempts' = (attempts \ {dispatched}) \cup {With(dispatched, s)}
    BY <2>1 DEF StoreResult
  <2>5. job[j].key \in Key => revision'[job[j].key].status # "none"
    <3>1. PICK s \in {"validated", "building"}, b \in BOOLEAN :
              revision' = [revision EXCEPT ![job[j].key] = Draft(s, b, FALSE)]
      BY <2>1 DEF StoreResult
    <3> DEFINE row == Draft(s, b, FALSE)
    <3>2. row.status # "none" /\ revision' = [revision EXCEPT ![job[j].key] = row]
      BY <3>1 DEF Draft
    <3> HIDE DEF row
    <3> QED BY <3>2 DEF TypeInv, TypeOK
  <2> HIDE DEF saved
  <2>6. Only(j) /\ Stored(job[j], job'[j])
    BY <1>1, <2>2, <2>3 DEF Only, TypeInv, TypeOK
  <2> QED BY <1>1, <2>1, <2>4, <2>5, <2>6 DEF Stores
<1> QED BY <1>2, <1>3
\* A captured source gets its key, or is found transformed already.
Inspects(w, j) ==
    /\ worker[w].pc = "commit" /\ worker[w].job = j /\ LeaseHeld(w)
    /\ Taken(job[j], job'[j])
    /\ worker'[w].pc = "idle" \/ (worker'[w].pc = "load" /\ job'[j].key # None)
    /\ \A i \in Jobs \ {j} : Calm(i, job[i], job'[i])
    /\ UNCHANGED <<attempts, revision>>

LEMMA CommitInspects ==
    ASSUME TypeInv, KeysInv, NEW w \in Workers, CommitSource(w)
    PROVE  \/ Rests /\ UNCHANGED revision /\ worker'[w].pc \in {"idle", "record"}
           \/ \E j \in Jobs : Inspects(w, j)
<1> DEFINE j == worker[w].job
           a == job[j].article
           s == worker[w].fetched
           k == KeyOf(j, s)
<1>0. worker[w].pc = "commit" /\ UNCHANGED <<revision, attempts>>
  BY DEF CommitSource
<1>1. /\ j \in Jobs /\ job[j] \in JobRow /\ a \in Articles /\ article[a] \in ArticleRow
      /\ s \in Source
  BY <1>0, HeldType DEF TypeInv, BusyRow
<1>2. k \in Key /\ k # None
  BY <1>1 DEF KeyOf, Key, JobRow
<1>3. ASSUME LeaseHeld(w) PROVE job[j].status = "processing" /\ job[j].key = None
  <2>1. job[j].source = None
    BY <1>0, <1>3 DEF KeysInv, Unfetched
  <2>2. job[j].key # None => job[j].key \in Key
    BY <1>1 DEF JobRow
  <2>3. \A x \in Key : x.source # None
    BY DEF Key
  <2> QED BY <1>1, <1>3, <2>1, <2>2, <2>3 DEF KeysInv, KeyFits, LeaseHeld
<1>4. ASSUME LeaseHeld(w), TakeKey(w, j, a, s, k) PROVE Inspects(w, j)
  <2> DEFINE row == [job[j] EXCEPT !.source = s, !.key = k, !.phase = "normalizing"]
  <2>1. job' = [job EXCEPT ![j] = row]
    BY <1>1, <1>4 DEF TakeKey, TypeInv, TypeOK
  <2>2. Rated(job[j], row) /\ row.status = job[j].status /\ row.key = k
    BY <1>1 DEF Rated, JobRow
  <2>3. Taken(job[j], row)
    BY <1>2, <1>3, <1>4, <2>2 DEF Taken
  <2>4. worker'[w].pc = "load"
    BY <1>4, GotoMoves DEF TakeKey
  <2>5. worker[w].job = j
    OBVIOUS
  <2> HIDE DEF row, k, s, a, j
  <2>6. job'[j] = row /\ \A i \in Jobs \ {j} : job'[i] = job[i]
    BY <1>1, <2>1 DEF TypeInv, TypeOK
  <2> QED BY <1>0, <1>2, <1>4, <2>2, <2>3, <2>4, <2>5, <2>6
          DEF Inspects, Calm, Quiet, Rated, Owns
<1>5. ASSUME LeaseHeld(w), NEW o \in OwnerOf(k) \ {j}, Reuse(w, j, a, s, k, o)
      PROVE  Inspects(w, j)
  <2> DEFINE done == [Released(job[j]) EXCEPT !.source = s, !.status = "completed",
                                              !.phase = "completed"]
             inspected == [job EXCEPT ![j] = done]
             moved == [job[o] EXCEPT !.generation = AdoptedGeneration(j),
                                     !.review = "awaiting_review"]
             adopted == TerminalOwner(o, k) /\ Adopts(o, k)
  <2>1. o \in Jobs /\ o # j /\ job[o] \in JobRow /\ job[o].key = k
    BY <1>5 DEF OwnerOf, TypeInv, TypeOK
  <2>2. Taken(job[j], done)
    BY <1>1, <1>3, <1>5 DEF Taken, Rated, Released, JobRow
  <2>3. adopted => Calm(o, job[o], moved)
    <3>1. adopted => HasCandidate(o) /\ job[o].status = "needs_review"
      BY <1>2, <2>1 DEF Adopts, HasCandidate
    <3>2. adopted => Refenced(job[o], moved)
      BY <2>1, <3>1 DEF Refenced, Owns, JobRow
    <3> QED BY <3>1, <3>2 DEF Calm, Settled
  <2>4. job' = IF adopted THEN [inspected EXCEPT ![o] = moved] ELSE inspected
    BY <1>1, <1>5, <2>1 DEF Reuse, TypeInv, TypeOK
  <2>5. worker'[w].pc = "idle"
    BY <1>5, LeavePc DEF Reuse
  <2>6. worker[w].job = j
    OBVIOUS
  <2> HIDE DEF done, moved, adopted, k, s, a, j
  <2>7. /\ job'[j] = done
        /\ job'[o] = IF adopted THEN moved ELSE job[o]
        /\ \A i \in Jobs \ {j, o} : job'[i] = job[i]
    BY <1>1, <2>1, <2>4 DEF TypeInv, TypeOK
  <2>8. \A i \in Jobs \ {j} : Calm(i, job[i], job'[i])
    BY <2>3, <2>7 DEF Calm, Quiet, Rated, Owns
  <2> QED BY <1>0, <1>5, <2>2, <2>5, <2>6, <2>7, <2>8 DEF Inspects
<1>6. ASSUME UNCHANGED job, Leave(w) \/ FailWith(w, "record", "refused")
      PROVE  Rests /\ UNCHANGED revision /\ worker'[w].pc \in {"idle", "record"}
  <2>1. worker'[w].pc \in {"idle", "record"}
    BY <1>6, LeavePc, FailWithPc
  <2> QED BY <1>0, <1>6, <2>1, StillRests
<1>7. \/ UNCHANGED job /\ (Leave(w) \/ FailWith(w, "record", "refused"))
      \/ LeaseHeld(w) /\ TakeKey(w, j, a, s, k)
      \/ LeaseHeld(w) /\ \E o \in OwnerOf(k) \ {j} : Reuse(w, j, a, s, k, o)
  BY DEF CommitSource
<1> HIDE DEF k, s, a, j
<1> QED BY <1>1, <1>4, <1>5, <1>6, <1>7

(***************************************************************************)
(* What the attempts of a job say of it, and what a worker that holds its  *)
(* lease knows of its draft.                                               *)
(***************************************************************************)
Unwritten == {"normalize", "preserve", "park", "prepare", "dispatch", "model", "result"}
Written == {"reload", "validate", "publish"}

Counted ==
    \A x \in attempts :
        /\ job[x.job].status # "absent" /\ job[x.job].key # None
        /\ x.token <= job[x.job].token /\ x.number \in 1 .. job[x.job].retry
        /\ x.token = job[x.job].token => x.number = job[x.job].retry
        /\ x.number = job[x.job].retry /\ x.token # job[x.job].token => HasCandidate(x.job)

Informed(v, i) ==
    LeaseHeld(v) =>
        /\ worker[v].pc \in Unwritten \cup Written \cup {"load"} => job[i].key # None
        /\ worker[v].pc \in Unwritten => ~HasCandidate(i)
        /\ worker[v].pc \in Written => HasCandidate(i)
        /\ worker[v].pc = "fail" => \A x \in AttemptsOf(i) : x.status # "dispatched"

PcFits == \A v \in Workers, i \in Jobs : worker[v].job = i => Informed(v, i)

LedgerInv ==
    /\ KeysInv /\ ProfileFits /\ RowInv /\ PcFits
    /\ Counted /\ OneDispatchPerAttempt /\ OpenDeliveryAccounted

\* What can become of one row.
Turned(i) ==
    \/ Calm(i, job[i], job'[i]) \/ Stopped(job[i], job'[i]) \/ Respent(job[i], job'[i])
    \/ Taken(job[i], job'[i])
    \/ Stored(job[i], job'[i]) /\ HasCandidate(i)'

LEMMA RowStays ==
    ASSUME TypeInv, LedgerInv, [Next]_vars, \A i \in Jobs : Turned(i)
    PROVE  RowInv'
<1> SUFFICES ASSUME NEW i \in Jobs
             PROVE  /\ job'[i].retry <= MaxAttempts
                    /\ job'[i].retry = 0 => job'[i].status \in {"absent", "pending"}
                                            /\ job'[i].key = None
                    /\ job'[i].review # "none" => HasCandidate(i)'
                    /\ job'[i].source # None /\ job'[i].key = None =>
                         job'[i].status \in {"completed", "needs_review"}
  BY DEF RowInv
<1> DEFINE old == job[i]
           new == job'[i]
<1>0. /\ old \in JobRow /\ old.retry \in Nat /\ old.retry <= MaxAttempts
      /\ old.retry = 0 => old.status \in {"absent", "pending"} /\ old.key = None
      /\ old.source # None /\ old.key = None => old.status \in {"completed", "needs_review"}
  BY DEF LedgerInv, RowInv, TypeInv, TypeOK, JobRow
<1>1. HasCandidate(i) => HasCandidate(i)' /\ old.key # None
  BY CandidateStays DEF LedgerInv, HasCandidate
<1>2. old.review # "none" => HasCandidate(i)
  BY DEF LedgerInv, RowInv
<1> HIDE DEF old, new
<1>3. CASE Quiet(old, new)
  BY <1>0, <1>1, <1>2, <1>3 DEF Quiet, Rated, Owns, new
<1>4. CASE Fresh(old, new)
  BY <1>4 DEF Fresh, new
<1>5. CASE Settled(i, old, new)
  BY <1>0, <1>1, <1>5 DEF Settled, Refenced, Owns, new
<1>6. CASE Untried(i, old, new)
  BY <1>0, <1>1, <1>2, <1>6 DEF Untried, Refenced, Owns, new
<1>7. CASE Stopped(old, new) \/ (Stored(old, new) /\ HasCandidate(i)')
  BY <1>0, <1>1, <1>2, <1>7 DEF Stopped, Stored, Rated, Owns, new
<1>8. CASE Respent(old, new)
  BY <1>0, <1>1, <1>2, <1>8 DEF Respent, Owns, new
<1>9. CASE Taken(old, new)
  BY <1>0, <1>1, <1>2, <1>9 DEF Taken, Rated, new
<1> QED BY <1>3, <1>4, <1>5, <1>6, <1>7, <1>8, <1>9 DEF Turned, Calm, old, new
\* What one attempt on record says of its job.
AttemptFits(x) ==
    /\ job[x.job].status # "absent" /\ job[x.job].key # None
    /\ x.token <= job[x.job].token /\ x.number \in 1 .. job[x.job].retry
    /\ x.token = job[x.job].token => x.number = job[x.job].retry
    /\ x.number = job[x.job].retry /\ x.token # job[x.job].token => HasCandidate(x.job)
    /\ x.status = "dispatched" =>
        /\ job[x.job].status = "processing" /\ job[x.job].token = x.token
        /\ ~HasCandidate(x.job)

LEMMA LedgerFits == ASSUME LedgerInv, NEW x \in attempts PROVE AttemptFits(x)
BY DEF LedgerInv, Counted, OpenDeliveryAccounted, AttemptFits

LEMMA FitsLedger ==
    ASSUME RowInv', TypeInv', \A x \in attempts' : AttemptFits(x)',
           \A x, y \in attempts' : x.job = y.job /\ x.number = y.number => x = y
    PROVE  (Counted /\ OneDispatchPerAttempt /\ OpenDeliveryAccounted)'
<1>1. Counted'
  BY DEF Counted, AttemptFits
<1>2. OpenDeliveryAccounted'
  BY DEF OpenDeliveryAccounted, AttemptFits
<1>3. ASSUME NEW x \in attempts' PROVE x.number \in 1 .. MaxAttempts
  <2>1. x.job \in Jobs
    BY DEF TypeInv, TypeOK, Attempt
  <2>2. job'[x.job].retry <= MaxAttempts /\ job'[x.job].retry \in Nat
    BY <2>1 DEF RowInv, TypeInv, TypeOK, JobRow
  <2>3. x.number \in 1 .. job'[x.job].retry
    BY DEF AttemptFits
  <2> QED BY <2>2, <2>3
<1> QED BY <1>1, <1>2, <1>3 DEF OneDispatchPerAttempt

LEMMA AttemptType ==
    ASSUME TypeInv, NEW x \in attempts
    PROVE  /\ x \in Attempt /\ x.job \in Jobs /\ x.token \in Nat /\ x.number \in Nat
           /\ job[x.job] \in JobRow /\ job[x.job].token \in Nat /\ job[x.job].retry \in Nat
BY DEF TypeInv, TypeOK, Attempt, JobRow

\* No draft appears where an attempt is on record.
Undrafted(i) == job[i].key \in Key /\ Drafted(job[i].key) => AttemptsOf(i) = {}

LEMMA SameCandidate ==
    ASSUME TypeInv, LedgerInv, [Next]_vars, NEW x \in attempts, Undrafted(x.job)
    PROVE  HasCandidate(x.job)' <=> HasCandidate(x.job)
<1> DEFINE i == x.job
<1>1. i \in Jobs /\ x \in AttemptsOf(i) /\ job[i].key # None
  BY AttemptType, LedgerFits DEF AttemptsOf, AttemptFits
<1>2. job'[i].key = job[i].key /\ job[i].key \in Key
  BY <1>1, KeyStays DEF LedgerInv, TypeInv, TypeOK, JobRow
<1>3. ~Drafted(job[i].key)
  BY <1>1, <1>2 DEF Undrafted
<1>4. HasCandidate(i) => HasCandidate(i)'
  BY <1>1, CandidateStays DEF LedgerInv
<1>5. HasCandidate(i)' => HasCandidate(i)
  BY <1>1, <1>2, <1>3 DEF HasCandidate, Drafted
<1> QED BY <1>4, <1>5

LEMMA CalmAttempt ==
    ASSUME TypeInv, LedgerInv, [Next]_vars, NEW x \in attempts, Undrafted(x.job),
           Calm(x.job, job[x.job], job'[x.job])
    PROVE  AttemptFits(x)'
<1> DEFINE i == x.job
           old == job[i]
           new == job'[i]
           candidate == HasCandidate(i)
<1>1. AttemptFits(x) /\ x \in AttemptsOf(i)
  BY LedgerFits DEF AttemptsOf
<1>2. HasCandidate(i)' <=> HasCandidate(i)
  BY SameCandidate
<1>3. x.token \in Nat /\ old.token \in Nat /\ old.retry \in Nat /\ x.number \in Nat /\ i \in Jobs
  BY AttemptType
<1>4. new.key = old.key
  BY <1>1, <1>3, KeyStays DEF LedgerInv, AttemptFits
<1> HIDE DEF i
<1>5. CASE Quiet(old, new)
  BY <1>1, <1>2, <1>4, <1>5 DEF AttemptFits, Quiet, Rated, i
<1>6. CASE Fresh(old, new)
  BY <1>1, <1>6 DEF AttemptFits, Fresh, i
<1>7. CASE Settled(i, old, new)
  <2>1. HasCandidate(i) /\ x.status # "dispatched"
    BY <1>1, <1>7 DEF AttemptFits, Settled, i
  <2>2. new.status # "absent" /\ new.retry = old.retry /\ new.token \in {old.token, old.token + 1}
    BY <1>7 DEF Settled, Refenced
  <2>3. x.token <= new.token /\ (x.token = new.token => x.token = old.token)
    BY <1>1, <1>3, <2>2 DEF AttemptFits, i
  <2> QED BY <1>1, <1>2, <1>4, <2>1, <2>2, <2>3 DEF AttemptFits, i
<1>8. CASE Untried(i, old, new)
  BY <1>1, <1>8 DEF Untried
<1> QED BY <1>5, <1>6, <1>7, <1>8 DEF Calm, i

LEMMA RestLedger ==
    ASSUME TypeInv, TypeInv', LedgerInv, RowInv', [Next]_vars, Rests, \A i \in Jobs : Undrafted(i)
    PROVE  (Counted /\ OneDispatchPerAttempt /\ OpenDeliveryAccounted)'
<1>1. ASSUME NEW x \in attempts' PROVE AttemptFits(x)'
  <2>1. x \in attempts /\ x.job \in Jobs
    BY AttemptType DEF Rests
  <2> QED BY <2>1, CalmAttempt DEF Rests
<1>2. \A x, y \in attempts' : x.job = y.job /\ x.number = y.number => x = y
  BY DEF Rests, LedgerInv, OneDispatchPerAttempt
<1> QED BY <1>1, <1>2, FitsLedger

LEMMA InspectLedger ==
    ASSUME TypeInv, TypeInv', LedgerInv, RowInv', [Next]_vars,
           NEW w \in Workers, NEW j \in Jobs, Inspects(w, j)
    PROVE  (Counted /\ OneDispatchPerAttempt /\ OpenDeliveryAccounted)'
<1>1. \A i \in Jobs : Undrafted(i)
  BY DEF Inspects, Undrafted, Drafted
<1>2. ASSUME NEW x \in attempts' PROVE AttemptFits(x)'
  <2>1. x \in attempts /\ x.job \in Jobs
    BY AttemptType DEF Inspects
  <2>2. x.job # j
    BY <2>1, LedgerFits DEF Inspects, Taken, AttemptFits
  <2> QED BY <1>1, <2>1, <2>2, CalmAttempt DEF Inspects
<1>3. \A x, y \in attempts' : x.job = y.job /\ x.number = y.number => x = y
  BY DEF Inspects, LedgerInv, OneDispatchPerAttempt
<1> QED BY <1>2, <1>3, FitsLedger

\* An attempt of a job whose row stays.
LEMMA StillAttempt ==
    ASSUME TypeInv, LedgerInv, [Next]_vars, NEW x \in attempts, Undrafted(x.job),
           job'[x.job] = job[x.job]
    PROVE  AttemptFits(x)'
<1>1. Calm(x.job, job[x.job], job'[x.job])
  BY DEF Calm, Quiet, Rated, Owns
<1> QED BY <1>1, CalmAttempt

LEMMA FailLedger ==
    ASSUME TypeInv, TypeInv', LedgerInv, RowInv', [Next]_vars,
           NEW w \in Workers, NEW j \in Jobs, Fails(w, j)
    PROVE  (Counted /\ OneDispatchPerAttempt /\ OpenDeliveryAccounted)'
<1>1. \A i \in Jobs : Undrafted(i)
  BY DEF Fails, Undrafted, Drafted
<1>2. ASSUME NEW x \in attempts' PROVE AttemptFits(x)'
  <2>1. x \in attempts /\ x.job \in Jobs
    BY AttemptType DEF Fails
  <2>2. CASE x.job # j
    BY <1>1, <2>1, <2>2, StillAttempt DEF Fails, Only
  <2>3. CASE x.job = j
    <3>1. x.status # "dispatched"
      BY <2>1, <2>3 DEF Fails, LedgerInv, PcFits, Informed, AttemptsOf
    <3>2. HasCandidate(j)' <=> HasCandidate(j)
      BY <1>1, <2>1, <2>3, SameCandidate
    <3>3. /\ job'[j].token = job[j].token /\ job'[j].retry = job[j].retry
          /\ job'[j].key = job[j].key /\ job'[j].status # "absent"
      BY DEF Fails, Stopped, Rated, Owns
    <3>4. AttemptFits(x)
      BY <2>1, LedgerFits
    <3> QED BY <2>3, <3>1, <3>2, <3>3, <3>4 DEF AttemptFits
  <2> QED BY <2>2, <2>3
<1>3. \A x, y \in attempts' : x.job = y.job /\ x.number = y.number => x = y
  BY DEF Fails, LedgerInv, OneDispatchPerAttempt
<1> QED BY <1>2, <1>3, FitsLedger
\* An attempt that was closed or carried over: the same but for its status.
SameCall(x, y) == x.job = y.job /\ x.token = y.token /\ x.number = y.number

Closes(old, new) ==
    /\ \A y \in new : \E x \in old : SameCall(x, y) /\ (y.status = "dispatched" => y = x)
    /\ \A y, z \in new : SameCall(y, z) => y = z

LEMMA ClosedCalls ==
    ASSUME LedgerInv, Closes(attempts, attempts')
    PROVE  \A y, z \in attempts' : y.job = z.job /\ y.number = z.number => y = z
BY DEF Closes, SameCall, LedgerInv, OneDispatchPerAttempt

LEMMA SameCallFits ==
    ASSUME NEW x, NEW y, SameCall(x, y), AttemptFits(x)', y.status = "dispatched" => y = x
    PROVE  AttemptFits(y)'
BY DEF SameCall, AttemptFits

Marked(Open, s) == {IF x \in Open THEN [x EXCEPT !.status = s] ELSE x : x \in attempts}

LEMMA MappedCloses ==
    ASSUME TypeInv, LedgerInv, NEW Open, NEW s, s # "dispatched", attempts' = Marked(Open, s)
    PROVE  Closes(attempts, attempts')
<1>1. ASSUME NEW x \in attempts
      PROVE  SameCall(x, [x EXCEPT !.status = s]) /\ [x EXCEPT !.status = s].status = s
  BY AttemptType DEF SameCall, Attempt
<1>2. ASSUME NEW y \in attempts'
      PROVE  \E x \in attempts : /\ y = IF x \in Open THEN [x EXCEPT !.status = s] ELSE x
                                 /\ SameCall(x, y) /\ (y.status = "dispatched" => y = x)
  <2>1. PICK x \in attempts : y = IF x \in Open THEN [x EXCEPT !.status = s] ELSE x
    BY DEF Marked
  <2>2. CASE x \in Open
    BY <1>1, <2>1, <2>2
  <2>3. CASE x \notin Open
    BY <2>1, <2>3 DEF SameCall
  <2> QED BY <2>1, <2>2, <2>3
<1>3. ASSUME NEW y \in attempts', NEW z \in attempts', SameCall(y, z) PROVE y = z
  <2>1. PICK a \in attempts : /\ y = IF a \in Open THEN [a EXCEPT !.status = s] ELSE a
                              /\ SameCall(a, y)
    BY <1>2
  <2>2. PICK b \in attempts : /\ z = IF b \in Open THEN [b EXCEPT !.status = s] ELSE b
                              /\ SameCall(b, z)
    BY <1>2
  <2>3. a = b
    BY <1>3, <2>1, <2>2 DEF SameCall, LedgerInv, OneDispatchPerAttempt
  <2> QED BY <2>1, <2>2, <2>3
<1> QED BY <1>2, <1>3 DEF Closes

LEMMA TakeLedger ==
    ASSUME TypeInv, TypeInv', LedgerInv, RowInv', [Next]_vars, \A i \in Jobs : Undrafted(i),
           NEW w \in Workers, NEW j \in Jobs, Takes(w, j)
    PROVE  (Counted /\ OneDispatchPerAttempt /\ OpenDeliveryAccounted)'
<1> DEFINE open(x) == x.job = j /\ x.token = job[j].token /\ x.status = "dispatched"
<1>1. Closes(attempts, attempts')
  <2>1. CASE attempts' = WithAmbiguous(j)
    <3> DEFINE Open == {x \in attempts : open(x)}
    <3>1. attempts' = Marked(Open, "ambiguous")
      BY <2>1 DEF WithAmbiguous, Marked
    <3> HIDE DEF Open
    <3> QED BY <3>1, MappedCloses
  <2>2. CASE UNCHANGED attempts
    BY <2>2 DEF Closes, SameCall, LedgerInv, OneDispatchPerAttempt
  <2> QED BY <2>1, <2>2 DEF Takes
<1>2. ASSUME NEW y \in attempts' PROVE AttemptFits(y)'
  <2>1. PICK x \in attempts : SameCall(x, y) /\ (y.status = "dispatched" => y = x)
    BY <1>1 DEF Closes
  <2>2. x.job \in Jobs /\ x.token \in Nat /\ x.number \in Nat
    BY AttemptType
  <2>3. CASE x.job # j
    BY <2>1, <2>2, <2>3, StillAttempt, SameCallFits DEF Takes, Only
  <2>4. CASE x.job = j
    <3>1. AttemptFits(x) /\ job[j].token \in Nat /\ job[j].retry \in Nat
      BY <2>4, LedgerFits, AttemptType
    <3>2. y.status # "dispatched"
      <4>1. CASE attempts' = WithAmbiguous(j)
        <5>1. PICK z \in attempts : y = IF open(z) THEN [z EXCEPT !.status = "ambiguous"] ELSE z
          BY <4>1 DEF WithAmbiguous
        <5>2. z.job \in Jobs /\ z \in Attempt /\ AttemptFits(z)
          BY AttemptType, LedgerFits
        <5>3. open(z) => y.status = "ambiguous"
          BY <5>1, <5>2 DEF Attempt
        <5>4. ~open(z) => y = z /\ z.job = j
          BY <2>1, <2>4, <5>1 DEF SameCall
        <5> QED BY <5>2, <5>3, <5>4 DEF AttemptFits
      <4>2. CASE UNCHANGED attempts /\ job[j].status # "processing"
        BY <2>1, <2>4, <3>1, <4>2 DEF AttemptFits
      <4> QED BY <4>1, <4>2 DEF Takes
    <3>3. job'[j].key = job[j].key /\ job'[j].status # "absent"
      BY DEF Takes, Respent, Stopped, Owns
    <3>4. HasCandidate(j) => HasCandidate(j)'
      BY CandidateStays DEF LedgerInv
    <3>5. CASE Respent(job[j], job'[j])
      BY <2>1, <2>2, <2>4, <3>1, <3>2, <3>3, <3>5 DEF AttemptFits, SameCall, Respent
    <3>6. CASE Stopped(job[j], job'[j])
      BY <2>1, <2>2, <2>4, <3>1, <3>2, <3>3, <3>4, <3>6 DEF AttemptFits, SameCall, Stopped, Rated
    <3> QED BY <3>5, <3>6 DEF Takes
  <2> QED BY <2>3, <2>4
<1> QED BY <1>1, <1>2, ClosedCalls, FitsLedger

LEMMA HeldRow ==
    ASSUME TypeInv, LedgerInv, NEW w \in Workers, NEW j \in Jobs, worker[w].job = j, LeaseHeld(w)
    PROVE  /\ job[j].status = "processing" /\ job[j].token = worker[w].token
           /\ job[j].retry \in Nat \ {0} /\ job[j].token \in Nat
           /\ job[j].key # None => job[j].key \in Key
           /\ Informed(w, j)
BY DEF LeaseHeld, LedgerInv, RowInv, PcFits, TypeInv, TypeOK, JobRow

LEMMA StoreLedger ==
    ASSUME TypeInv, TypeInv', LedgerInv, RowInv', [Next]_vars,
           NEW w \in Workers, NEW j \in Jobs, Stores(w, j), \A i \in Jobs \ {j} : Undrafted(i)
    PROVE  (Counted /\ OneDispatchPerAttempt /\ OpenDeliveryAccounted)'
<1> DEFINE d == With(AttemptOf(w), "dispatched")
<1>1. /\ job[j].token = worker[w].token /\ job[j].key # None /\ job[j].key \in Key
      /\ job[j].token \in Nat /\ job[j].retry \in Nat
  BY HeldRow DEF Stores, Informed, Unwritten
<1>2. d \in attempts /\ d.job = j /\ d.token = job[j].token /\ d.number = job[j].retry
      /\ d.status = "dispatched"
  BY <1>1 DEF Stores, With, AttemptOf
<1>3. PICK s \in {"succeeded", "failed"} : attempts' = (attempts \ {d}) \cup {With(d, s)}
  BY DEF Stores
<1>4. SameCall(d, With(d, s)) /\ With(d, s).status # "dispatched"
  BY DEF SameCall, With
<1> DEFINE e == With(d, s)
<1> HIDE DEF d, e
<1>5. Closes(attempts, attempts')
  <2>1. \A y \in attempts' : \E x \in attempts : SameCall(x, y) /\ (y.status = "dispatched" => y = x)
    BY <1>2, <1>3, <1>4 DEF SameCall
  <2>2. \A y, z \in attempts : SameCall(y, z) => y = z
    BY DEF SameCall, LedgerInv, OneDispatchPerAttempt
  <2>3. \A y \in attempts \ {d} : ~SameCall(y, With(d, s))
    BY <1>2, <1>4, <2>2 DEF SameCall
  <2> QED BY <1>3, <2>1, <2>2, <2>3 DEF Closes, SameCall
<1>6. HasCandidate(j)'
  BY <1>1 DEF Stores, Stored, Owns, HasCandidate
<1>7. ASSUME NEW y \in attempts' PROVE AttemptFits(y)'
  <2>1. PICK x \in attempts : SameCall(x, y) /\ (y.status = "dispatched" => y = x)
    BY <1>5 DEF Closes
  <2>2. x.job \in Jobs /\ AttemptFits(x)
    BY AttemptType, LedgerFits
  <2>3. CASE x.job # j
    BY <2>1, <2>2, <2>3, StillAttempt, SameCallFits DEF Stores, Only
  <2>4. CASE x.job = j
    <3>1. y.status # "dispatched"
      <4>1. CASE x.status = "dispatched" /\ y = x
        <5>1. x.token = d.token /\ x.number = d.number
          BY <1>2, <2>2, <2>4, <4>1 DEF AttemptFits
        <5>2. x = d
          BY <1>2, <2>4, <5>1 DEF LedgerInv, OneDispatchPerAttempt
        <5> QED BY <1>3, <1>4, <1>2, <4>1, <5>2
      <4> QED BY <2>1, <4>1
    <3>2. /\ job'[j].token = job[j].token /\ job'[j].retry = job[j].retry
          /\ job'[j].key = job[j].key /\ job'[j].status # "absent"
      BY DEF Stores, Stored, Owns
    <3> QED BY <1>6, <2>1, <2>2, <2>4, <3>1, <3>2 DEF AttemptFits, SameCall
  <2> QED BY <2>3, <2>4
<1> QED BY <1>5, <1>7, ClosedCalls, FitsLedger
\* The steps of a delivery, while the rows of the jobs and the drafts stay.
StillFits ==
    /\ UNCHANGED <<job, revision>>
    /\ \A y \in attempts' \ attempts :
         AttemptFits(y) /\ \A x \in attempts' : x.job = y.job /\ x.number = y.number => x = y

LEMMA StillFitsLedger ==
    ASSUME TypeInv', LedgerInv, RowInv', StillFits
    PROVE  (Counted /\ OneDispatchPerAttempt /\ OpenDeliveryAccounted)'
<1>1. ASSUME NEW y \in attempts' PROVE AttemptFits(y)'
  <2>1. AttemptFits(y)
    BY LedgerFits DEF StillFits
  <2> QED BY <2>1 DEF StillFits, AttemptFits, HasCandidate
<1>2. \A x, y \in attempts' : x.job = y.job /\ x.number = y.number => x = y
  BY DEF StillFits, LedgerInv, OneDispatchPerAttempt
<1> QED BY <1>1, <1>2, FitsLedger

LEMMA PrepareFits ==
    ASSUME TypeInv, LedgerInv, NEW w \in Workers, Prepare(w)
    PROVE  StillFits
<1> DEFINE j == worker[w].job
           p == With(AttemptOf(w), "prepared")
<1>0. worker[w].pc = "prepare" /\ j \in Jobs /\ UNCHANGED <<job, revision>>
  BY HeldType DEF Prepare
<1>1. CASE UNCHANGED attempts
  BY <1>0, <1>1 DEF StillFits
<1>2. CASE attempts' # attempts
  <2>1. /\ LeaseHeld(w) /\ attempts' = attempts \cup {p}
        /\ ~ \E x \in attempts : Numbered(x, AttemptOf(w))
    BY <1>2 DEF Prepare, TransformHeld
  <2>2. /\ job[j].status = "processing" /\ job[j].token = worker[w].token
        /\ job[j].retry \in Nat \ {0} /\ job[j].token \in Nat
        /\ job[j].key # None /\ ~HasCandidate(j)
    BY <1>0, <2>1, HeldRow DEF Informed, Unwritten
  <2>3. /\ p.job = j /\ p.token = job[j].token /\ p.number = job[j].retry
        /\ p.status = "prepared"
    BY <2>2 DEF With, AttemptOf
  <2>4. AttemptFits(p)
    BY <2>2, <2>3 DEF AttemptFits
  <2>5. ASSUME NEW x \in attempts, x.job = p.job, x.number = p.number PROVE FALSE
    <3>1. AttemptFits(x)
      BY LedgerFits
    <3>2. x.token = job[j].token
      BY <2>2, <2>3, <2>5, <3>1 DEF AttemptFits
    <3> QED BY <2>1, <2>2, <2>3, <2>5, <3>2 DEF Numbered, AttemptOf
  <2> HIDE DEF p
  <2> QED BY <1>0, <2>1, <2>4, <2>5 DEF StillFits
<1> QED BY <1>1, <1>2

LEMMA DispatchFits ==
    ASSUME TypeInv, LedgerInv, NEW w \in Workers, Dispatch(w)
    PROVE  StillFits
<1> DEFINE j == worker[w].job
           p == With(AttemptOf(w), "prepared")
           d == With(AttemptOf(w), "dispatched")
<1>0. worker[w].pc = "dispatch" /\ j \in Jobs /\ UNCHANGED <<job, revision>>
  BY HeldType DEF Dispatch
<1>1. CASE UNCHANGED attempts
  BY <1>0, <1>1 DEF StillFits
<1>2. CASE attempts' # attempts
  <2>1. LeaseHeld(w) /\ p \in attempts /\ attempts' = (attempts \ {p}) \cup {d}
    BY <1>2 DEF Dispatch, TransformHeld
  <2>2. /\ job[j].status = "processing" /\ job[j].token = worker[w].token /\ ~HasCandidate(j)
    BY <1>0, <2>1, HeldRow DEF Informed, Unwritten
  <2>3. /\ p.job = j /\ d.job = j /\ d.number = p.number /\ d.token = p.token
        /\ d.token = job[j].token
    BY <2>2 DEF With, AttemptOf
  <2> HIDE DEF p, d
  <2>4. AttemptFits(p)
    BY <2>1, LedgerFits
  <2>5. AttemptFits(d)
    BY <2>2, <2>3, <2>4 DEF AttemptFits
  <2>6. ASSUME NEW x \in attempts, x.job = d.job, x.number = d.number PROVE x = p
    BY <2>1, <2>3, <2>6 DEF LedgerInv, OneDispatchPerAttempt
  <2> QED BY <1>0, <2>1, <2>5, <2>6 DEF StillFits
<1> QED BY <1>1, <1>2

LEMMA RecordLedger ==
    ASSUME TypeInv, TypeInv', LedgerInv, RowInv', NEW w \in Workers, Record(w)
    PROVE  (Counted /\ OneDispatchPerAttempt /\ OpenDeliveryAccounted)'
<1> DEFINE s == Closed(worker[w].failure)
           Open == {x \in attempts : /\ x.job = worker[w].job /\ x.token = worker[w].token
                                     /\ x.status \in {"prepared", "dispatched"}}
<1>0. UNCHANGED <<job, revision>>
  BY DEF Record
<1>1. CASE UNCHANGED attempts
  BY <1>0, <1>1, StillFitsLedger DEF StillFits
<1>2. CASE attempts' # attempts
  <2>1. attempts' = Marked(Open, s)
    BY <1>2 DEF Record, Marked
  <2>2. s # "dispatched"
    BY DEF Closed
  <2> HIDE DEF s, Open
  <2>3. Closes(attempts, attempts')
    BY <2>1, <2>2, MappedCloses
  <2>4. ASSUME NEW y \in attempts' PROVE AttemptFits(y)'
    <3>1. PICK x \in attempts : SameCall(x, y) /\ (y.status = "dispatched" => y = x)
      BY <2>3 DEF Closes
    <3>2. AttemptFits(x)
      BY LedgerFits
    <3>3. AttemptFits(x)'
      BY <1>0, <3>2 DEF AttemptFits, HasCandidate
    <3> QED BY <3>1, <3>3, SameCallFits
  <2> QED BY <2>3, <2>4, ClosedCalls, FitsLedger
<1> QED BY <1>1, <1>2

(***************************************************************************)
(* The step as a whole.                                                    *)
(***************************************************************************)
\* Who adds a dispatched attempt.
LEMMA NewDispatched ==
    ASSUME TypeInv, [Next]_vars, NEW x \in attempts', x.status = "dispatched", x \notin attempts
    PROVE  \E w \in Workers : Dispatch(w) /\ LeaseHeld(w) /\ x.job = worker[w].job
<1>1. attempts' # attempts
  OBVIOUS
<1>2. ASSUME NEW j \in Jobs, attempts' = WithAmbiguous(j) PROVE FALSE
  BY <1>2 DEF WithAmbiguous, TypeInv, TypeOK, Attempt
<1>3. ASSUME NEW w \in Workers, Run(w)
      PROVE  Dispatch(w) /\ LeaseHeld(w) /\ x.job = worker[w].job
  <2>1. CASE Dispatch(w)
    BY <1>1, <2>1 DEF Dispatch, TransformHeld, With, AttemptOf
  <2>2. CASE Prepare(w)
    BY <1>1, <2>2 DEF Prepare, With
  <2>3. CASE Result(w)
    <3>1. PICK j \in Jobs : Stores(w, j)
      BY <1>1, <2>3, ResultStores DEF Rests
    <3> DEFINE d == With(AttemptOf(w), "dispatched")
    <3>2. PICK s \in {"succeeded", "failed"} :
              attempts' = (attempts \ {d}) \cup {With(d, s)}
      BY <3>1 DEF Stores
    <3>3. With(d, s).status = s
      BY DEF With
    <3> QED BY <3>2, <3>3
  <2>4. CASE Record(w)
    BY <1>1, <2>4 DEF Record, Closed, TypeInv, TypeOK, Attempt
  <2> QED BY <1>1, <1>3, <2>1, <2>2, <2>3, <2>4
          DEF Run, Begin, Capture, CommitSource, Load, Normalize, Preserve, Park, Model, Reload,
              Validate, Publish, Fail, RowsKept
<1>4. ASSUME NEW w \in Workers, Claim(w) PROVE FALSE
  <2>1. worker[w].pc = "sweep" => worker[w].job \in Jobs
    BY HeldType
  <2> QED BY <1>1, <1>2, <1>4, <2>1
          DEF Claim, ClaimAutomatic, ClaimReview, ClaimConfiguration, PassResume, SweepExhausted,
              ClaimGeneric, NothingToClaim
<1> QED BY <1>1, <1>3, <1>4
        DEF Next, vars, Heartbeat, Crash, GiveUp, RowsKept, Request, EnsureJob, RefreshJob,
            Reproject, UntouchedByRequests, LeaseTick, Decide, Export, Approve, Reject, Correct,
            CorrectFailed, UntouchedByReviews
\* A worker that holds a lease after a step of others held it before.
LEMMA LeaseKept ==
    ASSUME TypeInv, [Next]_vars, NEW v \in Workers, ~Run(v), worker'[v] = worker[v],
           worker[v].pc \notin {"idle", "sweep"}, LeaseHeld(v)'
    PROVE  LeaseHeld(v) /\ (Claim(v) => FALSE)
<1> DEFINE i == worker[v].job
<1>0. i \in Jobs /\ job'[i].status = "processing" /\ job'[i].owner = v
      /\ job'[i].token = worker[v].token /\ job'[i].lease > 0
  BY HeldType DEF LeaseHeld
<1>1. ~Claim(v)
  BY ClaimAlone
<1>2. ASSUME NEW mover, mover # v, JobsKeep(mover) PROVE LeaseHeld(v)
  BY <1>0, <1>2 DEF JobsKeep, RowKeeps, LeaseHeld
<1>3. ASSUME NEW w \in Workers, CommitSource(w) PROVE LeaseHeld(v)
  <2>1. w # v
    BY <1>3 DEF Run
  <2>2. CASE UNCHANGED job
    BY <1>0, <2>2 DEF LeaseHeld
  <2>3. CASE CapturesAny(w)
    <3>1. PICK j \in Jobs, a \in Articles, s \in Source, k \in Key : Captures(w, j, a, s, k)
      BY <2>3 DEF CapturesAny
    <3>2. i # j
      BY <1>0, <2>1, <3>1 DEF Captures
    <3> QED BY <1>0, <3>1, <3>2 DEF Captures, Adoptable, LeaseHeld
  <2> QED BY <1>3, <2>2, <2>3, CommitCaptures
<1>4. v # None
  OBVIOUS
<1>5. ~Crash(v)
  <2>1. Leave(v) => worker'[v].pc = "idle"
    BY LeavePc
  <2> QED BY <2>1 DEF Crash, GiveUp
<1> QED BY <1>1, <1>2, <1>3, <1>4, <1>5, NextKeeps

LEMMA OthersInformed ==
    ASSUME TypeInv, LedgerInv, [Next]_vars, NEW v \in Workers, ~Run(v), worker'[v] = worker[v],
           NEW i \in Jobs, worker[v].job = i
    PROVE  Informed(v, i)'
<1> SUFFICES ASSUME LeaseHeld(v)', worker[v].pc \notin {"idle", "sweep"} PROVE Informed(v, i)'
  BY DEF Informed, Unwritten, Written
<1>1. LeaseHeld(v) /\ Informed(v, i)
  BY LeaseKept DEF LedgerInv, PcFits
<1>2. job[i].status = "processing" /\ job[i].owner = v
  BY <1>1 DEF LeaseHeld
<1>3. ASSUME NEW w \in Workers, Run(w), LeaseHeld(w) PROVE worker[w].job # i
  BY <1>2, <1>3 DEF LeaseHeld
<1>4. job[i].key # None => job'[i].key = job[i].key /\ job[i].key \in Key
  BY KeyStays DEF LedgerInv, TypeInv, TypeOK, JobRow
<1>5. HasCandidate(i) => HasCandidate(i)'
  BY CandidateStays DEF LedgerInv
<1>6. ASSUME job[i].key # None, ~HasCandidate(i) PROVE ~HasCandidate(i)'
  <2>1. \A w \in Workers : Run(w) /\ LeaseHeld(w) => job[worker[w].job].key # job[i].key
    BY <1>3, <1>6 DEF LedgerInv, KeysInv, OneOwner, LeaseHeld, TypeInv, TypeOK, WorkerRow
  <2>2. ~Drafted(job[i].key)
    BY <1>4, <1>6, <2>1, NextDrafts
  <2> QED BY <1>4, <1>6, <2>2 DEF HasCandidate, Drafted
<1>7. ASSUME NEW x \in attempts', x.status = "dispatched", x.job = i
      PROVE  x \in attempts
  BY <1>3, <1>7, NewDispatched DEF Run
<1> HIDE DEF HasCandidate
<1> QED BY <1>1, <1>4, <1>5, <1>6, <1>7 DEF Informed, AttemptsOf

LEMMA FailWithMoves ==
    ASSUME TypeInv, NEW w \in Workers, NEW pc, NEW f, FailWith(w, pc, f)
    PROVE  worker'[w].pc = pc /\ worker'[w].job = worker[w].job
<1> DEFINE row == [worker[w] EXCEPT !.pc = pc, !.failure = f]
<1>1. worker[w] \in WorkerRow /\ worker \in [Workers -> WorkerRow]
  BY DEF TypeInv, TypeOK
<1>2. row.pc = pc /\ row.job = worker[w].job
  BY <1>1 DEF WorkerRow
<1>3. worker' = [worker EXCEPT ![w] = row]
  BY <1>1 DEF FailWith
<1> HIDE DEF row
<1> QED BY <1>1, <1>2, <1>3

\* Where a step of its own leaves a worker that still holds the lease.
LEMMA ActorInformed ==
    ASSUME TypeInv, LedgerInv, [Next]_vars, NEW v \in Workers, Run(v), NEW i \in Jobs,
           worker'[v].job = i, LeaseHeld(v)'
    PROVE  Informed(v, i)'
<1> DEFINE pc == worker'[v].pc
           Idle == pc \notin Unwritten \cup Written \cup {"load", "fail"}
           Same == worker[v].job = i
<1>0. worker[v].pc # "idle" /\ worker[v].job \in Jobs
  <2>1. worker[v].pc # "idle"
    BY DEF Run, Begin, Capture, CommitSource, Load, Normalize, Preserve, Park, Prepare, Dispatch,
           Model, Result, Reload, Validate, Publish, Record, Fail
  <2> QED BY <2>1, HeldType
<1>1. ASSUME Idle PROVE Informed(v, i)'
  BY <1>1 DEF Informed
<1>2. ASSUME Leave(v) \/ (\E f : FailWith(v, "record", f)) PROVE Informed(v, i)'
  <2>1. pc \in {"idle", "record"}
    BY <1>2, LeavePc, FailWithMoves
  <2> QED BY <1>1, <2>1 DEF Unwritten, Written
<1>3. ASSUME NEW p, Goto(v, p) \/ (\E f : FailWith(v, p, f)) PROVE pc = p /\ Same
  BY <1>3, GotoMoves, FailWithMoves
<1>4. ASSUME pc = "load", job'[i].key # None PROVE Informed(v, i)'
  BY <1>4 DEF Informed, Unwritten, Written
<1>5. ASSUME pc \in Unwritten, job'[i].key # None, ~HasCandidate(i)' PROVE Informed(v, i)'
  BY <1>5 DEF Informed, Unwritten, Written
<1>6. ASSUME pc \in Written, HasCandidate(i)' PROVE Informed(v, i)'
  BY <1>6 DEF Informed, Unwritten, Written, HasCandidate
<1>7. ASSUME pc = "fail", \A x \in attempts' : x.job = i => x.status # "dispatched"
      PROVE  Informed(v, i)'
  BY <1>7 DEF Informed, Unwritten, Written, AttemptsOf
<1>8. ASSUME Same, LeaseHeld(v) PROVE Informed(v, i) /\ job[i].status = "processing"
  BY <1>8, HeldRow
<1>9. ASSUME Same, LeaseHeld(v), HasCandidate(i)
      PROVE  HasCandidate(i)' /\ \A x \in attempts : x.job = i => x.status # "dispatched"
  BY <1>9, CandidateStays DEF LedgerInv, OpenDeliveryAccounted
<1>10. CASE Begin(v)
  <2>1. CASE Leave(v)
    BY <1>2, <2>1
  <2>2. CASE LeaseHeld(v) /\ Goto(v, "capture")
    BY <1>1, <1>3, <2>2 DEF Unwritten, Written
  <2>3. CASE LeaseHeld(v) /\ job[worker[v].job].source # None /\ Goto(v, "load")
    <3>1. pc = "load" /\ Same
      BY <1>3, <2>3
    <3>2. job[i].key # None
      BY <1>8, <2>3, <3>1 DEF LedgerInv, RowInv
    <3> QED BY <1>4, <1>10, <3>1, <3>2 DEF Begin, RowsKept
  <2> QED BY <1>10, <2>1, <2>2, <2>3 DEF Begin
<1>11. CASE Capture(v)
  <2>1. CASE Leave(v) \/ \E f : FailWith(v, "record", f)
    BY <1>2, <2>1
  <2>2. CASE \E s \in Source :
               worker' = [worker EXCEPT ![v] = [@ EXCEPT !.pc = "commit", !.fetched = s]]
    <3>1. pc = "commit"
      BY <2>2 DEF TypeInv, TypeOK, WorkerRow
    <3> QED BY <1>1, <3>1 DEF Unwritten, Written
  <2>3. CASE LeaseHeld(v) /\ \E f : FailWith(v, "fail", f)
    <3>1. pc = "fail" /\ Same
      BY <1>3, <2>3
    <3>2. job[i].source = None
      BY <1>11, <2>3, <3>1 DEF Capture, LedgerInv, KeysInv, Unfetched
    <3>3. job[i].key = None
      <4>1. job[i].key # None => job[i].key \in Key /\ job[i].key.source = None
        BY <3>2 DEF TypeInv, TypeOK, JobRow, LedgerInv, KeysInv, KeyFits
      <4> QED BY <4>1 DEF Key
    <3>4. \A x \in attempts : x.job # i
      BY <3>3, LedgerFits DEF AttemptFits
    <3> QED BY <1>7, <1>11, <3>1, <3>4 DEF Capture, RowsKept
  <2> QED BY <1>11, <2>1, <2>2, <2>3 DEF Capture
<1>12. CASE CommitSource(v)
  <2>1. CASE pc \in {"idle", "record"}
    BY <1>1, <2>1 DEF Unwritten, Written
  <2>2. CASE \E j \in Jobs : Inspects(v, j)
    <3>1. PICK j \in Jobs : Inspects(v, j)
      BY <2>2
    <3>2. CASE pc = "load" /\ job'[j].key # None
      <4>1. Same
        BY <1>12, <3>2, GotoMoves, LeavePc, FailWithMoves DEF CommitSource, TakeKey, Reuse
      <4> QED BY <1>4, <3>1, <3>2, <4>1 DEF Inspects
    <3> QED BY <2>1, <3>1, <3>2 DEF Inspects
  <2> QED BY <1>12, <2>1, <2>2, CommitInspects DEF LedgerInv
<1>13. CASE Load(v)
  <2>1. CASE Leave(v)
    BY <1>2, <2>1
  <2>2. CASE LeaseHeld(v) /\ HasCandidate(worker[v].job) /\ Goto(v, "reload")
    BY <1>3, <1>6, <1>9, <2>2 DEF Written
  <2>3. CASE LeaseHeld(v) /\ ~HasCandidate(worker[v].job) /\ Goto(v, "normalize")
    <3>1. pc = "normalize" /\ Same
      BY <1>3, <2>3
    <3>2. job[i].key # None
      BY <1>8, <1>13, <2>3, <3>1 DEF Load, Informed
    <3>3. UNCHANGED <<job, revision>>
      BY <1>13 DEF Load, RowsKept
    <3> QED BY <1>5, <2>3, <3>1, <3>2, <3>3 DEF Unwritten, HasCandidate
  <2> QED BY <1>13, <2>1, <2>2, <2>3 DEF Load, TransformHeld
<1>14. ASSUME worker[v].pc \in Unwritten, LeaseHeld(v), Same, pc \in Unwritten,
              UNCHANGED revision
       PROVE  Informed(v, i)'
  <2>1. job[i].key # None /\ ~HasCandidate(i)
    BY <1>8, <1>14 DEF Informed
  <2>2. job'[i].key = job[i].key
    BY <2>1, KeyStays DEF LedgerInv
  <2> QED BY <1>5, <1>14, <2>1, <2>2 DEF HasCandidate
<1>15. CASE Normalize(v)
  <2>1. CASE Leave(v) \/ \E f : FailWith(v, "record", f)
    BY <1>2, <2>1
  <2>2. CASE LeaseHeld(v) /\ \E p \in {"preserve", "prepare", "park"} : Goto(v, p)
    <3>1. pc \in {"preserve", "prepare", "park"} /\ Same
      BY <1>3, <2>2
    <3> QED BY <1>14, <1>15, <2>2, <3>1 DEF Normalize, Unwritten
  <2> QED BY <1>15, <2>1, <2>2 DEF Normalize, TransformHeld
<1>16. CASE Preserve(v)
  <2>1. CASE Leave(v) \/ \E f : FailWith(v, "record", f)
    BY <1>2, <2>1
  <2>2. CASE /\ LeaseHeld(v) /\ Goto(v, "reload")
             /\ revision' = [revision EXCEPT ![job[worker[v].job].key] =
                                Draft("building", TRUE, TRUE)]
    <3> DEFINE row == Draft("building", TRUE, TRUE)
    <3>1. pc = "reload" /\ Same
      BY <1>3, <2>2
    <3>2. job[i].key # None /\ job[i].key \in Key
      BY <1>0, <1>8, <1>16, <2>2, <3>1, HeldRow DEF Preserve, Informed, Unwritten
    <3>3. job'[i].key = job[i].key
      BY <3>2, KeyStays DEF LedgerInv
    <3>4. row.status # "none" /\ revision' = [revision EXCEPT ![job[i].key] = row]
      BY <2>2, <3>1 DEF Draft
    <3> HIDE DEF row
    <3>5. revision'[job[i].key].status # "none"
      BY <3>2, <3>4 DEF TypeInv, TypeOK
    <3> QED BY <1>6, <3>1, <3>2, <3>3, <3>5 DEF Written, HasCandidate
  <2> QED BY <1>16, <2>1, <2>2 DEF Preserve, TransformHeld
<1>17. CASE Park(v)
  BY <1>2, <1>17 DEF Park
<1>18. CASE Prepare(v) \/ Dispatch(v)
  <2>1. CASE Leave(v) \/ \E f : FailWith(v, "record", f)
    BY <1>2, <2>1
  <2>2. CASE LeaseHeld(v) /\ \E p \in {"dispatch", "model"} : Goto(v, p)
    <3>1. pc \in {"dispatch", "model"} /\ Same
      BY <1>3, <2>2
    <3> QED BY <1>14, <1>18, <2>2, <3>1 DEF Prepare, Dispatch, Unwritten
  <2> QED BY <1>18, <2>1, <2>2 DEF Prepare, Dispatch, TransformHeld
<1>19. CASE Model(v)
  <2>1. CASE \E f : FailWith(v, "record", f)
    BY <1>2, <2>1
  <2>2. CASE \E x \in {"sound", "mutation", "invalid"} :
               worker' = [worker EXCEPT ![v] = [@ EXCEPT !.pc = "result", !.answer = x]]
    <3>1. pc = "result" /\ Same /\ worker'[v].token = worker[v].token
      BY <2>2 DEF TypeInv, TypeOK, WorkerRow
    <3>2. LeaseHeld(v)
      BY <1>19, <3>1 DEF LeaseHeld, Model, RowsKept
    <3> QED BY <1>14, <1>19, <3>1, <3>2 DEF Model, RowsKept, Unwritten
  <2> QED BY <1>19, <2>1, <2>2 DEF Model
<1>20. CASE Result(v)
  <2>1. CASE Leave(v) \/ \E f : FailWith(v, "record", f)
    BY <1>2, <2>1
  <2>2. CASE Goto(v, "reload") /\ \E j \in Jobs : Stores(v, j)
    <3>1. pc = "reload" /\ Same
      BY <1>3, <2>2
    <3>2. Stores(v, i)
      BY <2>2, <3>1 DEF Stores
    <3>3. job[i].key # None /\ job[i].key \in Key
      BY <3>2, HeldRow DEF Stores, Informed, Unwritten
    <3>4. HasCandidate(i)'
      BY <3>2, <3>3 DEF Stores, Stored, Owns, HasCandidate
    <3> QED BY <1>6, <3>1, <3>4 DEF Written
  <2>3. ASSUME ~(Leave(v) \/ \E f : FailWith(v, "record", f))
        PROVE  Goto(v, "reload") /\ ~UNCHANGED revision
    <3>1. LeaseHeld(v) /\ StoreResult(v, worker[v].job, With(AttemptOf(v), "dispatched"))
      BY <1>20, <2>3 DEF Result, TransformHeld
    <3>2. Goto(v, "reload")
      BY <2>3, <3>1 DEF StoreResult
    <3>3. Same
      BY <1>3, <3>2
    <3>4. job[i].key # None /\ job[i].key \in Key /\ ~HasCandidate(i)
      BY <1>20, <3>1, <3>3, HeldRow DEF Result, Informed, Unwritten
    <3>5. PICK s \in {"validated", "building"}, b \in BOOLEAN :
              revision' = [revision EXCEPT ![job[i].key] = Draft(s, b, FALSE)]
      BY <3>1, <3>3 DEF StoreResult
    <3> DEFINE row == Draft(s, b, FALSE)
    <3>6. row.status # "none" /\ revision' = [revision EXCEPT ![job[i].key] = row]
      BY <3>5 DEF Draft
    <3> HIDE DEF row
    <3>7. revision'[job[i].key].status # "none"
      BY <3>4, <3>6 DEF TypeInv, TypeOK
    <3> QED BY <3>2, <3>4, <3>7 DEF HasCandidate
  <2> QED BY <1>20, <2>1, <2>2, <2>3, ResultStores
<1>21. CASE Reload(v)
  <2>1. CASE Leave(v)
    BY <1>2, <2>1
  <2>2. CASE LeaseHeld(v) /\ (Goto(v, "validate") \/ FailWith(v, "fail", "rewrite"))
    <3>1. pc \in {"validate", "fail"} /\ Same
      BY <1>3, <2>2
    <3>2. HasCandidate(i)
      BY <1>8, <1>21, <2>2, <3>1 DEF Reload, Informed, Written
    <3> QED BY <1>6, <1>7, <1>9, <1>21, <2>2, <3>1, <3>2 DEF Reload, RowsKept, Written
  <2> QED BY <1>21, <2>1, <2>2 DEF Reload, TransformHeld
<1>22. CASE Validate(v)
  <2>1. CASE Leave(v)
    BY <1>2, <2>1
  <2>2. CASE LeaseHeld(v) /\ (Goto(v, "publish") \/ FailWith(v, "fail", "rewrite"))
    <3>1. pc \in {"publish", "fail"} /\ Same
      BY <1>3, <2>2
    <3>2. HasCandidate(i)
      BY <1>8, <1>22, <2>2, <3>1 DEF Validate, Informed, Written
    <3> QED BY <1>6, <1>7, <1>9, <1>22, <2>2, <3>1, <3>2 DEF Validate, Written
  <2> QED BY <1>22, <2>1, <2>2 DEF Validate, TransformHeld
<1>23. CASE Publish(v)
  BY <1>2, <1>23 DEF Publish
<1>24. CASE Record(v)
  <2>1. CASE Leave(v)
    BY <1>2, <2>1
  <2>2. CASE LeaseHeld(v) /\ Goto(v, "fail")
    <3>1. pc = "fail" /\ Same
      BY <1>3, <2>2
    <3>2. job[i].token = worker[v].token
      BY <2>2, <3>1, HeldRow
    <3> DEFINE s == Closed(worker[v].failure)
               Open == {x \in attempts :
                           /\ x.job = worker[v].job /\ x.token = worker[v].token
                           /\ x.status \in {"prepared", "dispatched"}}
    <3>3. \A x \in attempts : x.job = i /\ x.status = "dispatched" => x \in Open
      BY <3>1, <3>2, LedgerFits DEF AttemptFits
    <3>4. s # "dispatched" /\ attempts' = Marked(Open, s) /\ \A x \in Open : x \in attempts
      <4>1. ~Leave(v)
        BY <3>1, LeavePc
      <4> QED BY <1>24, <4>1 DEF Record, Marked, Closed
    <3> HIDE DEF s, Open
    <3>5. ASSUME NEW y \in attempts', y.job = i, y.status = "dispatched" PROVE FALSE
      <4>1. PICK x \in attempts : y = IF x \in Open THEN [x EXCEPT !.status = s] ELSE x
        BY <3>4, <3>5 DEF Marked
      <4>2. CASE x \in Open
        BY <3>4, <3>5, <4>1, <4>2, AttemptType DEF Attempt
      <4>3. CASE x \notin Open
        BY <3>3, <3>5, <4>1, <4>3
      <4> QED BY <4>2, <4>3
    <3> QED BY <1>7, <3>1, <3>5
  <2> QED BY <1>24, <2>1, <2>2 DEF Record, TransformHeld
<1>25. CASE Fail(v)
  BY <1>2, <1>25 DEF Fail
<1> QED BY <1>10, <1>11, <1>12, <1>13, <1>15, <1>16, <1>17, <1>18, <1>19, <1>20, <1>21, <1>22,
           <1>23, <1>24, <1>25 DEF Run

LEMMA PcNext == ASSUME TypeInv, LedgerInv, [Next]_vars PROVE PcFits'
<1> SUFFICES ASSUME NEW v \in Workers, NEW i \in Jobs, worker'[v].job = i PROVE Informed(v, i)'
  BY DEF PcFits
<1>1. CASE ~LeaseHeld(v)'
  BY <1>1 DEF Informed
<1>2. CASE worker'[v].pc \in {"idle", "sweep", "begin"}
  BY <1>2 DEF Informed, Unwritten, Written
<1>3. CASE Run(v)
  BY <1>1, <1>3, ActorInformed
<1>4. CASE Claim(v)
  BY <1>2, <1>4, ClaimPc
<1>5. CASE Crash(v)
  BY <1>2, <1>5, LeavePc DEF Crash, GiveUp
<1>6. CASE ~Run(v) /\ worker'[v] = worker[v]
  BY <1>6, OthersInformed
<1>7. Run(v) \/ Claim(v) \/ Crash(v) \/ worker'[v] = worker[v]
  <2>1. ASSUME NEW w \in Workers, Claim(w) \/ Run(w) \/ Crash(w) PROVE Alone(w)
    BY <2>1, ClaimAlone, RunAlone, StaysAlone DEF Crash, GiveUp
  <2>2. ASSUME NEW w \in Workers, CommitSource(w) PROVE Run(w)
    BY <2>2 DEF Run
  <2> QED BY <2>1, <2>2, NextKeeps DEF Alone
<1> QED BY <1>3, <1>4, <1>5, <1>6, <1>7

\* A result of the model saves the draft of its own job.
Saves == \E w \in Workers, j \in Jobs : Result(w) /\ Stores(w, j)

LEMMA OthersUndrafted ==
    ASSUME TypeInv, LedgerInv, [Next]_vars, NEW i \in Jobs,
           ~(\E w \in Workers : Result(w) /\ Stores(w, i))
    PROVE  Undrafted(i)
<1> SUFFICES ASSUME job[i].key \in Key, Drafted(job[i].key) PROVE AttemptsOf(i) = {}
  BY DEF Undrafted
<1>1. PICK w \in Workers :
          /\ Run(w) /\ LeaseHeld(w) /\ job[worker[w].job].key = job[i].key
          /\ Result(w) \/ (Preserve(w) /\ AttemptsOf(worker[w].job) = {})
  BY NextDrafts
<1>2. worker[w].job = i
  <2>1. worker[w].job \in Jobs /\ job[i].key # None
    BY <1>1 DEF LeaseHeld, TypeInv, TypeOK, WorkerRow
  <2> QED BY <1>1, <2>1 DEF LedgerInv, KeysInv, OneOwner
<1>3. ~Result(w)
  <2> SUFFICES ASSUME Result(w) PROVE FALSE
    OBVIOUS
  <2>1. ~UNCHANGED revision
    BY DEF Drafted
  <2>2. PICK j \in Jobs : Stores(w, j)
    BY <2>1, ResultStores
  <2> QED BY <1>2, <2>2 DEF Stores
<1> QED BY <1>1, <1>2, <1>3

\* Every other step rests, or is one of those the attempts are told of.
LedgerKind ==
    \/ Rests
    \/ \E w \in Workers, j \in Jobs : Takes(w, j) \/ Fails(w, j) \/ Inspects(w, j)
    \/ \E w \in Workers : Prepare(w) \/ Dispatch(w) \/ Record(w)

LEMMA RunKind == ASSUME TypeInv, LedgerInv, ~Saves, NEW w \in Workers, Run(w) PROVE LedgerKind
<1>1. CASE Begin(w) \/ Capture(w) \/ Load(w) \/ Model(w) \/ Reload(w)
  BY <1>1, StillRests DEF LedgerKind, Begin, Capture, Load, Model, Reload, RowsKept
<1>2. CASE CommitSource(w)
  BY <1>2, CommitInspects DEF LedgerKind, LedgerInv
<1>3. CASE Normalize(w) \/ Preserve(w) \/ Park(w) \/ Validate(w) \/ Publish(w)
  BY <1>3, DraftRests DEF LedgerKind
<1>4. CASE Result(w)
  BY <1>4, ResultStores DEF LedgerKind, Saves
<1>5. CASE Fail(w)
  BY <1>5, FailFails DEF LedgerKind
<1>6. CASE Prepare(w) \/ Dispatch(w) \/ Record(w)
  BY <1>6 DEF LedgerKind
<1> QED BY <1>1, <1>2, <1>3, <1>4, <1>5, <1>6 DEF Run

LEMMA NextRests == ASSUME TypeInv, LedgerInv, [Next]_vars, ~Saves PROVE LedgerKind
<1>1. ASSUME NEW a \in Articles, Request(a) PROVE LedgerKind
  BY <1>1, RequestRests DEF LedgerKind
<1>2. ASSUME NEW w \in Workers, Claim(w) PROVE LedgerKind
  <2>1. Resumes(w) \/ SweepExhausted(w) \/ ClaimGeneric(w)
    BY <1>2 DEF Claim, Resumes
  <2> QED BY <2>1, ResumeRests, SweepTakes DEF LedgerKind, LedgerInv
<1>3. ASSUME NEW w \in Workers, Heartbeat(w) PROVE LedgerKind
  <2>1. worker[w].job \in Jobs
    BY <1>3, HeldType DEF Heartbeat
  <2> QED BY <1>3, <2>1, ClockRests DEF LedgerKind, Heartbeat
<1>4. ASSUME NEW w \in Workers, Crash(w) PROVE LedgerKind
  BY <1>4, StillRests DEF LedgerKind, Crash, GiveUp, RowsKept
<1>5. ASSUME NEW j \in Jobs, LeaseTick(j) PROVE LedgerKind
  BY <1>5, ClockRests DEF LedgerKind, LeaseTick
<1>6. ASSUME NEW r \in Reviewers, NEW j \in Jobs, Decide(r, j) PROVE LedgerKind
  BY <1>6, DecideRests DEF LedgerKind
<1>7. CASE UNCHANGED vars
  BY <1>7, StillRests DEF LedgerKind, vars
<1>8. CASE Next
  BY <1>1, <1>2, <1>3, <1>4, <1>5, <1>6, <1>8, RunKind DEF Next
<1> QED BY <1>7, <1>8

LEMMA OnlyTurns ==
    ASSUME NEW j \in Jobs, Only(j), Turned(j)
    PROVE  \A i \in Jobs : Turned(i)
BY DEF Only, Turned, Calm, Quiet, Rated, Owns

LEMMA LedgerNext == TypeInv /\ LedgerInv /\ [Next]_vars => LedgerInv'
<1> SUFFICES ASSUME TypeInv, LedgerInv, [Next]_vars PROVE LedgerInv'
  OBVIOUS
<1> DEFINE Ledger == Counted /\ OneDispatchPerAttempt /\ OpenDeliveryAccounted
<1>0. TypeInv'
  BY NextType
<1>1. RowInv' /\ Ledger'
  <2>1. CASE Saves
    <3>1. PICK w \in Workers, j \in Jobs : Result(w) /\ Stores(w, j)
      BY <2>1 DEF Saves
    <3>2. HasCandidate(j)'
      <4>1. job[j].key # None /\ job[j].key \in Key
        BY <3>1, HeldRow DEF Stores, Informed, Unwritten
      <4> QED BY <3>1, <4>1 DEF Stores, Stored, Owns, HasCandidate
    <3>3. RowInv'
      BY <3>1, <3>2, OnlyTurns, RowStays DEF Stores, Turned
    <3>4. ASSUME NEW i \in Jobs \ {j} PROVE Undrafted(i)
      <4>1. ASSUME NEW v \in Workers, Result(v), Stores(v, i) PROVE FALSE
        <5>1. Stored(job[j], job'[j]) /\ Only(i) /\ Only(j)
          BY <3>1, <4>1 DEF Stores
        <5>2. v = w
          <6>1. Alone(v)
            BY <4>1, RunAlone DEF Run
          <6>2. Leave(w) \/ Goto(w, "reload") \/ \E f : FailWith(w, "record", f)
            BY <3>1 DEF Result, StoreResult
          <6>3. worker'[w].pc # "result"
            BY <6>2, LeavePc, GotoMoves, FailWithMoves
          <6> QED BY <3>1, <6>1, <6>3 DEF Stores, Alone
        <5> QED BY <3>1, <4>1, <5>2 DEF Stores
      <4> QED BY <4>1, OthersUndrafted
    <3> QED BY <1>0, <3>1, <3>3, <3>4, StoreLedger
  <2>2. CASE ~Saves
    <3>1. \A i \in Jobs : Undrafted(i)
      BY <2>2, OthersUndrafted DEF Saves
    <3>2. CASE Rests
      <4>1. RowInv'
        BY <3>2, RowStays DEF Rests, Turned
      <4> QED BY <1>0, <3>1, <3>2, <4>1, RestLedger
    <3>3. ASSUME NEW w \in Workers, NEW j \in Jobs, Takes(w, j) PROVE RowInv' /\ Ledger'
      <4>1. RowInv'
        BY <3>3, OnlyTurns, RowStays DEF Takes, Turned
      <4> QED BY <1>0, <3>1, <3>3, <4>1, TakeLedger
    <3>4. ASSUME NEW w \in Workers, NEW j \in Jobs, Fails(w, j) PROVE RowInv' /\ Ledger'
      <4>1. RowInv'
        BY <3>4, OnlyTurns, RowStays DEF Fails, Turned
      <4> QED BY <1>0, <3>4, <4>1, FailLedger
    <3>5. ASSUME NEW w \in Workers, NEW j \in Jobs, Inspects(w, j) PROVE RowInv' /\ Ledger'
      <4>1. RowInv'
        BY <3>5, RowStays DEF Inspects, Turned
      <4> QED BY <1>0, <3>5, <4>1, InspectLedger
    <3>6. ASSUME NEW w \in Workers, Prepare(w) \/ Dispatch(w) \/ Record(w)
          PROVE  RowInv' /\ Ledger'
      <4>1. RowInv'
        <5>1. UNCHANGED job
          BY <3>6 DEF Prepare, Dispatch, Record
        <5> QED BY <5>1, RowStays DEF Turned, Calm, Quiet, Rated, Owns
      <4> QED BY <1>0, <3>6, <4>1, PrepareFits, DispatchFits, StillFitsLedger, RecordLedger
    <3> QED BY <2>2, <3>2, <3>3, <3>4, <3>5, <3>6, NextRests DEF LedgerKind
  <2> QED BY <2>1, <2>2
<1>2. KeysInv' /\ ProfileFits' /\ PcFits'
  BY KeysNext, ProfilesNext, PcNext DEF LedgerInv
<1> QED BY <1>1, <1>2 DEF LedgerInv

LEMMA LedgerInit == Init => LedgerInv
<1> SUFFICES ASSUME Init PROVE LedgerInv
  OBVIOUS
<1>1. KeysInv
  BY KeysInit
<1>2. ProfileFits /\ RowInv
  BY DEF Init, ProfileFits, RowInv, AbsentJob
<1>3. PcFits /\ Counted /\ OneDispatchPerAttempt /\ OpenDeliveryAccounted
  BY DEF Init, PcFits, Informed, LeaseHeld, IdleWorker, Counted, OneDispatchPerAttempt,
         OpenDeliveryAccounted
<1> QED BY <1>1, <1>2, <1>3 DEF LedgerInv

LEMMA LedgerAlways == Spec => []LedgerInv
<1>1. TypeInv /\ LedgerInv /\ [Next]_vars => LedgerInv'
  BY LedgerNext
<1> QED BY <1>1, LedgerInit, TypeInvariant, PTL DEF Spec

\* An attempt of a job is prepared and dispatched under a number of its own, whatever
\* workers lose their leases, reclaim, resume or restart (article_lifecycle_store.py:444-451).
THEOREM AttemptsDispatchOnce == Spec => []OneDispatchPerAttempt
<1>1. LedgerInv => OneDispatchPerAttempt
  BY DEF LedgerInv
<1> QED BY <1>1, LedgerAlways, PTL

\* A delivery on record as open is that of the lease its job carries, and the job has no
\* draft yet (source_job_persistence.py:153-159, 450-455).
THEOREM OpenDeliveriesAccounted == Spec => []OpenDeliveryAccounted
<1>1. LedgerInv => OpenDeliveryAccounted
  BY DEF LedgerInv
<1> QED BY <1>1, LedgerAlways, PTL

(***************************************************************************)
(* The drafts.  The job an article asks for transforms what the article is *)
(* about; a draft has an owner, says truly whether its validator passes    *)
(* it, and is the server's own only where no model was asked.              *)
(***************************************************************************)
AsksFor(a) ==
    article[a].job # None =>
        /\ job[article[a].job].status # "absent"
        /\ job[article[a].job].article = a
        /\ job[article[a].job].profile = article[a].profile
        /\ job[article[a].job].source # None => job[article[a].job].source = article[a].source

Asking == \A a \in Articles : AsksFor(a)

DraftOwned == \A k \in Key : revision[k].status # "none" => \E i \in Jobs : job[i].key = k

ReviewOnly == \A i \in Jobs : job[i].review # "none" => job[i].profile = "review"

TrulySaid(row, error, used) ==
    /\ error = "none" => row.sound
    /\ row.status = "validated" => row.sound
    /\ row.preserving => used = {}

DraftFits(i) ==
    HasCandidate(i) => TrulySaid(revision[job[i].key], job[i].rewriteError, AttemptsOf(i))

DraftsFit == \A i \in Jobs : DraftFits(i)

LEMMA AskingStands ==
    ASSUME TypeInv, Asking, JobsLast, NEW b \in Articles, article'[b] = article[b],
           article[b].job # None =>
               /\ job'[article[b].job].article = job[article[b].job].article
               /\ job'[article[b].job].source = job[article[b].job].source
    PROVE  AsksFor(b)'
<1>1. article[b].job # None => article[b].job \in Jobs
  BY DEF TypeInv, TypeOK, ArticleRow
<1> QED BY <1>1 DEF Asking, AsksFor, JobsLast, RowLasts

\* A request makes the job its article asks for.
LEMMA RequestAsks == ASSUME TypeInv, Asking, NEW a \in Articles, Request(a) PROVE Asking'
<1>0. /\ FreshJob(a) \in JobRow /\ FreshJob(a).status = "pending" /\ FreshJob(a).article = a
      /\ FreshJob(a).profile = article[a].profile /\ FreshJob(a).source = None
      /\ article[a] \in ArticleRow
  BY FreshJobType DEF FreshJob, AbsentJob, TypeInv, TypeOK
<1>1. ASSUME NEW j \in Jobs, NEW row, NEW arow, job[j].status = "absent",
             job' = [job EXCEPT ![j] = row], article' = [article EXCEPT ![a] = arow],
             row.status # "absent", row.article = a, row.profile = arow.profile, arow.job = j,
             row.source # None => row.source = arow.source
      PROVE  Asking'
  <2>1. /\ job'[j] = row /\ \A i \in Jobs \ {j} : job'[i] = job[i]
        /\ article'[a] = arow /\ \A b \in Articles \ {a} : article'[b] = article[b]
    BY <1>1 DEF TypeInv, TypeOK
  <2>2. AsksFor(a)'
    BY <1>1, <2>1 DEF AsksFor
  <2>3. ASSUME NEW b \in Articles \ {a} PROVE AsksFor(b)'
    <3>1. article[b].job # None => article[b].job \in Jobs \ {j}
      BY <1>1 DEF Asking, AsksFor, TypeInv, TypeOK, ArticleRow
    <3> QED BY <2>1, <3>1 DEF Asking, AsksFor
  <2> QED BY <2>2, <2>3 DEF Asking
<1>2. CASE EnsureJob(a)
  <2> DEFINE arow(j) == [article[a] EXCEPT !.job = j]
  <2>1. PICK j \in Jobs : /\ job[j].status = "absent" /\ job' = [job EXCEPT ![j] = FreshJob(a)]
                          /\ article' = [article EXCEPT ![a] = arow(j)]
    BY <1>2 DEF EnsureJob, TypeInv, TypeOK
  <2>2. arow(j).job = j /\ arow(j).profile = article[a].profile
    BY <1>0 DEF ArticleRow
  <2> HIDE DEF arow
  <2> QED BY <1>0, <1>1, <2>1, <2>2
<1>3. ASSUME NEW p \in Profiles, RefreshJob(a, p) PROVE Asking'
  <2> DEFINE row == [FreshJob(a) EXCEPT !.generation = article[a].generation + 1, !.profile = p]
             arow(j) == [article[a] EXCEPT !.job = j, !.profile = p,
                                           !.generation = article[a].generation + 1]
  <2>1. PICK j \in Jobs : /\ job[j].status = "absent" /\ job' = [job EXCEPT ![j] = row]
                          /\ article' = [article EXCEPT ![a] = arow(j)]
    BY <1>3 DEF RefreshJob, TypeInv, TypeOK
  <2>2. /\ arow(j).job = j /\ arow(j).profile = p /\ row.profile = p /\ row.source = None
        /\ row.article = a /\ row.status = "pending"
    BY <1>0 DEF ArticleRow, JobRow
  <2> HIDE DEF arow, row
  <2> QED BY <1>1, <2>1, <2>2
<1>4. CASE Reproject(a)
  <2> DEFINE corrected == [article[a].source EXCEPT !.projection = 2]
             row == [FreshJob(a) EXCEPT
                       !.generation = article[a].generation + 1,
                       !.status = "needs_review", !.phase = "completed",
                       !.error = "SOURCE_ONLY_REPROJECTION",
                       !.retry = 1, !.token = 1, !.source = corrected]
             arow(j) == [article[a] EXCEPT
                           !.job = j, !.generation = article[a].generation + 1,
                           !.source = corrected, !.canonical = None]
  <2>1. PICK j \in Jobs : /\ job[j].status = "absent" /\ job' = [job EXCEPT ![j] = row]
                          /\ article' = [article EXCEPT ![a] = arow(j)]
    BY <1>4 DEF Reproject, TypeInv, TypeOK
  <2>2. /\ arow(j).job = j /\ arow(j).profile = article[a].profile /\ arow(j).source = row.source
        /\ row.profile = article[a].profile /\ row.article = a /\ row.status = "needs_review"
    BY <1>0 DEF ArticleRow, JobRow
  <2> HIDE DEF arow, row
  <2> QED BY <1>1, <2>1, <2>2
<1> QED BY <1>2, <1>3, <1>4 DEF Request

LEMMA CommitAsks ==
    ASSUME TypeInv, Asking, KeysInv, ProfileFits, NEW w \in Workers, CommitSource(w)
    PROVE  Asking'
<1> DEFINE j == worker[w].job
           a == job[j].article
           s == worker[w].fetched
           k == KeyOf(j, s)
<1>0. JobsLast
  BY CommitGoes, GoingLasts
<1>1. /\ j \in Jobs /\ job[j] \in JobRow /\ a \in Articles /\ article[a] \in ArticleRow
      /\ s \in Source
  BY HeldType DEF CommitSource, TypeInv, BusyRow
<1>2. k \in Key /\ k.article = a /\ k.source = s /\ k.profile = job[j].profile
  BY <1>1 DEF KeyOf, Key, JobRow
<1>3. CASE UNCHANGED <<article, job>>
  BY <1>3 DEF Asking, AsksFor
<1>4. ASSUME SameGeneration(j), NEW row, NEW arow, NEW o \in Jobs,
             job'[j] = row, article' = [article EXCEPT ![a] = arow],
             \A i \in Jobs \ {j} : job'[i].article = job[i].article /\ job'[i].source = job[i].source,
             row.article = a, row.source = s, arow.source = s, arow.profile = article[a].profile,
             arow.job = o, o # j => job[o].key = k
      PROVE  Asking'
  <2>1. article[a].job = j /\ job[j].profile = article[a].profile /\ job[j].status # "absent"
    BY <1>1, <1>4 DEF SameGeneration, Asking, AsksFor
  <2>2. article'[a] = arow /\ \A b \in Articles \ {a} : article'[b] = article[b]
    BY <1>1, <1>4 DEF TypeInv, TypeOK
  <2>3. ASSUME NEW b \in Articles \ {a} PROVE AsksFor(b)'
    <3>1. article[b].job # None => article[b].job \in Jobs \ {j}
      <4>1. article[b].job # None => article[b].job \in Jobs
        BY DEF TypeInv, TypeOK, ArticleRow
      <4> QED BY <4>1 DEF Asking, AsksFor
    <3> HIDE DEF a, s, k, j
    <3> QED BY <1>0, <1>4, <2>2, <2>3, <3>1, AskingStands
  <2>4. o # j => /\ job[o].article = a /\ job[o].source = s /\ job[o].status # "absent"
                 /\ job[o].profile = job[j].profile
    BY <1>1, <1>2, <1>4 DEF KeysInv, KeyFits, ProfileFits
  <2>5. /\ job'[o].status # "absent" /\ job'[o].article = a /\ job'[o].profile = article[a].profile
        /\ job'[o].source = s
    BY <1>0, <1>1, <1>4, <2>1, <2>4 DEF JobsLast, RowLasts
  <2>6. ASSUME NEW b \in Articles, b = a PROVE AsksFor(b)'
    BY <1>4, <2>2, <2>5, <2>6 DEF AsksFor
  <2> QED BY <2>3, <2>6 DEF Asking
<1>5. ASSUME SameGeneration(j), TakeKey(w, j, a, s, k) PROVE Asking'
  <2> DEFINE row == [job[j] EXCEPT !.source = s, !.key = k, !.phase = "normalizing"]
             arow == [article[a] EXCEPT !.source = s, !.canonical = Canonical(k)]
  <2>1. job' = [job EXCEPT ![j] = row] /\ article' = [article EXCEPT ![a] = arow]
    BY <1>1, <1>5 DEF TakeKey, TypeInv, TypeOK
  <2>2. /\ row.article = a /\ row.source = s /\ arow.source = s
        /\ arow.profile = article[a].profile /\ arow.job = j
    BY <1>1, <1>5 DEF JobRow, ArticleRow, SameGeneration
  <2> HIDE DEF row, arow, k, s, a, j
  <2>3. job'[j] = row /\ \A i \in Jobs \ {j} : job'[i] = job[i]
    BY <1>1, <2>1 DEF TypeInv, TypeOK
  <2> QED BY <1>1, <1>4, <1>5, <2>1, <2>2, <2>3
<1>6. ASSUME SameGeneration(j), NEW o \in OwnerOf(k) \ {j}, Reuse(w, j, a, s, k, o)
      PROVE  Asking'
  <2> DEFINE done == [Released(job[j]) EXCEPT !.source = s, !.status = "completed",
                                              !.phase = "completed"]
             inspected == [job EXCEPT ![j] = done]
             moved == [job[o] EXCEPT !.generation = AdoptedGeneration(j),
                                     !.review = "awaiting_review"]
             adopted == TerminalOwner(o, k) /\ Adopts(o, k)
             target == IF TerminalOwner(o, k) THEN o ELSE article[a].job
             arow == [article[a] EXCEPT
                 !.source = s, !.canonical = Canonical(k), !.job = target,
                 !.generation = IF adopted THEN AdoptedGeneration(j) ELSE article[a].generation]
  <2>1. o \in Jobs /\ o # j /\ job[o] \in JobRow /\ job[o].key = k
    BY <1>6 DEF OwnerOf, TypeInv, TypeOK
  <2>2. done.article = a /\ done.source = s
    BY <1>1 DEF Released, JobRow
  <2>3. moved.article = job[o].article /\ moved.source = job[o].source
    BY <2>1 DEF JobRow
  <2>4. job' = IF adopted THEN [inspected EXCEPT ![o] = moved] ELSE inspected
    BY <1>1, <1>6, <2>1 DEF Reuse, TypeInv, TypeOK
  <2>5. article' = [article EXCEPT ![a] = arow]
    BY <1>1, <1>6 DEF Reuse, TypeInv, TypeOK
  <2>6. arow.source = s /\ arow.profile = article[a].profile /\ arow.job = target
    BY <1>1 DEF ArticleRow
  <2>7. target \in {j, o}
    BY <1>6 DEF SameGeneration
  <2> HIDE DEF done, moved, adopted, arow, target, k, s, a, j
  <2>8. /\ job'[j] = done
        /\ job'[o] = IF adopted THEN moved ELSE job[o]
        /\ \A i \in Jobs \ {j, o} : job'[i] = job[i]
    BY <1>1, <2>1, <2>4 DEF TypeInv, TypeOK
  <2>9. \A i \in Jobs \ {j} : job'[i].article = job[i].article /\ job'[i].source = job[i].source
    BY <2>3, <2>8
  <2>10. target \in Jobs /\ (target # j => job[target].key = k)
    BY <1>1, <2>1, <2>7
  <2> QED BY <1>4, <1>6, <2>2, <2>5, <2>6, <2>8, <2>9, <2>10
<1> QED BY <1>3, <1>5, <1>6 DEF CommitSource

LEMMA AskingNext == ASSUME TypeInv, Asking, KeysInv, ProfileFits, [Next]_vars PROVE Asking'
<1>0. JobsLast
  BY NextLasts
<1>1. ASSUME NEW mover, JobsKeep(mover),
             \A a \in Articles : /\ article'[a].job = article[a].job
                                 /\ article'[a].source = article[a].source
                                 /\ article'[a].profile = article[a].profile
      PROVE  Asking'
  <2>1. ASSUME NEW a \in Articles, article[a].job # None PROVE AsksFor(a)'
    <3>1. article[a].job \in Jobs /\ AsksFor(a)
      BY <2>1 DEF Asking, TypeInv, TypeOK, ArticleRow
    <3>2. /\ job'[article[a].job].article = job[article[a].job].article
          /\ job'[article[a].job].source = job[article[a].job].source
      BY <1>1, <2>1, <3>1 DEF JobsKeep, RowKeeps, AsksFor
    <3> QED BY <1>0, <1>1, <2>1, <3>1, <3>2 DEF AsksFor, JobsLast, RowLasts
  <2> QED BY <1>1, <2>1 DEF Asking, AsksFor
<1>2. ASSUME NEW w \in Workers, Publish(w)
      PROVE  \A a \in Articles : /\ article'[a].job = article[a].job
                                 /\ article'[a].source = article[a].source
                                 /\ article'[a].profile = article[a].profile
  <2> DEFINE a == job[worker[w].job].article
  <2>1. \/ article' = article
        \/ \E k : article' = [article EXCEPT ![a] = [article[a] EXCEPT !.canonical = k]]
    BY <1>2 DEF Publish, TypeInv, TypeOK
  <2>2. article \in [Articles -> ArticleRow]
    BY DEF TypeInv, TypeOK
  <2>3. a \in Articles
    BY <1>2, HeldType DEF Publish
  <2> HIDE DEF a
  <2> QED BY <2>1, <2>2, <2>3 DEF ArticleRow
<1>3. ASSUME NEW w \in Workers, Run(w) PROVE article' = article \/ CommitSource(w) \/ Publish(w)
  BY <1>3 DEF Run, Begin, Capture, Load, Normalize, Preserve, Park, Prepare, Dispatch, Model,
              Result, Reload, Validate, Record, Fail, RowsKept
<1>4. ASSUME NEW w \in Workers, Claim(w) \/ Heartbeat(w) \/ Crash(w) PROVE article' = article
  BY <1>4 DEF Claim, ClaimAutomatic, ClaimReview, ClaimConfiguration, PassResume, SweepExhausted,
              ClaimGeneric, NothingToClaim, UntouchedByClaims, Heartbeat, Crash, GiveUp, RowsKept
<1>5. ASSUME NEW r \in Reviewers, NEW j \in Jobs, Decide(r, j) PROVE article' = article
  BY <1>5 DEF Decide, Export, Approve, Reject, Correct, CorrectFailed, UntouchedByReviews
<1>6. ASSUME NEW j \in Jobs, LeaseTick(j) PROVE article' = article
  BY <1>6 DEF LeaseTick
<1>7. \/ \E w \in Workers : CommitSource(w)
      \/ \E mover : JobsKeep(mover)
  BY NextKeeps
<1>8. \/ \E w \in Workers : CommitSource(w) \/ Publish(w)
      \/ \E a \in Articles : Request(a)
      \/ article' = article
  BY <1>3, <1>4, <1>5, <1>6 DEF Next, vars
<1> QED BY <1>1, <1>2, <1>7, <1>8, RequestAsks, CommitAsks

(***************************************************************************)
(* What becomes of a row, as the draft and its approval see it.            *)
(***************************************************************************)
Approved(row) == row.status \in {"pending", "processing"} /\ row.review = "approved"

Tends(old, new) ==
    /\ new.profile = old.profile /\ new.rewriteError = old.rewriteError
    /\ new.error = "AUTOMATIC_CANDIDATE_INVALID" => old.error = "AUTOMATIC_CANDIDATE_INVALID"
    /\ new.review # "none" => old.review # "none" \/ old.profile = "review"
    /\ Approved(new) => Approved(old) /\ new.generation = old.generation

Starts(old, new) ==
    /\ old.status = "absent" /\ new.key = None /\ new.review = "none"
    /\ new.error # "AUTOMATIC_CANDIDATE_INVALID"

JobsTend == \A i \in Jobs : Tends(job[i], job'[i]) \/ Starts(job[i], job'[i])

\* What a claim finds where a saved draft of the automatic profile waits.
ResumesSoundly ==
    \A i \in Jobs : AutomaticDraft(i) /\ Resumable(i) => Current(i) /\ AutomaticValid(i)

LEMMA StillTends == ASSUME UNCHANGED job PROVE JobsTend
BY DEF JobsTend, Tends

LEMMA OneTends ==
    ASSUME TypeInv, NEW j \in Jobs, NEW row, job' = [job EXCEPT ![j] = row],
           Tends(job[j], row) \/ Starts(job[j], row)
    PROVE  JobsTend
<1>1. job'[j] = row /\ \A i \in Jobs \ {j} : job'[i] = job[i]
  BY DEF TypeInv, TypeOK
<1> QED BY <1>1 DEF JobsTend, Tends

LEMMA RequestTends == ASSUME TypeInv, NEW a \in Articles, Request(a) PROVE JobsTend
<1>0. /\ FreshJob(a) \in JobRow /\ FreshJob(a).key = None /\ FreshJob(a).review = "none"
      /\ FreshJob(a).error = "none"
  BY FreshJobType DEF FreshJob, AbsentJob
<1>1. CASE EnsureJob(a)
  <2>1. \A j \in Jobs : job[j].status = "absent" => Starts(job[j], FreshJob(a))
    BY <1>0 DEF Starts
  <2> QED BY <1>1, <2>1, OneTends DEF EnsureJob
<1>2. ASSUME NEW p \in Profiles, RefreshJob(a, p) PROVE JobsTend
  <2> DEFINE row == [FreshJob(a) EXCEPT !.generation = article[a].generation + 1, !.profile = p]
  <2>1. \A j \in Jobs : job[j].status = "absent" => Starts(job[j], row)
    BY <1>0 DEF Starts, JobRow
  <2>2. \E j \in Jobs : job[j].status = "absent" /\ job' = [job EXCEPT ![j] = row]
    BY <1>2 DEF RefreshJob
  <2> HIDE DEF row
  <2> QED BY <2>1, <2>2, OneTends
<1>3. CASE Reproject(a)
  <2> DEFINE row == [FreshJob(a) EXCEPT
                       !.generation = article[a].generation + 1,
                       !.status = "needs_review", !.phase = "completed",
                       !.error = "SOURCE_ONLY_REPROJECTION",
                       !.retry = 1, !.token = 1,
                       !.source = [article[a].source EXCEPT !.projection = 2]]
  <2>1. \A j \in Jobs : job[j].status = "absent" => Starts(job[j], row)
    BY <1>0 DEF Starts, JobRow
  <2>2. \E j \in Jobs : job[j].status = "absent" /\ job' = [job EXCEPT ![j] = row]
    BY <1>3 DEF Reproject
  <2> HIDE DEF row
  <2> QED BY <2>1, <2>2, OneTends
<1> QED BY <1>1, <1>2, <1>3 DEF Request

LEMMA ClaimTends ==
    ASSUME TypeInv, ReviewOnly, ResumesSoundly, NEW w \in Workers, Claim(w)
    PROVE  JobsTend
<1>0. \A j \in Jobs : job[j] \in JobRow
  BY DEF TypeInv, TypeOK
<1>1. CASE UNCHANGED job
  BY <1>1, StillTends
<1>2. ASSUME NEW j \in Jobs, NEW p, job[j].status \in {"pending", "processing"}
                                    \/ job[j].review = "none",
             job' = [job EXCEPT ![j] = [ClaimedBy(w, @) EXCEPT !.phase = p, !.error = "none"]]
      PROVE  JobsTend
  <2> DEFINE row == [ClaimedBy(w, job[j]) EXCEPT !.phase = p, !.error = "none"]
  <2>1. job' = [job EXCEPT ![j] = row]
    BY <1>2 DEF TypeInv, TypeOK
  <2>2. Tends(job[j], row)
    BY <1>0, <1>2 DEF Tends, Approved, ClaimedBy, JobRow
  <2> HIDE DEF row
  <2> QED BY <2>1, <2>2, OneTends
<1>3. ASSUME NEW j \in Jobs, NEW ready \in BOOLEAN, ClaimAutomatic(w, j, ready) PROVE JobsTend
  <2>1. Current(j) /\ AutomaticValid(j) /\ job[j].status \in {"pending", "processing"}
    BY <1>3 DEF ClaimAutomatic, ResumesSoundly, Resumable, Expired
  <2> QED BY <1>2, <1>3, <2>1 DEF ClaimAutomatic
<1>4. ASSUME NEW j \in Jobs, NEW ready \in BOOLEAN, ClaimReview(w, j, ready) PROVE JobsTend
  <2> DEFINE row == [Released(job[j]) EXCEPT
                       !.status = "needs_review", !.error = "CONTENT_REVIEW_REQUIRED",
                       !.review = "awaiting_review"]
  <2>1. CASE FullyApproved(j)
    BY <1>2, <1>4, <2>1 DEF ClaimReview, Resumable, Expired
  <2>2. CASE ~FullyApproved(j)
    <3>1. job' = [job EXCEPT ![j] = row] /\ job[j].profile = "review"
      BY <1>4, <2>2 DEF ClaimReview, TypeInv, TypeOK
    <3>2. Tends(job[j], row)
      BY <1>0, <3>1 DEF Tends, Approved, Released, JobRow
    <3> HIDE DEF row
    <3> QED BY <3>1, <3>2, OneTends
  <2> QED BY <2>1, <2>2
<1>5. ASSUME NEW j \in Jobs, ClaimConfiguration(w, j) PROVE JobsTend
  <2>1. job[j].review = "none"
    BY <1>5 DEF ClaimConfiguration, AwaitingModel, ReviewOnly
  <2> QED BY <1>2, <1>5, <2>1 DEF ClaimConfiguration
<1>6. CASE SweepExhausted(w) \/ ClaimGeneric(w)
  <2> DEFINE j == worker[w].job
             swept == [Released(job[j]) EXCEPT !.status = "dead_letter",
                                               !.error = "LEASE_ATTEMPTS_EXHAUSTED"]
             claimed == [ClaimedBy(w, job[j]) EXCEPT !.retry = NextAttempt(j),
                                                     !.phase = NextPhase(j)]
  <2>1. j \in Jobs /\ job[j] \in JobRow
    BY <1>6, HeldType DEF SweepExhausted, ClaimGeneric
  <2>2. CASE SweepExhausted(w)
    <3>1. job' = [job EXCEPT ![j] = swept]
      BY <2>1, <2>2 DEF SweepExhausted, TypeInv, TypeOK
    <3>2. Tends(job[j], swept)
      BY <2>1 DEF Tends, Approved, Released, JobRow
    <3> HIDE DEF swept
    <3> QED BY <2>1, <3>1, <3>2, OneTends
  <2>3. CASE ClaimGeneric(w)
    <3>1. job' = [job EXCEPT ![j] = claimed] /\ ~Excluded(j)
      BY <2>1, <2>3 DEF ClaimGeneric, Claimable, TypeInv, TypeOK
    <3>2. job[j].review = "none"
      BY <2>1, <3>1 DEF Excluded, ReviewOnly
    <3>3. Tends(job[j], claimed)
      BY <2>1, <3>2 DEF Tends, Approved, ClaimedBy, JobRow
    <3> HIDE DEF claimed
    <3> QED BY <2>1, <3>1, <3>3, OneTends
  <2> QED BY <1>6, <2>2, <2>3
<1> QED BY <1>1, <1>3, <1>4, <1>5, <1>6
        DEF Claim, PassResume, NothingToClaim

LEMMA DraftTends ==
    ASSUME TypeInv, NEW w \in Workers,
           Normalize(w) \/ Preserve(w) \/ Park(w) \/ Validate(w) \/ Publish(w) \/ Fail(w)
    PROVE  JobsTend
<1> DEFINE j == worker[w].job
           phased(p) == [job[j] EXCEPT !.phase = p]
           normal == [job[j] EXCEPT !.phase = "rewriting", !.normalized = TRUE]
           parked == [Released(job[j]) EXCEPT !.status = "failed",
                                              !.error = "MODEL_NOT_CONFIGURED"]
           published == [Released(job[j]) EXCEPT !.status = "completed", !.phase = "completed",
                                                 !.error = "none"]
           failed(s, e) == [Released(job[j]) EXCEPT !.status = s, !.error = e]
<1>1. j \in Jobs /\ job[j] \in JobRow
  BY HeldType DEF Normalize, Preserve, Park, Validate, Publish, Fail
<1>2. CASE UNCHANGED job
  BY <1>2, StillTends
<1>3. ASSUME NEW row, job' = [job EXCEPT ![j] = row], Tends(job[j], row) PROVE JobsTend
  <2> HIDE DEF j
  <2> QED BY <1>1, <1>3, OneTends
<1>4. ASSUME NEW p \in {"validating", "publishing"} PROVE Tends(job[j], phased(p))
  BY <1>1, <1>4 DEF JobRow, Tends, Approved
<1>5. /\ Tends(job[j], normal) /\ Tends(job[j], parked) /\ Tends(job[j], published)
  BY <1>1 DEF Released, JobRow, Tends, Approved
<1>6. ASSUME NEW s \in {"failed", "dead_letter", "needs_review"},
             NEW e \in {job[j].rewriteError, "REFUSED"}
      PROVE  Tends(job[j], failed(s, e))
  <2>1. e # "AUTOMATIC_CANDIDATE_INVALID"
    BY <1>1, <1>6 DEF JobRow, RewriteError
  <2> QED BY <1>1, <1>6, <2>1 DEF Released, JobRow, Tends, Approved
<1>7. CASE Normalize(w) \/ Park(w) \/ Publish(w)
  <2>1. \/ job' = [job EXCEPT ![j] = normal]
        \/ job' = [job EXCEPT ![j] = parked]
        \/ job' = [job EXCEPT ![j] = published]
        \/ UNCHANGED job
    BY <1>1, <1>7 DEF Normalize, Park, Publish, TypeInv, TypeOK
  <2> QED BY <1>2, <1>3, <1>5, <2>1
<1>8. CASE Preserve(w) \/ Validate(w)
  <2>1. \/ job' = [job EXCEPT ![j] = phased("validating")]
        \/ job' = [job EXCEPT ![j] = phased("publishing")]
        \/ UNCHANGED job
    BY <1>1, <1>8 DEF Preserve, Validate, TypeInv, TypeOK
  <2> QED BY <1>2, <1>3, <1>4, <2>1
<1>9. CASE Fail(w)
  <2>1. \/ UNCHANGED job
        \/ \E s \in {"failed", "dead_letter", "needs_review"},
              e \in {job[j].rewriteError, "REFUSED"} :
                job' = [job EXCEPT ![j] = failed(s, e)]
    BY <1>1, <1>9 DEF Fail, TypeInv, TypeOK
  <2> QED BY <1>2, <1>3, <1>6, <2>1
<1> QED BY <1>7, <1>8, <1>9

LEMMA CommitTends == ASSUME TypeInv, NEW w \in Workers, CommitSource(w) PROVE JobsTend
<1> DEFINE j == worker[w].job
           a == job[j].article
           s == worker[w].fetched
           k == KeyOf(j, s)
           taken == [job[j] EXCEPT !.source = s, !.key = k, !.phase = "normalizing"]
           done == [Released(job[j]) EXCEPT !.source = s, !.status = "completed",
                                            !.phase = "completed"]
<1>1. j \in Jobs /\ job[j] \in JobRow
  BY HeldType DEF CommitSource
<1>2. Tends(job[j], taken) /\ Tends(job[j], done)
  BY <1>1 DEF Tends, Approved, Released, JobRow
<1>3. CASE UNCHANGED job
  BY <1>3, StillTends
<1>4. CASE TakeKey(w, j, a, s, k)
  <2>1. job' = [job EXCEPT ![j] = taken]
    BY <1>1, <1>4 DEF TakeKey, TypeInv, TypeOK
  <2> HIDE DEF taken
  <2> QED BY <1>1, <1>2, <2>1, OneTends
<1>5. ASSUME NEW o \in OwnerOf(k) \ {j}, Reuse(w, j, a, s, k, o) PROVE JobsTend
  <2> DEFINE inspected == [job EXCEPT ![j] = done]
             moved == [job[o] EXCEPT !.generation = AdoptedGeneration(j),
                                     !.review = "awaiting_review"]
             adopted == TerminalOwner(o, k) /\ Adopts(o, k)
  <2>1. o \in Jobs /\ o # j /\ job[o] \in JobRow
    BY <1>5 DEF OwnerOf, TypeInv, TypeOK
  <2>2. adopted => Tends(job[o], moved)
    BY <2>1 DEF Adopts, Tends, Approved, JobRow
  <2>3. job' = IF adopted THEN [inspected EXCEPT ![o] = moved] ELSE inspected
    BY <1>1, <1>5, <2>1 DEF Reuse, TypeInv, TypeOK
  <2> HIDE DEF done, moved, adopted, k, s, a, j
  <2>4. /\ job'[j] = done
        /\ job'[o] = IF adopted THEN moved ELSE job[o]
        /\ \A i \in Jobs \ {j, o} : job'[i] = job[i]
    BY <1>1, <2>1, <2>3 DEF TypeInv, TypeOK
  <2> QED BY <1>2, <2>2, <2>4 DEF JobsTend, Tends
<1> QED BY <1>3, <1>4, <1>5 DEF CommitSource

LEMMA ClockTends ==
    ASSUME TypeInv, NEW j \in Jobs, NEW n, job' = [job EXCEPT ![j] = [@ EXCEPT !.lease = n]]
    PROVE  JobsTend
<1> DEFINE row == [job[j] EXCEPT !.lease = n]
<1>1. job[j] \in JobRow /\ job' = [job EXCEPT ![j] = row]
  BY DEF TypeInv, TypeOK
<1>2. Tends(job[j], row)
  BY <1>1 DEF Tends, Approved, JobRow
<1> HIDE DEF row
<1> QED BY <1>1, <1>2, OneTends

LEMMA DecideTends ==
    ASSUME TypeInv, NEW r \in Reviewers, NEW j \in Jobs, Export(r, j) \/ Reject(r, j) \/ Correct(r, j)
    PROVE  JobsTend
<1>1. job[j] \in JobRow
  BY DEF TypeInv, TypeOK
<1>2. CASE UNCHANGED job
  BY <1>2, StillTends
<1>3. CASE job' # job
  <2>1. job[j].profile = "review" /\ job' = [job EXCEPT ![j] = WaitAgain(job[j])]
    BY <1>3 DEF Export, Reject, Correct, Reviewable, DraftCurrent, TypeInv, TypeOK
  <2>2. Tends(job[j], WaitAgain(job[j]))
    BY <1>1, <2>1 DEF Tends, Approved, WaitAgain, Released, JobRow
  <2> QED BY <2>1, <2>2, OneTends
<1> QED BY <1>2, <1>3

\* The answer of the model reaches the rows.
Delivers(w) ==
    Result(w) /\ TransformHeld(w) /\ StoreResult(w, worker[w].job, With(AttemptOf(w), "dispatched"))

LEMMA NextTends ==
    ASSUME TypeInv, ReviewOnly, ResumesSoundly, [Next]_vars
    PROVE  \/ JobsTend
           \/ \E w \in Workers : Delivers(w)
           \/ \E r \in Reviewers, j \in Jobs : Approve(r, j) \/ CorrectFailed(r, j)
<1>1. ASSUME NEW w \in Workers, Run(w) PROVE JobsTend \/ Delivers(w)
  <2>1. CASE Normalize(w) \/ Preserve(w) \/ Park(w) \/ Validate(w) \/ Publish(w) \/ Fail(w)
    BY <2>1, DraftTends
  <2>2. CASE CommitSource(w)
    BY <2>2, CommitTends
  <2>3. CASE Result(w)
    BY <2>3, StillTends DEF Result, Delivers
  <2>4. CASE \/ Begin(w) \/ Capture(w) \/ Load(w) \/ Prepare(w) \/ Dispatch(w)
             \/ Model(w) \/ Reload(w) \/ Record(w)
    BY <2>4, StillTends
    DEF Begin, Capture, Load, Prepare, Dispatch, Model, Reload, Record, RowsKept
  <2> QED BY <1>1, <2>1, <2>2, <2>3, <2>4 DEF Run
<1>2. ASSUME NEW w \in Workers, Heartbeat(w) \/ Crash(w) PROVE JobsTend
  <2>1. CASE Heartbeat(w)
    <3>1. worker[w].job \in Jobs
      BY <2>1, HeldType DEF Heartbeat
    <3> QED BY <2>1, <3>1, ClockTends DEF Heartbeat
  <2>2. CASE Crash(w)
    BY <2>2, StillTends DEF Crash, GiveUp, RowsKept
  <2> QED BY <1>2, <2>1, <2>2
<1>3. ASSUME NEW j \in Jobs, LeaseTick(j) PROVE JobsTend
  BY <1>3, ClockTends DEF LeaseTick
<1>4. ASSUME NEW r \in Reviewers, NEW j \in Jobs, Decide(r, j)
      PROVE  JobsTend \/ Approve(r, j) \/ CorrectFailed(r, j)
  BY <1>4, DecideTends DEF Decide
<1>5. CASE UNCHANGED vars
  BY <1>5, StillTends DEF vars
<1> QED BY <1>1, <1>2, <1>3, <1>4, <1>5, RequestTends, ClaimTends DEF Next
\* What becomes of the row of one job.
LEMMA RowTends ==
    ASSUME TypeInv, ReviewOnly, ResumesSoundly, [Next]_vars, NEW i \in Jobs
    PROVE  \/ Tends(job[i], job'[i])
           \/ Starts(job[i], job'[i])
           \/ \E w \in Workers : Delivers(w) /\ worker[w].job = i
           \/ \E r \in Reviewers : Approve(r, i) \/ CorrectFailed(r, i)
<1>1. ASSUME NEW j, NEW row, i # j, job' = [job EXCEPT ![j] = row] PROVE Tends(job[i], job'[i])
  BY <1>1 DEF Tends, TypeInv, TypeOK
<1>2. ASSUME NEW w \in Workers, Delivers(w), worker[w].job # i PROVE Tends(job[i], job'[i])
  BY <1>1, <1>2 DEF Delivers, StoreResult
<1>3. ASSUME NEW r \in Reviewers, NEW j \in Jobs, Approve(r, j) \/ CorrectFailed(r, j), j # i
      PROVE  Tends(job[i], job'[i])
  BY <1>1, <1>3 DEF Approve, CorrectFailed
<1> QED BY <1>2, <1>3, NextTends DEF JobsTend

\* Who changes a draft or what is said of it.
LEMMA NextRevises ==
    ASSUME [Next]_vars
    PROVE  \/ UNCHANGED <<revision, review>>
           \/ \E w \in Workers : Preserve(w) \/ Result(w) \/ Validate(w) \/ Publish(w)
           \/ \E r \in Reviewers, j \in Jobs :
                Approve(r, j) \/ Reject(r, j) \/ Correct(r, j) \/ CorrectFailed(r, j)
<1>1. ASSUME NEW w \in Workers, Run(w)
      PROVE  \/ UNCHANGED <<revision, review>>
             \/ Preserve(w) \/ Result(w) \/ Validate(w) \/ Publish(w)
  BY <1>1 DEF Run, Begin, Capture, CommitSource, Load, Normalize, Park, Prepare, Dispatch, Model,
              Reload, Record, Fail, RowsKept
<1>2. ASSUME NEW w \in Workers, Claim(w) \/ Heartbeat(w) \/ Crash(w)
      PROVE  UNCHANGED <<revision, review>>
  BY <1>2 DEF Claim, ClaimAutomatic, ClaimReview, ClaimConfiguration, PassResume, SweepExhausted,
              ClaimGeneric, NothingToClaim, UntouchedByClaims, Heartbeat, Crash, GiveUp, RowsKept
<1>3. ASSUME NEW a \in Articles, Request(a) PROVE UNCHANGED <<revision, review>>
  BY <1>3 DEF Request, EnsureJob, RefreshJob, Reproject, UntouchedByRequests
<1>4. ASSUME NEW j \in Jobs, LeaseTick(j) PROVE UNCHANGED <<revision, review>>
  BY <1>4 DEF LeaseTick
<1>5. ASSUME NEW r \in Reviewers, NEW j \in Jobs, Decide(r, j)
      PROVE  \/ UNCHANGED <<revision, review>>
             \/ Approve(r, j) \/ Reject(r, j) \/ Correct(r, j) \/ CorrectFailed(r, j)
  BY <1>5 DEF Decide, Export
<1> QED BY <1>1, <1>2, <1>3, <1>4, <1>5 DEF Next, vars

\* Who writes a first draft finds none.
LEMMA NoDraftHeld ==
    ASSUME TypeInv, LedgerInv, NEW w \in Workers, Preserve(w) \/ Result(w) \/ Prepare(w),
           LeaseHeld(w)
    PROVE  /\ worker[w].job \in Jobs /\ job[worker[w].job].key \in Key
           /\ revision[job[worker[w].job].key].status = "none"
           /\ ~HasCandidate(worker[w].job)
<1>1. worker[w].job \in Jobs /\ worker[w].pc \in Unwritten
  BY HeldType DEF Preserve, Result, Prepare, Unwritten
<1>2. job[worker[w].job].key # None /\ ~HasCandidate(worker[w].job)
  BY <1>1 DEF LedgerInv, PcFits, Informed
<1> QED BY <1>1, <1>2 DEF HasCandidate, TypeInv, TypeOK, JobRow

\* What a saved draft says stays said, but for a repair by hand.
Told(old, new) ==
    /\ new.sound = old.sound /\ new.preserving = old.preserving
    /\ new.status = "validated" => old.status = "validated" \/ old.sound

LEMMA NextTells ==
    ASSUME TypeInv, LedgerInv, [Next]_vars, NEW k \in Key, revision[k].status # "none"
    PROVE  \/ Told(revision[k], revision'[k])
           \/ \E r \in Reviewers, j \in Jobs : CorrectFailed(r, j) /\ job[j].key = k
<1>0. revision[k] \in RevisionRow /\ revision \in [Key -> RevisionRow]
  BY DEF TypeInv, TypeOK
<1>1. ASSUME revision'[k] = revision[k] PROVE Told(revision[k], revision'[k])
  BY <1>1 DEF Told
<1>2. ASSUME NEW x, NEW s, x # k, revision' = [revision EXCEPT ![x] = s]
      PROVE  Told(revision[k], revision'[k])
  BY <1>0, <1>1, <1>2
<1>3. ASSUME NEW w \in Workers, Preserve(w) \/ Result(w) PROVE Told(revision[k], revision'[k])
  <2>1. CASE revision' = revision
    BY <1>1, <2>1
  <2>2. CASE revision' # revision
    <3>1. LeaseHeld(w)
      BY <1>3, <2>2 DEF Preserve, Result, TransformHeld
    <3>2. job[worker[w].job].key # k
      BY <1>3, <3>1, NoDraftHeld
    <3>3. \E row : revision' = [revision EXCEPT ![job[worker[w].job].key] = row]
      BY <1>3, <2>2 DEF Preserve, Result, StoreResult
    <3> QED BY <1>2, <3>2, <3>3
  <2> QED BY <2>1, <2>2
<1>4. ASSUME NEW w \in Workers, Validate(w) \/ Publish(w) PROVE Told(revision[k], revision'[k])
  <2> DEFINE x == job[worker[w].job].key
             row(s) == [revision[x] EXCEPT !.status = s]
  <2>1. CASE x = k /\ revision' # revision
    <3>1. \E s \in {"published", "rejected", "validated"} :
             /\ revision' = [revision EXCEPT ![k] = [revision[k] EXCEPT !.status = s]]
             /\ s = "validated" => revision[k].sound
      <4>1. CASE Validate(w)
        BY <1>0, <2>1, <4>1 DEF Validate
      <4>2. CASE Publish(w)
        BY <1>0, <2>1, <4>2 DEF Publish
      <4> QED BY <1>4, <4>1, <4>2
    <3>2. PICK s \in {"published", "rejected", "validated"} :
             /\ revision' = [revision EXCEPT ![k] = [revision[k] EXCEPT !.status = s]]
             /\ s = "validated" => revision[k].sound
      BY <3>1
    <3> DEFINE told == [revision[k] EXCEPT !.status = s]
    <3>3. Told(revision[k], told)
      BY <1>0, <3>2 DEF Told, RevisionRow
    <3> HIDE DEF told
    <3>4. revision'[k] = told
      BY <1>0, <3>2 DEF told
    <3> QED BY <3>3, <3>4
  <2>2. CASE x # k \/ revision' = revision
    <3>1. revision' = revision \/ \E s : revision' = [revision EXCEPT ![x] = row(s)]
      BY <1>4 DEF Validate, Publish
    <3> HIDE DEF x, row
    <3> QED BY <1>1, <1>2, <2>2, <3>1
  <2> QED BY <2>1, <2>2
<1>5. ASSUME NEW r \in Reviewers, NEW j \in Jobs, Approve(r, j) \/ Reject(r, j) \/ Correct(r, j)
      PROVE  Told(revision[k], revision'[k])
  <2> DEFINE told(n) == [revision[k] EXCEPT !.version = n]
  <2>1. \/ revision' = revision
        \/ \E x, n : revision' = [revision EXCEPT ![x] = [revision[x] EXCEPT !.version = n]]
    BY <1>5 DEF Approve, Reject, Correct
  <2>2. \A n : Told(revision[k], told(n))
    BY <1>0 DEF Told, RevisionRow
  <2>3. revision'[k] = revision[k] \/ \E n : revision'[k] = told(n)
    BY <1>0, <2>1
  <2> HIDE DEF told
  <2> QED BY <1>1, <2>2, <2>3
<1>6. ASSUME NEW r \in Reviewers, NEW j \in Jobs, CorrectFailed(r, j), job[j].key # k
      PROVE  Told(revision[k], revision'[k])
  BY <1>2, <1>6 DEF CorrectFailed
<1> QED BY <1>1, <1>3, <1>4, <1>5, <1>6, NextRevises

(***************************************************************************)
(* The invariant, step by step.                                            *)
(***************************************************************************)
LEMMA AskedIsCurrent ==
    ASSUME TypeInv, ActiveIsCurrent, Asking, KeysInv, NEW i \in Jobs, Active(i), job[i].key # None
    PROVE  Current(i)
<1>1. job[i].article \in Articles /\ job[i].source # None
  BY DEF KeysInv, KeyFits, Key, TypeInv, TypeOK, JobRow
<1>2. i # None
  BY ConstantsAssumption
<1> QED BY <1>1, <1>2 DEF ActiveIsCurrent, Asking, AsksFor, Current

LEMMA ResumedSoundly ==
    ASSUME TypeInv, ActiveIsCurrent, Asking, KeysInv, DraftsFit
    PROVE  ResumesSoundly
<1> SUFFICES ASSUME NEW i \in Jobs, AutomaticDraft(i), Resumable(i)
             PROVE  Current(i) /\ AutomaticValid(i)
  BY DEF ResumesSoundly
<1>1. Active(i) /\ job[i].key # None
  BY DEF Resumable, Expired, Active, AutomaticDraft, HasCandidate
<1>2. AutomaticValid(i)
  BY DEF AutomaticDraft, AutomaticValid, DraftsFit, DraftFits, TrulySaid
<1> QED BY <1>1, <1>2, AskedIsCurrent

LEMMA OwnedNext ==
    ASSUME TypeInv, LedgerInv, DraftOwned, [Next]_vars
    PROVE  DraftOwned'
<1> SUFFICES ASSUME NEW k \in Key, revision'[k].status # "none"
             PROVE  \E i \in Jobs : job'[i].key = k
  BY DEF DraftOwned
<1>1. \E i \in Jobs : job[i].key = k
  <2>1. CASE revision[k].status # "none"
    BY <2>1 DEF DraftOwned
  <2>2. CASE revision[k].status = "none"
    <3>1. PICK w \in Workers : /\ Run(w) /\ LeaseHeld(w) /\ job[worker[w].job].key = k
                               /\ Result(w) \/ Preserve(w)
      BY <2>2, NextDrafts DEF Drafted
    <3> QED BY <3>1, NoDraftHeld
  <2> QED BY <2>1, <2>2
<1> QED BY <1>1, KeyStays, NoneAssumption DEF LedgerInv

LEMMA ReviewOnlyNext ==
    ASSUME TypeInv, ReviewOnly, ResumesSoundly, [Next]_vars
    PROVE  ReviewOnly'
<1> SUFFICES ASSUME NEW i \in Jobs, job'[i].review # "none" PROVE job'[i].profile = "review"
  BY DEF ReviewOnly
<1>0. job[i] \in JobRow
  BY DEF TypeInv, TypeOK
<1>1. CASE Tends(job[i], job'[i])
  BY <1>1 DEF Tends, ReviewOnly
<1>2. CASE Starts(job[i], job'[i])
  BY <1>2 DEF Starts
<1>3. ASSUME NEW w \in Workers, Delivers(w), worker[w].job = i PROVE job'[i].profile = "review"
  <2> DEFINE saved == [job[i] EXCEPT !.phase = "validating",
                                     !.rewriteError = ErrorOf(worker[w].answer)]
  <2>1. \/ job[i].profile = "review" /\ job' = [job EXCEPT ![i] = AwaitReview(saved)]
        \/ job' = [job EXCEPT ![i] = saved]
    BY <1>3 DEF Delivers, StoreResult
  <2>2. saved.profile = job[i].profile /\ saved.review = job[i].review
        /\ AwaitReview(saved).profile = job[i].profile
    BY <1>0 DEF AwaitReview, Released, JobRow
  <2> HIDE DEF saved
  <2> QED BY <2>1, <2>2 DEF ReviewOnly, TypeInv, TypeOK
<1>4. ASSUME NEW r \in Reviewers, Approve(r, i) \/ CorrectFailed(r, i)
      PROVE  job'[i].profile = "review"
  <2>1. job[i].profile = "review"
    BY <1>4 DEF Approve, CorrectFailed, Reviewable, FailedDraft, DraftCurrent
  <2> DEFINE approved == [job[i] EXCEPT !.status = "pending", !.phase = "publishing",
                                        !.error = "none", !.review = "approved"]
             repaired == [WaitAgain(job[i]) EXCEPT !.rewriteError = "none"]
  <2>2. job'[i] = approved \/ job'[i] = repaired
    BY <1>4 DEF Approve, CorrectFailed, TypeInv, TypeOK
  <2>3. approved.profile = job[i].profile /\ repaired.profile = job[i].profile
    BY <1>0 DEF WaitAgain, Released, JobRow
  <2> HIDE DEF approved, repaired
  <2> QED BY <2>1, <2>2, <2>3
<1> QED BY <1>1, <1>2, <1>3, <1>4, RowTends

LEMMA ValidNext ==
    ASSUME TypeInv, ReviewOnly, ResumesSoundly, AutomaticDraftStaysValid, [Next]_vars
    PROVE  AutomaticDraftStaysValid'
<1> SUFFICES ASSUME NEW i \in Jobs PROVE job'[i].error # "AUTOMATIC_CANDIDATE_INVALID"
  BY DEF AutomaticDraftStaysValid
<1>0. job[i] \in JobRow /\ job[i].error # "AUTOMATIC_CANDIDATE_INVALID"
  BY DEF TypeInv, TypeOK, AutomaticDraftStaysValid
<1>1. CASE Tends(job[i], job'[i]) \/ Starts(job[i], job'[i])
  BY <1>0, <1>1 DEF Tends, Starts
<1>2. ASSUME NEW w \in Workers, Delivers(w), worker[w].job = i
      PROVE  job'[i].error # "AUTOMATIC_CANDIDATE_INVALID"
  <2> DEFINE saved == [job[i] EXCEPT !.phase = "validating",
                                     !.rewriteError = ErrorOf(worker[w].answer)]
  <2>1. job'[i] = AwaitReview(saved) \/ job'[i] = saved
    BY <1>2 DEF Delivers, StoreResult, TypeInv, TypeOK
  <2>2. saved.error = job[i].error /\ AwaitReview(saved).error = "CONTENT_REVIEW_REQUIRED"
    BY <1>0 DEF AwaitReview, Released, JobRow
  <2> HIDE DEF saved
  <2> QED BY <1>0, <2>1, <2>2
<1>3. ASSUME NEW r \in Reviewers, Approve(r, i) \/ CorrectFailed(r, i)
      PROVE  job'[i].error # "AUTOMATIC_CANDIDATE_INVALID"
  <2> DEFINE approved == [job[i] EXCEPT !.status = "pending", !.phase = "publishing",
                                        !.error = "none", !.review = "approved"]
             repaired == [WaitAgain(job[i]) EXCEPT !.rewriteError = "none"]
  <2>1. job'[i] = approved \/ job'[i] = repaired
    BY <1>3 DEF Approve, CorrectFailed, TypeInv, TypeOK
  <2>2. approved.error = "none" /\ repaired.error = "CONTENT_REVIEW_REQUIRED"
    BY <1>0 DEF WaitAgain, Released, JobRow
  <2> HIDE DEF approved, repaired
  <2> QED BY <2>1, <2>2
<1> QED BY <1>1, <1>2, <1>3, RowTends

\* The first draft of a job says what the step that saved it found.
LEMMA FirstDraftFits ==
    ASSUME TypeInv, LedgerInv, NEW w \in Workers, LeaseHeld(w), NEW i \in Jobs,
           worker[w].job = i, revision'[job[i].key].status # "none",
           Result(w) \/ (Preserve(w) /\ AttemptsOf(i) = {})
    PROVE  /\ job'[i].rewriteError = "none" => revision'[job[i].key].sound
           /\ revision'[job[i].key].status = "validated" => revision'[job[i].key].sound
           /\ revision'[job[i].key].preserving => AttemptsOf(i)' = {}
<1>0. /\ job[i].key \in Key /\ revision[job[i].key].status = "none" /\ job[i] \in JobRow
  BY NoDraftHeld DEF TypeInv, TypeOK
<1>1. revision' # revision
  BY <1>0
<1>2. CASE Preserve(w) /\ AttemptsOf(i) = {}
  <2>1. revision'[job[i].key] = Draft("building", TRUE, TRUE) /\ attempts' = attempts
    BY <1>0, <1>1, <1>2 DEF Preserve, TypeInv, TypeOK
  <2> QED BY <1>2, <2>1 DEF Draft, AttemptsOf
<1>3. CASE Result(w)
  <2> DEFINE error == ErrorOf(worker[w].answer)
             saved == [job[i] EXCEPT !.phase = "validating", !.rewriteError = error]
             status == IF error = "none" /\ job[i].profile = "review" THEN "validated"
                                                                      ELSE "building"
             draft == Draft(status, error = "none", FALSE)
  <2>1. /\ revision'[job[i].key] = draft
        /\ job'[i] = AwaitReview(saved) \/ job'[i] = saved
    BY <1>0, <1>1, <1>3 DEF Result, StoreResult, TypeInv, TypeOK
  <2>2. error \in RewriteError
    BY DEF ErrorOf, RewriteError
  <2>3. saved.rewriteError = error /\ AwaitReview(saved).rewriteError = error
    BY <1>0, <2>2 DEF AwaitReview, Released, JobRow
  <2>4. /\ draft.sound = (error = "none") /\ draft.preserving = FALSE
        /\ draft.status = "validated" => error = "none"
    BY DEF Draft
  <2> HIDE DEF saved, error, status, draft
  <2>5. job'[i].rewriteError = error
    BY <2>1, <2>3
  <2> QED BY <2>1, <2>4, <2>5
<1> QED BY <1>2, <1>3
\* The verdict on a response stays as it is while the draft does, but for a repair.
LEMMA ErrorStays ==
    ASSUME TypeInv, LedgerInv, ReviewOnly, ResumesSoundly, [Next]_vars,
           NEW i \in Jobs, HasCandidate(i), \A r \in Reviewers : ~CorrectFailed(r, i)
    PROVE  job'[i].rewriteError = job[i].rewriteError
<1>0. job[i] \in JobRow /\ job[i].status # "absent"
  BY DEF HasCandidate, LedgerInv, ProfileFits, TypeInv, TypeOK
<1>1. ASSUME NEW r \in Reviewers, Approve(r, i) PROVE job'[i].rewriteError = job[i].rewriteError
  <2> DEFINE approved == [job[i] EXCEPT !.status = "pending", !.phase = "publishing",
                                        !.error = "none", !.review = "approved"]
  <2>1. job'[i] = approved
    BY <1>1 DEF Approve, TypeInv, TypeOK
  <2>2. approved.rewriteError = job[i].rewriteError
    BY <1>0 DEF JobRow
  <2> HIDE DEF approved
  <2> QED BY <2>1, <2>2
<1>2. ASSUME NEW w \in Workers, Delivers(w), worker[w].job = i PROVE FALSE
  BY <1>2, NoDraftHeld DEF Delivers, TransformHeld
<1>3. ~Starts(job[i], job'[i])
  BY <1>0 DEF Starts
<1> QED BY <1>1, <1>2, <1>3, RowTends DEF Tends

LEMMA UntriedStays ==
    ASSUME TypeInv, LedgerInv, [Next]_vars, NEW i \in Jobs, HasCandidate(i), AttemptsOf(i) = {}
    PROVE  AttemptsOf(i)' = {}
<1> SUFFICES ASSUME NEW x \in attempts', x.job = i PROVE FALSE
  BY DEF AttemptsOf
<1>1. ~\E y \in attempts : y.job = i
  BY DEF AttemptsOf
<1>2. PICK w \in Workers : Prepare(w) /\ LeaseHeld(w) /\ worker[w].job = i
  BY <1>1, NextAttempts DEF NoNewcomer
<1> QED BY <1>2, NoDraftHeld

LEMMA DraftsNext ==
    ASSUME TypeInv, LedgerInv, LedgerInv', ReviewOnly, ResumesSoundly, DraftOwned, DraftsFit,
           [Next]_vars
    PROVE  DraftsFit'
<1> DEFINE Fit(i) == /\ job'[i].rewriteError = "none" => revision'[job'[i].key].sound
                     /\ revision'[job'[i].key].status = "validated"
                          => revision'[job'[i].key].sound
                     /\ revision'[job'[i].key].preserving => AttemptsOf(i)' = {}
<1> SUFFICES ASSUME NEW i \in Jobs, HasCandidate(i)' PROVE Fit(i)
  BY DEF DraftsFit, DraftFits, TrulySaid
<1>0. job[i] \in JobRow /\ job'[i].key # None /\ revision'[job'[i].key].status # "none"
  BY DEF HasCandidate, TypeInv, TypeOK
<1>1. CASE HasCandidate(i)
  <2> DEFINE k == job[i].key
  <2>1. /\ k \in Key /\ revision[k].status # "none" /\ job'[i].key = k
        /\ revision[k] \in RevisionRow /\ revision \in [Key -> RevisionRow]
    BY <1>1, KeyStays DEF HasCandidate, LedgerInv, TypeInv, TypeOK, JobRow
  <2>2. /\ job[i].rewriteError = "none" => revision[k].sound
        /\ revision[k].status = "validated" => revision[k].sound
        /\ revision[k].preserving => AttemptsOf(i) = {}
    BY <1>1 DEF DraftsFit, DraftFits, TrulySaid
  <2>3. AttemptsOf(i) = {} => AttemptsOf(i)' = {}
    BY <1>1, UntriedStays
  <2>4. ASSUME NEW r \in Reviewers, CorrectFailed(r, i) PROVE Fit(i)
    <3> DEFINE repaired == [revision[k] EXCEPT !.status = "validated", !.sound = TRUE,
                                               !.version = revision[k].version + 1]
    <3>1. revision'[k] = repaired
      BY <2>1, <2>4 DEF CorrectFailed
    <3>2. repaired.sound = TRUE /\ repaired.preserving = revision[k].preserving
      BY <2>1 DEF RevisionRow
    <3> HIDE DEF repaired, k
    <3> QED BY <2>1, <2>2, <2>3, <3>1, <3>2
  <2>5. CASE \A r \in Reviewers : ~CorrectFailed(r, i)
    <3>1. ASSUME NEW r \in Reviewers, NEW j \in Jobs, CorrectFailed(r, j), job[j].key = k
          PROVE  FALSE
      <4>1. j = i
        BY <2>1, <3>1, NoneAssumption DEF LedgerInv, KeysInv, OneOwner
      <4> QED BY <2>5, <3>1, <4>1
    <3>2. Told(revision[k], revision'[k])
      BY <2>1, <3>1, NextTells
    <3>3. job'[i].rewriteError = job[i].rewriteError
      BY <1>1, <2>5, ErrorStays
    <3> QED BY <2>1, <2>2, <2>3, <3>2, <3>3 DEF Told
  <2> QED BY <2>4, <2>5
<1>2. CASE ~HasCandidate(i)
  <2> DEFINE k == job'[i].key
  <2>0. k \in Key /\ k # None
    <3>1. TypeInv'
      BY NextType
    <3> QED BY <1>0, <3>1 DEF TypeInv, TypeOK, JobRow
  <2>1. revision[k].status = "none"
    <3>1. ASSUME revision[k].status # "none" PROVE FALSE
      <4>1. PICK o \in Jobs : job[o].key = k
        BY <2>0, <3>1 DEF DraftOwned
      <4>2. job'[o].key = k
        BY <2>0, <4>1, KeyStays DEF LedgerInv
      <4>3. o = i
        BY <2>0, <4>2 DEF LedgerInv, KeysInv, OneOwner
      <4> QED BY <1>2, <2>0, <3>1, <4>1, <4>3 DEF HasCandidate
    <3> QED BY <3>1
  <2>2. PICK w \in Workers : /\ Run(w) /\ LeaseHeld(w) /\ job[worker[w].job].key = k
                             /\ Result(w) \/ (Preserve(w) /\ AttemptsOf(worker[w].job) = {})
    BY <1>0, <2>0, <2>1, NextDrafts DEF Drafted
  <2>3. worker[w].job = i /\ job[i].key = k
    <3>1. worker[w].job \in Jobs
      BY <2>2, NoDraftHeld
    <3>2. job'[worker[w].job].key = k
      BY <2>0, <2>2, <3>1, KeyStays DEF LedgerInv
    <3> QED BY <2>0, <2>2, <3>1, <3>2 DEF LedgerInv, KeysInv, OneOwner
  <2> QED BY <1>0, <2>2, <2>3, FirstDraftFits
<1> QED BY <1>1, <1>2
\* An approval that still stands after a step has its draft and its reviews untouched.
LEMMA ApprovalUntouched ==
    ASSUME TypeInv, LedgerInv, [Next]_vars, NEW i \in Jobs, FullyApproved(i),
           Approved(job[i]), Approved(job'[i])
    PROVE  revision'[job[i].key] = revision[job[i].key] /\ review'[job[i].key] = review[job[i].key]
<1> DEFINE k == job[i].key
           Untouched == revision'[k] = revision[k] /\ review'[k] = review[k]
<1>0. /\ k \in Key /\ k # None /\ revision[k].status = "validated"
      /\ job[i] \in JobRow /\ job \in [Jobs -> JobRow]
      /\ revision \in [Key -> RevisionRow] /\ review \in [Key -> ReviewRow]
  BY DEF FullyApproved, HasCandidate, TypeInv, TypeOK, JobRow
<1>1. \A j \in Jobs : job[j].key = k => j = i
  BY <1>0 DEF LedgerInv, KeysInv, OneOwner
<1>2. job[i].status # "needs_review" /\ job'[i].status \notin {"needs_review", "completed"}
  BY DEF Approved
<1>3. ASSUME NEW j \in Jobs, j # i,
             revision' = revision \/ \E row : revision' = [revision EXCEPT ![job[j].key] = row],
             review' = review \/ \E row : review' = [review EXCEPT ![job[j].key] = row]
      PROVE  Untouched
  <2>1. job[j].key # k
    BY <1>1, <1>3
  <2> QED BY <1>0, <1>3, <2>1
<1>4. ASSUME NEW w \in Workers, Preserve(w) \/ Result(w) PROVE Untouched
  <2>1. CASE UNCHANGED <<revision, review>>
    BY <2>1
  <2>2. CASE ~UNCHANGED <<revision, review>>
    <3>1. LeaseHeld(w)
      BY <1>4, <2>2 DEF Preserve, Result, TransformHeld
    <3>2. worker[w].job \in Jobs /\ worker[w].job # i
      BY <1>0, <1>4, <3>1, NoDraftHeld
    <3>3. /\ \E row : revision' = [revision EXCEPT ![job[worker[w].job].key] = row]
          /\ review' = review
      BY <1>4, <2>2 DEF Preserve, Result, StoreResult
    <3> QED BY <1>3, <3>2, <3>3
  <2> QED BY <2>1, <2>2
<1>5. ASSUME NEW w \in Workers, Validate(w) \/ Publish(w) PROVE Untouched
  <2>1. worker[w].job \in Jobs
    BY <1>5, HeldType DEF Validate, Publish
  <2>2. CASE worker[w].job = i
    <3>1. CASE Validate(w)
      BY <1>0, <2>2, <3>1 DEF Validate
    <3>2. CASE Publish(w)
      <4> DEFINE published == [Released(job[i]) EXCEPT
                      !.status = "completed", !.phase = "completed", !.error = "none"]
      <4>1. UNCHANGED <<revision, review>> \/ job'[i] = published
        BY <1>0, <2>2, <3>2 DEF Publish
      <4>2. published.status = "completed"
        BY <1>0 DEF Released, JobRow
      <4> HIDE DEF published
      <4> QED BY <1>2, <4>1, <4>2
    <3> QED BY <1>5, <3>1, <3>2
  <2>3. CASE worker[w].job # i
    <3>1. /\ \/ revision' = revision
             \/ \E row : revision' = [revision EXCEPT ![job[worker[w].job].key] = row]
          /\ review' = review
      BY <1>5 DEF Validate, Publish
    <3> HIDE DEF Untouched
    <3> QED BY <1>3, <2>1, <2>3, <3>1
  <2> QED BY <2>2, <2>3
<1>6. ASSUME NEW r \in Reviewers, NEW j \in Jobs,
             Approve(r, j) \/ Reject(r, j) \/ Correct(r, j) \/ CorrectFailed(r, j)
      PROVE  Untouched
  <2>1. CASE j # i
    <3>1. /\ revision' = revision \/ \E row : revision' = [revision EXCEPT ![job[j].key] = row]
          /\ review' = review \/ \E row : review' = [review EXCEPT ![job[j].key] = row]
      BY <1>6 DEF Approve, Reject, Correct, CorrectFailed
    <3> HIDE DEF Untouched
    <3> QED BY <1>3, <2>1, <3>1
  <2>2. CASE j = i
    <3>1. Reject(r, i) \/ Correct(r, i)
      BY <1>2, <1>6, <2>2 DEF Approve, CorrectFailed, Waiting, FailedDraft
    <3>2. job'[i] = WaitAgain(job[i])
      BY <1>0, <3>1 DEF Reject, Correct
    <3>3. WaitAgain(job[i]).status = "needs_review"
      BY <1>0 DEF WaitAgain, Released, JobRow
    <3> QED BY <1>2, <3>2, <3>3
  <2> QED BY <2>1, <2>2
<1> QED BY <1>4, <1>5, <1>6, NextRevises

\* An approval covers the draft it is recorded for.
LEMMA ApprovalCovers ==
    ASSUME TypeInv, DraftsFit, NEW r \in Reviewers, NEW i \in Jobs, Approve(r, i)
    PROVE  FullyApproved(i)'
<1> DEFINE k == job[i].key
           row == [job[i] EXCEPT !.status = "pending", !.phase = "publishing",
                                 !.error = "none", !.review = "approved"]
           said == [review[k] EXCEPT !.decision = "APPROVED", !.reviewer = r,
                        !.version = revision[k].version, !.generation = job[i].generation]
<1>0. /\ k \in Key /\ k # None /\ job[i] \in JobRow /\ review[k] \in ReviewRow
      /\ revision[k].status = "validated" /\ Current(i) /\ Independent(r, k)
  BY DEF Approve, Reviewable, DraftCurrent, HasCandidate, TypeInv, TypeOK, JobRow
<1>1. revision[k].sound
  BY <1>0 DEF DraftsFit, DraftFits, TrulySaid, HasCandidate
<1>2. /\ job'[i] = row /\ review'[k] = said /\ revision' = revision /\ article' = article
  BY <1>0 DEF Approve, UntouchedByReviews, TypeInv, TypeOK
<1>3. /\ row.key = k /\ row.article = job[i].article /\ row.generation = job[i].generation
      /\ row.source = job[i].source /\ row.profile = job[i].profile /\ row.review = "approved"
  BY <1>0 DEF JobRow
<1>4. /\ said.decision = "APPROVED" /\ said.reviewer = r /\ said.version = revision[k].version
      /\ said.generation = job[i].generation /\ said.corrector = review[k].corrector
      /\ said.failedOrigin = review[k].failedOrigin /\ said.authors = review[k].authors
  BY <1>0 DEF ReviewRow
<1> HIDE DEF row, said
<1>5. Current(i)'
  BY <1>0, <1>2, <1>3 DEF Current
<1>6. HasCandidate(i)' /\ job'[i].key = k
  BY <1>0, <1>2, <1>3 DEF HasCandidate
<1>7. r # review'[k].corrector /\ ~(review'[k].failedOrigin /\ r \in review'[k].authors)
  BY <1>0, <1>2, <1>4 DEF Independent
<1> QED BY <1>0, <1>1, <1>2, <1>3, <1>4, <1>5, <1>6, <1>7 DEF FullyApproved, Independent

LEMMA ApprovedNext ==
    ASSUME TypeInv, TypeInv', LedgerInv, LedgerInv', ActiveIsCurrent', Asking', ReviewOnly,
           ResumesSoundly, DraftsFit, ApprovedStaysPublishable, [Next]_vars
    PROVE  ApprovedStaysPublishable'
<1> SUFFICES ASSUME NEW i \in Jobs, Approved(job'[i]) PROVE FullyApproved(i)'
  BY DEF ApprovedStaysPublishable, Approved
<1>0. job[i] \in JobRow
  BY DEF TypeInv, TypeOK
<1>1. ASSUME NEW r \in Reviewers, Approve(r, i) PROVE FullyApproved(i)'
  BY <1>1, ApprovalCovers
<1>2. ASSUME NEW r \in Reviewers, CorrectFailed(r, i) PROVE FALSE
  <2> DEFINE repaired == [WaitAgain(job[i]) EXCEPT !.rewriteError = "none"]
  <2>1. job'[i] = repaired
    BY <1>2 DEF CorrectFailed, TypeInv, TypeOK
  <2>2. repaired.review = "awaiting_review"
    BY <1>0 DEF WaitAgain, Released, JobRow
  <2> HIDE DEF repaired
  <2> QED BY <2>1, <2>2 DEF Approved
<1>3. ASSUME NEW w \in Workers, Delivers(w), worker[w].job = i PROVE FALSE
  <2> DEFINE saved == [job[i] EXCEPT !.phase = "validating",
                                     !.rewriteError = ErrorOf(worker[w].answer)]
  <2>1. LeaseHeld(w) /\ job[i].status = "processing" /\ ~HasCandidate(i)
    BY <1>3, NoDraftHeld DEF Delivers, TransformHeld, LeaseHeld
  <2>2. job[i].review # "approved"
    BY <2>1 DEF ApprovedStaysPublishable, FullyApproved
  <2>3. job'[i] = AwaitReview(saved) \/ job'[i] = saved
    BY <1>3 DEF Delivers, StoreResult, TypeInv, TypeOK
  <2>4. saved.review = job[i].review /\ AwaitReview(saved).review = "awaiting_review"
    BY <1>0 DEF AwaitReview, Released, JobRow
  <2> HIDE DEF saved
  <2> QED BY <2>2, <2>3, <2>4 DEF Approved
<1>4. CASE Tends(job[i], job'[i])
  <2>1. Approved(job[i]) /\ job'[i].generation = job[i].generation
    BY <1>4 DEF Tends
  <2>2. FullyApproved(i)
    BY <2>1 DEF ApprovedStaysPublishable, Approved
  <2>3. job'[i].key = job[i].key /\ job[i].key # None
    BY <2>2, KeyStays DEF FullyApproved, HasCandidate, LedgerInv
  <2>4. /\ revision'[job[i].key] = revision[job[i].key]
        /\ review'[job[i].key] = review[job[i].key]
    BY <2>1, <2>2, ApprovalUntouched
  <2>5. Current(i)'
    <3>1. Active(i)' /\ job'[i].key # None
      BY <2>3 DEF Active, Approved
    <3>2. job'[i].article \in Articles /\ job'[i].source # None /\ i # None
      BY <3>1, ConstantsAssumption, NoneAssumption
      DEF LedgerInv, KeysInv, KeyFits, Key, TypeInv, TypeOK, JobRow
    <3> QED BY <3>1, <3>2 DEF ActiveIsCurrent, Asking, AsksFor, Current
  <2>6. HasCandidate(i)'
    BY <2>2, <2>3, <2>4 DEF FullyApproved, HasCandidate
  <2> QED BY <2>1, <2>2, <2>3, <2>4, <2>5, <2>6 DEF FullyApproved, Independent, Approved
<1>5. ~Starts(job[i], job'[i])
  BY DEF Starts, Approved
<1> QED BY <1>1, <1>2, <1>3, <1>4, <1>5, RowTends

DraftInv ==
    /\ LedgerInv /\ ActiveIsCurrent /\ Asking
    /\ DraftOwned /\ ReviewOnly /\ DraftsFit
    /\ AutomaticDraftStaysValid /\ ApprovedStaysPublishable

LEMMA DraftInit == Init => DraftInv
<1> SUFFICES ASSUME Init PROVE DraftInv
  OBVIOUS
<1>1. \A i \in Jobs : /\ job[i].status = "absent" /\ job[i].key = None
                      /\ job[i].review = "none" /\ job[i].error = "none"
  BY DEF Init, AbsentJob
<1>2. \A a \in Articles : article[a].job = None
  BY DEF Init
<1>3. \A k \in Key : revision[k].status = "none"
  BY DEF Init
<1>4. ActiveIsCurrent /\ Asking
  BY <1>1, <1>2 DEF ActiveIsCurrent, Active, Asking, AsksFor
<1>5. DraftOwned /\ ReviewOnly /\ DraftsFit
  BY <1>1, <1>3 DEF DraftOwned, ReviewOnly, DraftsFit, DraftFits, HasCandidate
<1>6. AutomaticDraftStaysValid /\ ApprovedStaysPublishable
  BY <1>1 DEF AutomaticDraftStaysValid, ApprovedStaysPublishable
<1> QED BY <1>4, <1>5, <1>6, LedgerInit DEF DraftInv

LEMMA DraftNext == TypeInv /\ DraftInv /\ [Next]_vars => DraftInv'
<1> SUFFICES ASSUME TypeInv, DraftInv, [Next]_vars PROVE DraftInv'
  OBVIOUS
<1>0. /\ LedgerInv /\ ActiveIsCurrent /\ Asking /\ DraftOwned /\ ReviewOnly /\ DraftsFit
      /\ AutomaticDraftStaysValid /\ ApprovedStaysPublishable /\ KeysInv /\ ProfileFits
  BY DEF DraftInv, LedgerInv
<1>1. ResumesSoundly
  BY <1>0, ResumedSoundly
<1>2. TypeInv' /\ LedgerInv' /\ ActiveIsCurrent' /\ Asking'
  BY <1>0, NextType, LedgerNext, NextKind, OneActiveStep, AskingNext
<1>3. DraftOwned' /\ ReviewOnly' /\ DraftsFit' /\ AutomaticDraftStaysValid'
  BY <1>0, <1>1, <1>2, OwnedNext, ReviewOnlyNext, DraftsNext, ValidNext
<1>4. ApprovedStaysPublishable'
  BY <1>0, <1>1, <1>2, ApprovedNext
<1> QED BY <1>2, <1>3, <1>4 DEF DraftInv

LEMMA DraftAlways == Spec => []DraftInv
BY DraftInit, DraftNext, TypeInvariant, PTL DEF Spec

\* The resume of a saved automatic draft finds it valid and still asked for, whatever was
\* requested, reclaimed or lost in between (source_job_persistence.py:209-217).
THEOREM AutomaticDraftsResume == Spec => []AutomaticDraftStaysValid
<1>1. DraftInv => AutomaticDraftStaysValid
  BY DEF DraftInv
<1> QED BY <1>1, DraftAlways, PTL

\* From an approval until its publication or withdrawal the approval covers the saved
\* draft (article_content_review.py:445-458, source_job_persistence.py:172-180).
THEOREM ApprovalsCoverTheirDrafts == Spec => []ApprovedStaysPublishable
<1>1. DraftInv => ApprovedStaysPublishable
  BY DEF DraftInv
<1> QED BY <1>1, DraftAlways, PTL

(***************************************************************************)
(* No job is stranded.  A row that is active says which statement of a     *)
(* claim is for it, and a worker that is about to report a failure worth   *)
(* retrying holds a job that nobody has reviewed.                          *)
(***************************************************************************)
InOrder(row) ==
    /\ row.status = "pending" =>
         row.error = "none" /\ (row.retry = 0 \/ row.review = "approved")
    /\ row.status = "failed" =>
         \/ Waits(row)
         \/ row.retry < MaxAttempts /\ row.review = "none" /\ row.error = "REFUSED"
    /\ row.status = "processing" =>
         /\ row.review # "awaiting_review"
         /\ row.error \notin {"MODEL_NOT_CONFIGURED", "SOURCE_ONLY_REPROJECTION"}

JobsInOrder == \A i \in Jobs : InOrder(job[i])

FailureFits(v) ==
    worker[v].failure \in {"source_retry", "transport"} =>
        /\ worker[v].pc \in {"record", "fail"}
        /\ LeaseHeld(v) => job[worker[v].job].review = "none"

FailuresFit == \A v \in Workers : FailureFits(v)

StrandInv == DraftInv /\ ParkingInv /\ JobsInOrder /\ FailuresFit

LEMMA StillInOrder == ASSUME JobsInOrder, UNCHANGED job PROVE JobsInOrder'
BY DEF JobsInOrder, InOrder, Waits

LEMMA OneInOrder ==
    ASSUME TypeInv, JobsInOrder, NEW j \in Jobs, NEW row, job' = [job EXCEPT ![j] = row],
           InOrder(row)
    PROVE  JobsInOrder'
<1>1. job'[j] = row /\ \A i \in Jobs \ {j} : job'[i] = job[i]
  BY DEF TypeInv, TypeOK
<1>2. \A i \in Jobs : InOrder(job'[i])
  BY <1>1 DEF JobsInOrder
<1> QED BY <1>2 DEF JobsInOrder, InOrder, Waits

\* A row that keeps what InOrder looks at, or that is not active, stays in order.
LEMMA KeptInOrder ==
    ASSUME TypeInv, JobsInOrder, NEW j \in Jobs, NEW row, job' = [job EXCEPT ![j] = row],
           \/ row.status \notin {"pending", "failed", "processing"}
           \/ /\ row.status = job[j].status /\ row.error = job[j].error
              /\ row.retry = job[j].retry /\ row.review = job[j].review
    PROVE  JobsInOrder'
<1>1. InOrder(row)
  BY DEF JobsInOrder, InOrder, Waits
<1> QED BY <1>1, OneInOrder

LEMMA RequestInOrder ==
    ASSUME TypeInv, JobsInOrder, NEW a \in Articles, Request(a) PROVE JobsInOrder'
<1>0. /\ FreshJob(a) \in JobRow /\ FreshJob(a).status = "pending"
      /\ FreshJob(a).error = "none" /\ FreshJob(a).retry = 0
  BY FreshJobType DEF FreshJob, AbsentJob
<1>1. CASE EnsureJob(a)
  <2>1. InOrder(FreshJob(a))
    BY <1>0 DEF InOrder
  <2> QED BY <1>1, <2>1, OneInOrder DEF EnsureJob
<1>2. ASSUME NEW p \in Profiles, RefreshJob(a, p) PROVE JobsInOrder'
  <2> DEFINE row == [FreshJob(a) EXCEPT !.generation = article[a].generation + 1, !.profile = p]
  <2>1. InOrder(row)
    BY <1>0 DEF InOrder, JobRow
  <2>2. \E j \in Jobs : job' = [job EXCEPT ![j] = row]
    BY <1>2 DEF RefreshJob
  <2> HIDE DEF row
  <2> QED BY <2>1, <2>2, OneInOrder
<1>3. CASE Reproject(a)
  <2> DEFINE row == [FreshJob(a) EXCEPT
                       !.generation = article[a].generation + 1,
                       !.status = "needs_review", !.phase = "completed",
                       !.error = "SOURCE_ONLY_REPROJECTION",
                       !.retry = 1, !.token = 1,
                       !.source = [article[a].source EXCEPT !.projection = 2]]
  <2>1. row.status = "needs_review"
    BY <1>0 DEF JobRow
  <2>2. \E j \in Jobs : job' = [job EXCEPT ![j] = row]
    BY <1>3 DEF Reproject
  <2> HIDE DEF row
  <2> QED BY <2>1, <2>2, KeptInOrder
<1> QED BY <1>1, <1>2, <1>3 DEF Request

LEMMA ClaimInOrder ==
    ASSUME TypeInv, JobsInOrder, ParkedCanResume, ReviewOnly, NEW w \in Workers, Claim(w)
    PROVE  JobsInOrder'
<1>0. \A j \in Jobs : job[j] \in JobRow
  BY DEF TypeInv, TypeOK
<1>1. CASE UNCHANGED job
  BY <1>1, StillInOrder
<1>2. ASSUME NEW j \in Jobs, NEW p, job[j].review # "awaiting_review",
             job' = [job EXCEPT ![j] = [ClaimedBy(w, @) EXCEPT !.phase = p, !.error = "none"]]
      PROVE  JobsInOrder'
  <2> DEFINE row == [ClaimedBy(w, job[j]) EXCEPT !.phase = p, !.error = "none"]
  <2>1. job' = [job EXCEPT ![j] = row]
    BY <1>2 DEF TypeInv, TypeOK
  <2>2. InOrder(row)
    BY <1>0, <1>2 DEF InOrder, ClaimedBy, JobRow
  <2> HIDE DEF row
  <2> QED BY <2>1, <2>2, OneInOrder
<1>3. ASSUME NEW j \in Jobs, NEW ready \in BOOLEAN, ClaimAutomatic(w, j, ready) PROVE JobsInOrder'
  <2> DEFINE row == [Released(job[j]) EXCEPT
                       !.status = "dead_letter", !.error = "AUTOMATIC_CANDIDATE_INVALID"]
  <2>1. job[j].review = "none"
    BY <1>3 DEF ClaimAutomatic, AutomaticDraft, ReviewOnly
  <2>2. CASE Current(j) /\ AutomaticValid(j)
    BY <1>2, <1>3, <2>1, <2>2 DEF ClaimAutomatic
  <2>3. CASE ~(Current(j) /\ AutomaticValid(j))
    <3>1. job' = [job EXCEPT ![j] = row]
      BY <1>3, <2>3 DEF ClaimAutomatic, TypeInv, TypeOK
    <3>2. row.status = "dead_letter"
      BY <1>0 DEF Released, JobRow
    <3> HIDE DEF row
    <3> QED BY <3>1, <3>2, KeptInOrder
  <2> QED BY <2>2, <2>3
<1>4. ASSUME NEW j \in Jobs, NEW ready \in BOOLEAN, ClaimReview(w, j, ready) PROVE JobsInOrder'
  <2> DEFINE row == [Released(job[j]) EXCEPT
                       !.status = "needs_review", !.error = "CONTENT_REVIEW_REQUIRED",
                       !.review = "awaiting_review"]
  <2>1. CASE FullyApproved(j)
    BY <1>2, <1>4, <2>1 DEF ClaimReview
  <2>2. CASE ~FullyApproved(j)
    <3>1. job' = [job EXCEPT ![j] = row]
      BY <1>4, <2>2 DEF ClaimReview, TypeInv, TypeOK
    <3>2. row.status = "needs_review"
      BY <1>0 DEF Released, JobRow
    <3> HIDE DEF row
    <3> QED BY <3>1, <3>2, KeptInOrder
  <2> QED BY <2>1, <2>2
<1>5. ASSUME NEW j \in Jobs, ClaimConfiguration(w, j) PROVE JobsInOrder'
  <2>1. job[j].review = "none"
    BY <1>5 DEF ClaimConfiguration, AwaitingModel, ReviewOnly
  <2> QED BY <1>2, <1>5, <2>1 DEF ClaimConfiguration
<1>6. CASE SweepExhausted(w)
  <2> DEFINE j == worker[w].job
             row == [Released(job[j]) EXCEPT !.status = "dead_letter",
                                             !.error = "LEASE_ATTEMPTS_EXHAUSTED"]
  <2>1. j \in Jobs /\ job[j] \in JobRow
    BY <1>6, HeldType DEF SweepExhausted
  <2>2. job' = [job EXCEPT ![j] = row]
    BY <1>6, <2>1 DEF SweepExhausted, TypeInv, TypeOK
  <2>3. row.status = "dead_letter"
    BY <2>1 DEF Released, JobRow
  <2> HIDE DEF row, j
  <2> QED BY <2>1, <2>2, <2>3, KeptInOrder
<1>7. CASE ClaimGeneric(w)
  <2> DEFINE j == worker[w].job
             row == [ClaimedBy(w, job[j]) EXCEPT !.retry = NextAttempt(j), !.phase = NextPhase(j)]
  <2>1. j \in Jobs /\ job[j] \in JobRow
    BY <1>7, HeldType DEF ClaimGeneric
  <2>2. job' = [job EXCEPT ![j] = row] /\ Claimable(j)
    BY <1>7, <2>1 DEF ClaimGeneric, TypeInv, TypeOK
  <2>3. job[j].review = "none"
    BY <2>1, <2>2 DEF Claimable, Excluded, ReviewOnly
  <2>4. job[j].error \notin {"MODEL_NOT_CONFIGURED", "SOURCE_ONLY_REPROJECTION"}
    <3>1. ~Waits(job[j])
      BY <2>1, <2>2 DEF Waits, ParkedCanResume, AwaitingModel, Claimable, Excluded
    <3> QED BY <2>1, <2>2, <3>1 DEF Claimable, Excluded, Expired, JobsInOrder, InOrder
  <2>5. InOrder(row)
    BY <2>1, <2>3, <2>4 DEF InOrder, ClaimedBy, JobRow
  <2> HIDE DEF row, j
  <2> QED BY <2>1, <2>2, <2>5, OneInOrder
<1> QED BY <1>1, <1>3, <1>4, <1>5, <1>6, <1>7 DEF Claim, PassResume, NothingToClaim

LEMMA DraftInOrder ==
    ASSUME TypeInv, JobsInOrder, NEW w \in Workers,
           Normalize(w) \/ Preserve(w) \/ Park(w) \/ Validate(w) \/ Publish(w)
    PROVE  JobsInOrder'
<1> DEFINE j == worker[w].job
           phased(p) == [job[j] EXCEPT !.phase = p]
           normal == [job[j] EXCEPT !.phase = "rewriting", !.normalized = TRUE]
           parked == [Released(job[j]) EXCEPT !.status = "failed",
                                              !.error = "MODEL_NOT_CONFIGURED"]
           published == [Released(job[j]) EXCEPT !.status = "completed", !.phase = "completed",
                                                 !.error = "none"]
           Same(row) == /\ row.status = job[j].status /\ row.error = job[j].error
                        /\ row.retry = job[j].retry /\ row.review = job[j].review
<1>1. j \in Jobs /\ job[j] \in JobRow
  BY HeldType DEF Normalize, Preserve, Park, Validate, Publish
<1>2. CASE UNCHANGED job
  BY <1>2, StillInOrder
<1>3. ASSUME NEW row, job' = [job EXCEPT ![j] = row], Same(row) \/ row.status = "completed"
      PROVE  JobsInOrder'
  <2> HIDE DEF j
  <2> QED BY <1>1, <1>3, KeptInOrder
<1>4. Same(normal) /\ published.status = "completed" /\ \A p : Same(phased(p))
  BY <1>1 DEF Released, JobRow
<1>5. CASE job' = [job EXCEPT ![j] = parked]
  <2>1. InOrder(parked)
    BY <1>1 DEF InOrder, Waits, Released, JobRow
  <2> HIDE DEF parked, j
  <2> QED BY <1>1, <1>5, <2>1, OneInOrder
<1>6. CASE Normalize(w) \/ Park(w) \/ Publish(w)
  <2>1. \/ job' = [job EXCEPT ![j] = normal]
        \/ job' = [job EXCEPT ![j] = parked]
        \/ job' = [job EXCEPT ![j] = published]
        \/ UNCHANGED job
    BY <1>1, <1>6 DEF Normalize, Park, Publish, TypeInv, TypeOK
  <2> HIDE DEF normal, published, Same
  <2> QED BY <1>2, <1>3, <1>4, <1>5, <2>1
<1>7. CASE Preserve(w) \/ Validate(w)
  <2>1. \/ job' = [job EXCEPT ![j] = phased("validating")]
        \/ job' = [job EXCEPT ![j] = phased("publishing")]
        \/ UNCHANGED job
    BY <1>1, <1>7 DEF Preserve, Validate, TypeInv, TypeOK
  <2> HIDE DEF phased, Same
  <2> QED BY <1>2, <1>3, <1>4, <2>1
<1> QED BY <1>6, <1>7

\* A retried job reports a refusal, and no review of it is on its row.
LEMMA FailInOrder ==
    ASSUME TypeInv, JobsInOrder, FailuresFit, NEW w \in Workers, Fail(w)
    PROVE  JobsInOrder'
<1> DEFINE j == worker[w].job
           failed(s, e) == [Released(job[j]) EXCEPT !.status = s, !.error = e]
<1>1. j \in Jobs /\ job[j] \in JobRow
  BY HeldType DEF Fail
<1>2. CASE UNCHANGED job
  BY <1>2, StillInOrder
<1>3. ASSUME NEW s \in {"dead_letter", "needs_review"}, NEW e, job' = [job EXCEPT ![j] = failed(s, e)]
      PROVE  JobsInOrder'
  <2> DEFINE row == failed(s, e)
  <2>1. row.status = s
    BY <1>1 DEF Released, JobRow
  <2> HIDE DEF row, j
  <2> QED BY <1>1, <1>3, <2>1, KeptInOrder DEF row
<1>4. ASSUME worker[w].failure \in {"source_retry", "transport"}, LeaseHeld(w),
             job[j].retry < MaxAttempts, job' = [job EXCEPT ![j] = failed("failed", "REFUSED")]
      PROVE  JobsInOrder'
  <2> DEFINE row == failed("failed", "REFUSED")
  <2>1. job[j].review = "none"
    BY <1>4 DEF FailuresFit, FailureFits
  <2>2. InOrder(row)
    BY <1>1, <1>4, <2>1 DEF InOrder, Released, JobRow
  <2> HIDE DEF row, j
  <2> QED BY <1>1, <1>4, <2>2, OneInOrder DEF row
<1>5. \/ UNCHANGED job
      \/ \E s \in {"dead_letter", "needs_review"}, e \in {job[j].rewriteError, "REFUSED"} :
           job' = [job EXCEPT ![j] = failed(s, e)]
      \/ /\ worker[w].failure \in {"source_retry", "transport"} /\ LeaseHeld(w)
         /\ job[j].retry < MaxAttempts /\ job' = [job EXCEPT ![j] = failed("failed", "REFUSED")]
  <2> DEFINE retryable == worker[w].failure \in {"source_retry", "transport"}
             error == IF worker[w].failure = "rewrite" THEN job[j].rewriteError ELSE "REFUSED"
  <2>1. retryable => error = "REFUSED"
    OBVIOUS
  <2> QED BY <1>1, <2>1 DEF Fail, TypeInv, TypeOK
<1> HIDE DEF failed
<1> QED BY <1>2, <1>3, <1>4, <1>5

LEMMA CommitInOrder ==
    ASSUME TypeInv, JobsInOrder, NEW w \in Workers, CommitSource(w) PROVE JobsInOrder'
<1> DEFINE j == worker[w].job
           a == job[j].article
           s == worker[w].fetched
           k == KeyOf(j, s)
           taken == [job[j] EXCEPT !.source = s, !.key = k, !.phase = "normalizing"]
           done == [Released(job[j]) EXCEPT !.source = s, !.status = "completed",
                                            !.phase = "completed"]
<1>1. j \in Jobs /\ job[j] \in JobRow
  BY HeldType DEF CommitSource
<1>2. /\ taken.status = job[j].status /\ taken.error = job[j].error
      /\ taken.retry = job[j].retry /\ taken.review = job[j].review
      /\ done.status = "completed"
  BY <1>1 DEF Released, JobRow
<1>3. CASE UNCHANGED job
  BY <1>3, StillInOrder
<1>4. CASE TakeKey(w, j, a, s, k)
  <2>1. job' = [job EXCEPT ![j] = taken]
    BY <1>1, <1>4 DEF TakeKey, TypeInv, TypeOK
  <2> HIDE DEF taken
  <2> QED BY <1>1, <1>2, <2>1, KeptInOrder
<1>5. ASSUME NEW o \in OwnerOf(k) \ {j}, Reuse(w, j, a, s, k, o) PROVE JobsInOrder'
  <2> DEFINE inspected == [job EXCEPT ![j] = done]
             moved == [job[o] EXCEPT !.generation = AdoptedGeneration(j),
                                     !.review = "awaiting_review"]
             adopted == TerminalOwner(o, k) /\ Adopts(o, k)
  <2>1. o \in Jobs /\ o # j /\ job[o] \in JobRow
    BY <1>5 DEF OwnerOf, TypeInv, TypeOK
  <2>2. adopted => moved.status = "needs_review"
    BY <2>1 DEF Adopts, JobRow
  <2>3. job' = IF adopted THEN [inspected EXCEPT ![o] = moved] ELSE inspected
    BY <1>1, <1>5, <2>1 DEF Reuse, TypeInv, TypeOK
  <2> HIDE DEF done, moved, adopted, k, s, a, j
  <2>4. /\ job'[j] = done
        /\ job'[o] = IF adopted THEN moved ELSE job[o]
        /\ \A i \in Jobs \ {j, o} : job'[i] = job[i]
    BY <1>1, <2>1, <2>3 DEF TypeInv, TypeOK
  <2>5. \A i \in Jobs : InOrder(job'[i])
    BY <1>2, <2>2, <2>4 DEF JobsInOrder, InOrder, Waits
  <2> QED BY <2>5 DEF JobsInOrder, InOrder, Waits
<1> QED BY <1>3, <1>4, <1>5 DEF CommitSource

LEMMA ResultInOrder ==
    ASSUME TypeInv, JobsInOrder, NEW w \in Workers, Result(w) PROVE JobsInOrder'
<1> DEFINE j == worker[w].job
           saved == [job[j] EXCEPT !.phase = "validating", !.rewriteError = ErrorOf(worker[w].answer)]
           row == IF job[j].profile = "review" /\ ErrorOf(worker[w].answer) = "none"
                  THEN AwaitReview(saved) ELSE saved
<1>1. j \in Jobs /\ job[j] \in JobRow
  BY HeldType DEF Result
<1>2. \/ row.status = "needs_review"
      \/ /\ row.status = job[j].status /\ row.error = job[j].error
         /\ row.retry = job[j].retry /\ row.review = job[j].review
  <2>1. AwaitReview(saved).status = "needs_review"
    BY <1>1 DEF AwaitReview, Released, JobRow
  <2>2. /\ saved.status = job[j].status /\ saved.error = job[j].error
        /\ saved.retry = job[j].retry /\ saved.review = job[j].review
    BY <1>1 DEF JobRow
  <2> QED BY <2>1, <2>2
<1>3. UNCHANGED job \/ job' = [job EXCEPT ![j] = row]
  BY <1>1 DEF Result, StoreResult, TypeInv, TypeOK
<1> HIDE DEF row, j
<1> QED BY <1>1, <1>2, <1>3, KeptInOrder, StillInOrder

LEMMA ClockInOrder ==
    ASSUME TypeInv, JobsInOrder, NEW j \in Jobs, NEW n, job' = [job EXCEPT ![j] = [@ EXCEPT !.lease = n]]
    PROVE  JobsInOrder'
<1> DEFINE row == [job[j] EXCEPT !.lease = n]
<1>1. job[j] \in JobRow /\ job' = [job EXCEPT ![j] = row]
  BY DEF TypeInv, TypeOK
<1>2. /\ row.status = job[j].status /\ row.error = job[j].error
      /\ row.retry = job[j].retry /\ row.review = job[j].review
  BY <1>1 DEF JobRow
<1> HIDE DEF row
<1> QED BY <1>1, <1>2, KeptInOrder

LEMMA DecideInOrder ==
    ASSUME TypeInv, JobsInOrder, NEW r \in Reviewers, NEW j \in Jobs, Decide(r, j)
    PROVE  JobsInOrder'
<1> DEFINE approved == [job[j] EXCEPT !.status = "pending", !.phase = "publishing",
                                      !.error = "none", !.review = "approved"]
           again == WaitAgain(job[j])
           corrected == [WaitAgain(job[j]) EXCEPT !.rewriteError = "none"]
<1>1. job[j] \in JobRow
  BY DEF TypeInv, TypeOK
<1>2. InOrder(approved)
  BY <1>1 DEF InOrder, JobRow
<1>3. again.status = "needs_review" /\ corrected.status = "needs_review"
  BY <1>1 DEF WaitAgain, Released, JobRow
<1>4. \/ UNCHANGED job
      \/ job' = [job EXCEPT ![j] = approved]
      \/ job' = [job EXCEPT ![j] = again]
      \/ job' = [job EXCEPT ![j] = corrected]
  BY DEF Decide, Export, Approve, Reject, Correct, CorrectFailed, TypeInv, TypeOK
<1> HIDE DEF approved, again, corrected
<1> QED BY <1>2, <1>3, <1>4, StillInOrder, OneInOrder, KeptInOrder

LEMMA InOrderNext ==
    ASSUME TypeInv, JobsInOrder, FailuresFit, ParkedCanResume, ReviewOnly, [Next]_vars
    PROVE  JobsInOrder'
<1>1. ASSUME NEW w \in Workers, Run(w) PROVE JobsInOrder'
  <2>1. CASE Normalize(w) \/ Preserve(w) \/ Park(w) \/ Validate(w) \/ Publish(w)
    BY <2>1, DraftInOrder
  <2>2. CASE CommitSource(w) \/ Result(w) \/ Fail(w)
    BY <2>2, CommitInOrder, ResultInOrder, FailInOrder
  <2>3. CASE \/ Begin(w) \/ Capture(w) \/ Load(w) \/ Prepare(w) \/ Dispatch(w)
             \/ Model(w) \/ Reload(w) \/ Record(w)
    BY <2>3, StillInOrder
    DEF Begin, Capture, Load, Prepare, Dispatch, Model, Reload, Record, RowsKept
  <2> QED BY <1>1, <2>1, <2>2, <2>3 DEF Run
<1>2. ASSUME NEW w \in Workers, Heartbeat(w) \/ Crash(w) PROVE JobsInOrder'
  <2>1. CASE Heartbeat(w)
    <3>1. worker[w].job \in Jobs
      BY <2>1, HeldType DEF Heartbeat
    <3> QED BY <2>1, <3>1, ClockInOrder DEF Heartbeat
  <2>2. CASE Crash(w)
    BY <2>2, StillInOrder DEF Crash, GiveUp, RowsKept
  <2> QED BY <1>2, <2>1, <2>2
<1>3. ASSUME NEW j \in Jobs, LeaseTick(j) PROVE JobsInOrder'
  BY <1>3, ClockInOrder DEF LeaseTick
<1>4. CASE UNCHANGED vars
  BY <1>4, StillInOrder DEF vars
<1> QED BY <1>1, <1>2, <1>3, <1>4, RequestInOrder, ClaimInOrder, DecideInOrder DEF Next

(***************************************************************************)
(* Failures worth retrying.  Only the request to the source and the call   *)
(* of the model report one, and neither is made for a job under review.    *)
(***************************************************************************)
Retryable == {"source_retry", "transport"}

LEMMA Unreviewed ==
    ASSUME TypeInv, LedgerInv, NEW i \in Jobs, job[i].source = None \/ ~HasCandidate(i)
    PROVE  job[i].review = "none"
<1>1. job[i].review # "none" => HasCandidate(i)
  BY DEF LedgerInv, RowInv
<1>2. HasCandidate(i) => job[i].key \in Key /\ job[i].key.source = job[i].source
  BY DEF HasCandidate, LedgerInv, KeysInv, KeyFits, TypeInv, TypeOK, JobRow
<1>3. HasCandidate(i) => job[i].source # None
  BY <1>2, NoneAssumption DEF Key
<1> QED BY <1>1, <1>3

\* What a worker reports after a step of its own.
LEMMA ActorFailure ==
    ASSUME TypeInv, LedgerInv, FailuresFit, NEW v \in Workers, Run(v)
    PROVE  FailureFits(v)'
<1> DEFINE i == worker[v].job
           Harmless == worker'[v].failure \notin Retryable
<1>0. /\ worker[v] \in WorkerRow /\ worker \in [Workers -> WorkerRow]
      /\ FailureFits(v)
  BY DEF TypeInv, TypeOK, FailuresFit
<1>1. ASSUME Harmless PROVE FailureFits(v)'
  BY <1>1 DEF FailureFits, Retryable
<1>2. CASE Leave(v)
  <2>1. worker'[v].failure = "none"
    BY <1>0, <1>2 DEF Leave, IdleWorker
  <2> QED BY <1>1, <2>1 DEF Retryable
<1>3. CASE \E pc : Goto(v, pc) /\ worker[v].pc \notin {"record", "fail"}
  <2>1. worker'[v].failure = worker[v].failure
    BY <1>0, <1>3 DEF Goto, WorkerRow
  <2>2. worker[v].failure \notin Retryable
    BY <1>0, <1>3 DEF FailureFits, Retryable
  <2> QED BY <1>1, <2>1, <2>2
<1>4. CASE \E pc, f : FailWith(v, pc, f) /\ f \notin Retryable
  <2>1. PICK pc, f : FailWith(v, pc, f) /\ f \notin Retryable
    BY <1>4
  <2>2. worker'[v].failure = f
    BY <1>0, <2>1 DEF FailWith, WorkerRow
  <2> QED BY <1>1, <2>1, <2>2
<1>5. ASSUME NEW pc \in {"record", "fail"}, NEW f, FailWith(v, pc, f), UNCHANGED job,
             LeaseHeld(v), job[i].review = "none"
      PROVE  FailureFits(v)'
  <2>1. worker'[v].pc = pc /\ worker'[v].job = i
    BY <1>5, FailWithMoves
  <2> QED BY <1>5, <2>1 DEF FailureFits
<1>6. i \in Jobs
  <2>1. worker[v].pc # "idle"
    BY DEF Run, Begin, Capture, CommitSource, Load, Normalize, Preserve, Park, Prepare, Dispatch,
           Model, Result, Reload, Validate, Publish, Record, Fail
  <2> QED BY <2>1, HeldType
<1>7. CASE Capture(v)
  <2>1. CASE ~(LeaseHeld(v) /\ SameGeneration(i))
    BY <1>2, <1>7, <2>1 DEF Capture
  <2>2. CASE LeaseHeld(v)
    <3>1. job[i].source = None
      BY <1>7, <2>2 DEF Capture, LedgerInv, KeysInv, Unfetched
    <3>2. job[i].review = "none" /\ UNCHANGED job
      BY <1>6, <1>7, <3>1, Unreviewed DEF Capture, RowsKept
    <3>3. CASE \E s \in Source :
                 worker' = [worker EXCEPT ![v] = [@ EXCEPT !.pc = "commit", !.fetched = s]]
      <4>1. worker'[v].failure = worker[v].failure
        BY <1>0, <3>3 DEF WorkerRow
      <4>2. worker[v].failure \notin Retryable
        BY <1>0, <1>7 DEF FailureFits, Capture, Retryable
      <4> QED BY <1>1, <4>1, <4>2
    <3>4. \/ Leave(v)
          \/ \E s \in Source :
               worker' = [worker EXCEPT ![v] = [@ EXCEPT !.pc = "commit", !.fetched = s]]
          \/ \E pc \in {"record", "fail"} : \E f : FailWith(v, pc, f)
      BY <1>7 DEF Capture
    <3> QED BY <1>2, <1>5, <2>2, <3>2, <3>3, <3>4
  <2> QED BY <2>1, <2>2
<1>8. CASE Model(v)
  <2>1. CASE \E x \in {"sound", "mutation", "invalid"} :
               worker' = [worker EXCEPT ![v] = [@ EXCEPT !.pc = "result", !.answer = x]]
    <3>1. worker'[v].failure = worker[v].failure
      BY <1>0, <2>1 DEF WorkerRow
    <3>2. worker[v].failure \notin Retryable
      BY <1>0, <1>8 DEF FailureFits, Model, Retryable
    <3> QED BY <1>1, <3>1, <3>2
  <2>2. CASE LeaseHeld(v) /\ \E f : FailWith(v, "record", f)
    <3>1. ~HasCandidate(i)
      BY <1>6, <1>8, <2>2 DEF Model, LedgerInv, PcFits, Informed, Unwritten
    <3>2. job[i].review = "none" /\ UNCHANGED job
      BY <1>6, <1>8, <3>1, Unreviewed DEF Model, RowsKept
    <3> QED BY <1>5, <2>2, <3>2
  <2>3. CASE ~LeaseHeld(v) /\ \E f : FailWith(v, "record", f)
    <3>1. PICK f : FailWith(v, "record", f)
      BY <2>3
    <3>2. worker'[v].pc = "record" /\ worker'[v].job = i /\ worker'[v].token = worker[v].token
      BY <1>0, <3>1 DEF FailWith, WorkerRow
    <3>3. ~LeaseHeld(v)'
      BY <1>8, <2>3, <3>2 DEF LeaseHeld, Model, RowsKept
    <3> QED BY <3>2, <3>3 DEF FailureFits
  <2> QED BY <1>8, <2>1, <2>2, <2>3 DEF Model
<1>9. CASE Record(v)
  <2>1. CASE Leave(v)
    BY <1>2, <2>1
  <2>2. CASE Goto(v, "fail")
    <3>1. /\ worker'[v].failure = worker[v].failure /\ worker'[v].pc = "fail"
          /\ worker'[v].job = i /\ worker'[v].token = worker[v].token
      BY <1>0, <2>2 DEF Goto, WorkerRow
    <3>2. UNCHANGED job
      BY <1>9 DEF Record
    <3> QED BY <1>0, <3>1, <3>2 DEF FailureFits, LeaseHeld
  <2> QED BY <1>9, <2>1, <2>2 DEF Record
<1>10. CASE \/ Begin(v) \/ CommitSource(v) \/ Load(v) \/ Normalize(v) \/ Preserve(v) \/ Park(v)
            \/ Prepare(v) \/ Dispatch(v) \/ Result(v) \/ Reload(v) \/ Validate(v) \/ Publish(v)
            \/ Fail(v)
  <2>1. \/ Leave(v)
        \/ \E pc \in Pc : Goto(v, pc)
        \/ \E pc \in {"record", "fail"}, f \in {"refused", "rewrite"} : FailWith(v, pc, f)
    BY <1>10 DEF Pc, Begin, CommitSource, TakeKey, Reuse, Load, Normalize, Preserve, Park, Prepare,
         Dispatch, Result, StoreResult, Reload, Validate, Publish, Fail
  <2>2. worker[v].pc \notin {"record", "fail"} \/ Fail(v)
    BY <1>10 DEF Begin, CommitSource, Load, Normalize, Preserve, Park, Prepare, Dispatch, Result,
         Reload, Validate, Publish
  <2>3. Fail(v) => Leave(v)
    BY DEF Fail
  <2> QED BY <1>2, <1>3, <1>4, <2>1, <2>2, <2>3 DEF Retryable
<1> QED BY <1>7, <1>8, <1>9, <1>10 DEF Run

LEMMA OthersFailure ==
    ASSUME TypeInv, DraftInv, FailuresFit, JobsInOrder', TypeInv', [Next]_vars,
           NEW v \in Workers, ~Run(v), worker'[v] = worker[v]
    PROVE  FailureFits(v)'
<1> DEFINE i == worker[v].job
<1> SUFFICES ASSUME worker[v].failure \in Retryable, LeaseHeld(v)', job'[i].review # "none"
             PROVE  FALSE
  BY DEF FailureFits, FailuresFit, Retryable
<1>1. worker[v].pc \in {"record", "fail"} /\ i \in Jobs
  BY HeldType DEF FailuresFit, FailureFits, Retryable
<1>2. LeaseHeld(v) /\ job[i].review = "none"
  BY <1>1, LeaseKept DEF FailuresFit, FailureFits, Retryable
<1>3. Approved(job'[i])
  <2>1. job'[i].status = "processing" /\ job'[i] \in JobRow
    BY <1>1 DEF LeaseHeld, TypeInv, TypeOK
  <2>2. InOrder(job[i])'
    BY <1>1 DEF JobsInOrder
  <2> QED BY <2>1, <2>2 DEF InOrder, Approved, JobRow
<1>4. job[i].status = "processing" /\ job[i].owner = v
  BY <1>2 DEF LeaseHeld
<1>5. ~Tends(job[i], job'[i]) /\ ~Starts(job[i], job'[i])
  BY <1>2, <1>3, <1>4 DEF Tends, Starts, Approved
<1>6. ASSUME NEW w \in Workers, Delivers(w), worker[w].job = i PROVE FALSE
  <2>1. w = v
    BY <1>4, <1>6 DEF Delivers, TransformHeld, LeaseHeld
  <2> QED BY <1>6, <2>1 DEF Delivers, Run
<1>7. ASSUME NEW r \in Reviewers, Approve(r, i) \/ CorrectFailed(r, i) PROVE FALSE
  BY <1>4, <1>7 DEF Approve, CorrectFailed, Waiting, FailedDraft
<1>8. ResumesSoundly /\ ReviewOnly
  BY ResumedSoundly DEF DraftInv, LedgerInv
<1> QED BY <1>1, <1>5, <1>6, <1>7, <1>8, RowTends

LEMMA FailuresNext ==
    ASSUME TypeInv, DraftInv, FailuresFit, JobsInOrder', TypeInv', [Next]_vars
    PROVE  FailuresFit'
<1> SUFFICES ASSUME NEW v \in Workers PROVE FailureFits(v)'
  BY DEF FailuresFit
<1>1. CASE Run(v)
  BY <1>1, ActorFailure DEF DraftInv
<1>2. CASE ~Run(v) /\ worker'[v] = worker[v]
  BY <1>2, OthersFailure
<1>3. ASSUME worker'[v].failure = "none" PROVE FailureFits(v)'
  BY <1>3 DEF FailureFits
<1>4. CASE \/ Leave(v)
           \/ \E j, ready : Poll(v, j, ready)
           \/ \E j, ready : worker' = [worker EXCEPT ![v] = [IdleWorker EXCEPT
                                !.pc = "sweep", !.job = j, !.ready = ready]]
  <2>0. worker \in [Workers -> WorkerRow]
    BY DEF TypeInv, TypeOK
  <2>1. CASE Leave(v)
    BY <1>3, <2>0, <2>1 DEF Leave, IdleWorker
  <2>2. CASE \E j, ready : Poll(v, j, ready)
    BY <1>3, <2>0, <2>2 DEF Poll, IdleWorker
  <2>3. CASE \E j, ready : worker' = [worker EXCEPT ![v] = [IdleWorker EXCEPT
                               !.pc = "sweep", !.job = j, !.ready = ready]]
    BY <1>3, <2>0, <2>3 DEF IdleWorker
  <2> QED BY <1>4, <2>1, <2>2, <2>3
<1>5. CASE Claim(v)
  BY <1>2, <1>4, <1>5, <1>1
     DEF Claim, ClaimAutomatic, ClaimReview, ClaimConfiguration, PassResume, SweepExhausted,
         ClaimGeneric, NothingToClaim
<1>6. CASE Crash(v)
  BY <1>4, <1>6 DEF Crash, GiveUp
<1>7. Run(v) \/ Claim(v) \/ Crash(v) \/ worker'[v] = worker[v]
  <2>1. ASSUME NEW w \in Workers, Claim(w) \/ Run(w) \/ Crash(w) PROVE Alone(w)
    BY <2>1, ClaimAlone, RunAlone, StaysAlone DEF Crash, GiveUp
  <2>2. ASSUME NEW w \in Workers, CommitSource(w) PROVE Run(w)
    BY <2>2 DEF Run
  <2> QED BY <2>1, <2>2, NextKeeps DEF Alone
<1> QED BY <1>1, <1>2, <1>5, <1>6, <1>7

LEMMA StrandInit == Init => StrandInv
<1> SUFFICES ASSUME Init PROVE JobsInOrder /\ FailuresFit
  BY DraftInit, ParkingInit DEF StrandInv
<1>1. JobsInOrder
  BY DEF Init, AbsentJob, JobsInOrder, InOrder
<1>2. FailuresFit
  BY DEF Init, IdleWorker, FailuresFit, FailureFits
<1> QED BY <1>1, <1>2

LEMMA StrandNext == StrandInv /\ [Next]_vars => StrandInv'
<1> SUFFICES ASSUME StrandInv, [Next]_vars PROVE StrandInv'
  OBVIOUS
<1>1. TypeInv /\ DraftInv /\ ParkingInv /\ JobsInOrder /\ FailuresFit
  BY DEF StrandInv, ParkingInv
<1>2. DraftInv' /\ ParkingInv' /\ TypeInv'
  BY <1>1, DraftNext, ParkingNext DEF ParkingInv
<1>3. JobsInOrder'
  BY <1>1, InOrderNext DEF DraftInv, ParkingInv
<1> QED BY <1>1, <1>2, <1>3, FailuresNext DEF StrandInv

LEMMA NotStranded ==
    ASSUME StrandInv, NEW j \in Jobs, Active(j), ~(job[j].status = "processing" /\ job[j].lease > 0)
    PROVE  Recoverable(j)
<1>1. job[j] \in JobRow /\ InOrder(job[j]) /\ LedgerInv /\ ReviewOnly /\ ParkedCanResume
  BY DEF StrandInv, JobsInOrder, ParkingInv, DraftInv, TypeInv, TypeOK
<1>2. MaxAttempts \in Nat \ {0} /\ job[j].retry \in Nat
  BY <1>1, ConstantsAssumption DEF JobRow
<1>3. CASE job[j].review = "approved" /\ Resumable(j)
  BY <1>1, <1>3 DEF ReviewOnly, Recoverable
<1>4. CASE Waits(job[j])
  BY <1>1, <1>4 DEF Waits, ParkedCanResume, Recoverable
<1>5. CASE job[j].status = "failed" /\ ~Waits(job[j])
  BY <1>1, <1>2, <1>5 DEF InOrder, Claimable, Excluded, Recoverable
<1>6. CASE job[j].status = "pending" /\ job[j].review # "approved"
  <2>1. job[j].retry = 0 /\ job[j].error = "none"
    BY <1>1, <1>6 DEF InOrder
  <2>2. job[j].review = "none"
    BY <1>1, <2>1 DEF LedgerInv, RowInv, HasCandidate
  <2> QED BY <1>2, <1>6, <2>1, <2>2 DEF Claimable, Excluded, Recoverable
<1>7. CASE job[j].status = "processing" /\ job[j].review # "approved"
  <2>1. Expired(j)
    BY <1>1, <1>7 DEF Expired, JobRow
  <2>2. ~Excluded(j)
    BY <1>1, <1>7 DEF InOrder, Excluded, JobRow
  <2> QED BY <1>2, <2>1, <2>2 DEF Claimable, Exhausted, Recoverable
<1>8. job[j].status \in {"pending", "processing"} /\ job[j].review = "approved" => Resumable(j)
  BY <1>1 DEF Resumable, Expired, JobRow
<1> QED BY <1>3, <1>4, <1>5, <1>6, <1>7, <1>8 DEF Active

\* The statements of a claim leave no gap between them: no job is left active that none of
\* them takes (source_job_persistence.py:162-265, 425-462).
THEOREM NothingIsStranded == Spec => []NoJobStranded
<1>1. StrandInv => NoJobStranded
  BY NotStranded DEF NoJobStranded
<1> QED BY <1>1, StrandInit, StrandNext, PTL DEF Spec
=============================================================================
