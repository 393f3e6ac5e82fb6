--------------------------- MODULE NewArticleRollout ---------------------------
(***************************************************************************)
(* The finite or continuous admission of new articles to the automatic     *)
(* rewriter.  A ledger file says whether the rollout is enabled and which  *)
(* jobs it has spent its quota on; a job row says what it may cost.  Both  *)
(* are durable and neither is in the other's transaction: the worker       *)
(* writes the reservation first, commits the cap of one attempt second,    *)
(* and runs the job last, and may die in between.  Operators switch the    *)
(* ledger meanwhile, and other workers claim, resume and park the same     *)
(* rows: an attempt that one of them began may be continued by another.    *)
(*                                                                         *)
(* worker.lock lets one such process live, so there is one worker here.    *)
(* The jobs it admits are of the automatic profile, and so are all here.   *)
(***************************************************************************)
EXTENDS Integers, FiniteSets

CONSTANTS
    Jobs,           \* article jobs that may come to exist
    MaxJobs,        \* the quota of a window ("max_jobs")
    Window,         \* its length (24 hours)
    Capacity,       \* CONTINUOUS_MAX_RESERVATIONS
    MaxAttempts,    \* the attempts of a job nobody capped
    MaxClock,       \* bound of the database clock
    None

ASSUME RolloutAssumption ==
    /\ MaxJobs \in Nat \ {0} /\ Window \in Nat \ {0} /\ Capacity \in Nat \ {0}
    /\ MaxAttempts \in Nat \ {0} /\ MaxClock \in Nat
    /\ None \notin Jobs \cup {"rollout", "model", "bare"}

VARIABLES
    clock,      \* the database clock
    ledger,     \* rollout.json; NoLedger before --initialize
    row,        \* source_fetch_jobs with the article each row belongs to
    worker      \* the process between its reads, locks and commits

vars == <<clock, ledger, row, worker>>

Reservation == [job : Jobs, at : Int]

\* Schema 1 is the finite rollout and 2 the continuous one.
Ledger == [schema : 0 .. 2, enabled : BOOLEAN, cutoff : Int, spent : SUBSET Reservation]
NoLedger == [schema |-> 0, enabled |-> FALSE, cutoff |-> 0, spent |-> {}]
Initialized == ledger.schema # 0

\* A pending job is "withdrawn" while its article is not offered, "expired" once its lease
\* ran out, and "parked" while it waits for the model (error_code MODEL_NOT_CONFIGURED).
States == {"absent", "pending", "withdrawn", "processing", "expired", "retryable", "parked",
           "ended"}

\* The rollout's worker and workers that have the model, or have not.
Holders == {"rollout", "model", "bare"}

\* How far the job has come; a "plain" source has no prose to rewrite, a "saved" draft is
\* sound and a "spoiled" one is not.
Stages == {"new", "fetching", "captured", "plain", "asking", "saved", "spoiled"}

Row == [state : States,
        created : Int,              \* of the job
        described : Int,            \* of its article
        retry : Nat, max : Nat,     \* retry_count, max_attempts
        capped : BOOLEAN,           \* the checkpoint is the rollout's marker
        holder : Holders \cup {None},  \* of the lease
        stage : Stages,
        fetched : Nat,              \* requests for the source
        asked : Nat]                \* rewrite attempts on record, one for each call of the model

\* What the process does next; from "locked" to "reserved" it holds the row's lock.
Process == [at : {"down", "polling", "reading", "admitting", "chosen", "locked", "reserved",
                  "capped", "permitted", "running"},
            job : Jobs \cup {None},
            seen : Ledger,                  \* the snapshot of the ledger
            now : Int,                      \* the clock when it was read for the reservation
            stop : BOOLEAN]                 \* SIGTERM arrived

Down == [at |-> "down", job |-> None, seen |-> NoLedger, now |-> 0, stop |-> FALSE]

TypeOK ==
    /\ clock \in Nat
    /\ ledger \in Ledger
    /\ row \in [Jobs -> Row]
    /\ worker \in Process
    /\ worker.at \in {"admitting", "chosen", "locked"} <=> worker.seen.schema # 0
    /\ worker.at \in {"chosen", "locked", "reserved", "capped", "permitted", "running"}
            <=> worker.job # None

Init ==
    /\ clock = 0
    /\ ledger = NoLedger
    /\ row = [j \in Jobs |-> [state |-> "absent", created |-> 0, described |-> 0,
                              retry |-> 0, max |-> MaxAttempts, capped |-> FALSE,
                              holder |-> None, stage |-> "new", fetched |-> 0, asked |-> 0]]
    /\ worker = Down

(***************************************************************************)
(* The ledger.                                                             *)
(***************************************************************************)
SpentJobs(l) == {r.job : r \in l.spent}

\* Variant: an earlier reservation of the same moment is overlooked.
RecentBefore(l, now) == {r \in l.spent : now - Window < r.at /\ r.at < now}

\* The reservations that count towards the quota at a moment.
Recent(l, now) == {r \in l.spent : now - Window < r.at /\ r.at <= now}

\* A continuous ledger that is full, or ahead of the clock, stops the process.
Blocked(l, now) ==
    /\ l.schema = 2
    /\ \/ now < l.cutoff \/ \E r \in l.spent : now < r.at
       \/ Cardinality(l.spent) >= Capacity

Open(l, now) ==
    /\ l.enabled
    /\ IF l.schema = 2
       THEN Cardinality(Recent(l, now)) < MaxJobs
       ELSE l.cutoff <= now /\ now < l.cutoff + Window /\ Cardinality(l.spent) < MaxJobs

\* Whether the main loop goes on; a full window only makes it wait.
Running(l, now) == IF l.schema = 2 THEN l.enabled ELSE Open(l, now)

\* --initialize takes worker.lock, so no worker is alive; a ledger is never replaced.
Initialize(schema) ==
    /\ worker.at = "down"
    /\ ~Initialized
    /\ ledger' = [schema |-> schema, enabled |-> FALSE, cutoff |-> clock, spent |-> {}]
    /\ UNCHANGED <<clock, row, worker>>

SetEnabled(enabled) ==
    /\ Initialized
    /\ ledger' = [ledger EXCEPT !.enabled = enabled]
    /\ UNCHANGED <<clock, row, worker>>

(***************************************************************************)
(* claim_source_job, of one row, and what ends a lease (ArticleClaims and  *)
(* ArticleWorker have the whole of it).  An active job is the one its      *)
(* article asks for (ActiveIsCurrent), so the resumes do not ask again.    *)
(* Each statement of a claim reads the clock anew: a lease that runs out   *)
(* between two of them is met by the later one only.                       *)
(***************************************************************************)
Held(r, h) == [r EXCEPT !.state = "processing", !.holder = h]

\* Variant: whoever lost the lease, its attempt is resumed.
ResumesAnyDraft(r) == r.state \in {"pending", "withdrawn", "expired"}

\* _claim_automatic_resume: a saved draft needs its publication, and no attempt.  (That it
\* finds the draft valid is AutomaticDraftStaysValid of ArticleLifecycle.)
ResumesDraft(r) == r.stage = "saved" /\ r.state \in {"pending", "withdrawn", "expired"}

\* _claim_model_configuration_resume: a parked job asked nobody, and goes on as it was.
ResumesParked(r, h) == h # "bare" /\ r.state = "parked" /\ r.asked = 0

\* The general claim: it alone counts an attempt, and it alone looks at the limit.
Claimable(r) ==
    /\ r.retry < r.max
    /\ r.state \in {"pending", "withdrawn", "retryable", "expired"}

Claimed(r, h) == [Held(r, h) EXCEPT !.retry = @ + 1]

Takes(j, h) ==
    \/ /\ ResumesDraft(row[j]) \/ ResumesParked(row[j], h)
       /\ row' = [row EXCEPT ![j] = Held(@, h)]
    \/ Claimable(row[j]) /\ row' = [row EXCEPT ![j] = Claimed(@, h)]

\* What was committed outlives the lease; what was asked for and not stored does not.
Kept(stage) ==
    CASE stage = "fetching" -> "new" [] stage = "asking" -> "captured" [] OTHER -> stage

Released(r, state) == [r EXCEPT !.state = state, !.holder = None, !.stage = Kept(@)]

\* The sweep of a job whose last attempt lost its lease.
Sweeps(j) ==
    /\ row[j].state = "expired" /\ row[j].retry >= row[j].max
    /\ row' = [row EXCEPT ![j] = Released(@, "ended")]

\* publish_article_revision and fail_source_job.
Ends(j) ==
    /\ row[j].state = "processing"
    /\ \E state \in {"retryable", "ended"} :
        /\ state = "retryable" => row[j].retry < row[j].max
        /\ row' = [row EXCEPT ![j] = Released(@, state)]

(***************************************************************************)
(* The worker: run_new_article_worker, dispatch_next, reserve_next_job.    *)
(***************************************************************************)
\* The pass ends without work: its transaction, with its locks, is rolled back.
GiveUp == worker' = [Down EXCEPT !.at = "polling", !.stop = worker.stop]

Start ==
    /\ worker.at = "down" /\ Initialized
    /\ worker' = [Down EXCEPT !.at = "polling"]
    /\ UNCHANGED <<clock, ledger, row>>

Poll ==
    /\ worker.at = "polling"
    /\ worker' = IF worker.stop \/ Blocked(ledger, clock) \/ ~Running(ledger, clock)
                 THEN Down
                 ELSE [worker EXCEPT !.at = "reading"]
    /\ UNCHANGED <<clock, ledger, row>>

ReadLedger ==
    /\ worker.at = "reading"
    /\ IF worker.stop THEN GiveUp
       ELSE worker' = [worker EXCEPT !.at = "admitting", !.seen = ledger]
    /\ UNCHANGED <<clock, ledger, row>>

\* _PRISTINE: nothing ever happened to the job, and it is younger than the rollout.
Pristine(j, l) ==
    /\ row[j].state = "pending" /\ row[j].retry = 0
    /\ row[j].created > l.cutoff
    /\ l.schema = 1 => row[j].described > l.cutoff

Candidate(j, l) == Pristine(j, l) /\ ~row[j].capped /\ j \notin SpentJobs(l)

\* Any candidate: the oldest, but for those that are locked just then (SKIP LOCKED).
Choose(j) ==
    /\ worker.at = "admitting"
    /\ ~Blocked(worker.seen, clock) /\ Open(worker.seen, clock)
    /\ Candidate(j, worker.seen)
    /\ worker' = [worker EXCEPT !.at = "chosen", !.job = j]
    /\ UNCHANGED <<clock, ledger, row>>

ChooseNothing ==
    /\ worker.at = "admitting"
    /\ IF Blocked(worker.seen, clock) THEN worker' = Down
       ELSE /\ \/ ~Open(worker.seen, clock)
               \/ \A j \in Jobs : ~Candidate(j, worker.seen)
            /\ GiveUp
    /\ UNCHANGED <<clock, ledger, row>>

\* The second look, with both rows locked, and the clock of the reservation.
Lock ==
    /\ worker.at = "chosen"
    /\ IF Pristine(worker.job, worker.seen) /\ ~row[worker.job].capped /\ ~worker.stop
       THEN worker' = [worker EXCEPT !.at = "locked", !.now = clock]
       ELSE GiveUp
    /\ UNCHANGED <<clock, ledger, row>>

\* Variant: the snapshot of the pass decides.
MayReserveAsSeen == ~worker.stop /\ Open(worker.seen, worker.now) /\ worker.job \notin SpentJobs(ledger)

\* reserve reads the ledger anew, under its lock.
MayReserve == ~worker.stop /\ Open(ledger, worker.now) /\ worker.job \notin SpentJobs(ledger)

Spend == ledger' = [ledger EXCEPT !.spent = @ \cup {[job |-> worker.job, at |-> worker.now]}]

\* Of what the pass has read, only the job is looked at again.
GoOn == worker' = [Down EXCEPT !.at = "reserved", !.job = worker.job, !.stop = worker.stop]

\* Variant: the answer of reserve is not looked at.
ReserveOrNot ==
    /\ worker.at = "locked"
    /\ GoOn
    /\ IF MayReserve THEN Spend ELSE UNCHANGED ledger
    /\ UNCHANGED <<clock, row>>

\* The file is replaced and synced at once, or not at all.
Reserve ==
    /\ worker.at = "locked"
    /\ IF ~worker.stop /\ Blocked(ledger, worker.now) THEN worker' = Down /\ UNCHANGED ledger
       ELSE IF MayReserve
       THEN Spend /\ GoOn
       ELSE GiveUp /\ UNCHANGED ledger
    /\ UNCHANGED <<clock, row>>

Capped(r) == [r EXCEPT !.max = 1, !.capped = TRUE]

Cap ==
    /\ worker.at = "reserved"
    /\ row' = [row EXCEPT ![worker.job] = Capped(@)]
    /\ worker' = [worker EXCEPT !.at = "capped"]
    /\ UNCHANGED <<clock, ledger>>

Permit ==
    /\ worker.at = "capped"
    /\ IF Pristine(worker.job, ledger) /\ row[worker.job].capped /\ ~worker.stop
       THEN worker' = [worker EXCEPT !.at = "permitted"]
       ELSE GiveUp
    /\ UNCHANGED <<clock, ledger, row>>

Claim ==
    /\ worker.at = "permitted"
    /\ \/ Takes(worker.job, "rollout") /\ worker' = [worker EXCEPT !.at = "running"]
       \/ (Sweeps(worker.job) \/ UNCHANGED row) /\ GiveUp
    /\ UNCHANGED <<clock, ledger>>

\* run_article_job ends its job, or finds that it lost its lease.
Finish ==
    /\ worker.at = "running"
    /\ \/ row[worker.job].holder = "rollout" /\ Ends(worker.job)
       \/ UNCHANGED row
    /\ GiveUp
    /\ UNCHANGED <<clock, ledger>>

Stop ==
    /\ worker.at # "down" /\ ~worker.stop
    /\ worker' = [worker EXCEPT !.stop = TRUE]
    /\ UNCHANGED <<clock, ledger, row>>

\* SIGKILL, or an exception anywhere: the open transaction is rolled back.
Crash ==
    /\ worker.at # "down"
    /\ worker' = Down
    /\ UNCHANGED <<clock, ledger, row>>

(***************************************************************************)
(* The rest of the system.                                                 *)
(***************************************************************************)
Unlocked(j) == worker.job # j \/ worker.at \notin {"locked", "reserved"}

\* A job is asked for, of an article known for some time or described just now.
Request(j) ==
    /\ row[j].state = "absent"
    /\ \E described \in {0, clock} :
        row' = [row EXCEPT ![j] = [@ EXCEPT !.state = "pending", !.created = clock,
                                                   !.described = described]]
    /\ UNCHANGED <<clock, ledger, worker>>

\* A catalog generation that does not list the article retires it, a later one may list it.
Withdraw(j) ==
    /\ row[j].state = "pending" /\ Unlocked(j)
    /\ row' = [row EXCEPT ![j].state = "withdrawn"]
    /\ UNCHANGED <<clock, ledger, worker>>

Relist(j) ==
    /\ row[j].state = "withdrawn" /\ Unlocked(j)
    /\ row' = [row EXCEPT ![j].state = "pending"]
    /\ UNCHANGED <<clock, ledger, worker>>

\* Another worker claims the job, as any worker may that is told to.
OtherClaims(j) ==
    /\ Unlocked(j)
    /\ Sweeps(j) \/ \E h \in {"model", "bare"} : Takes(j, h)
    /\ UNCHANGED <<clock, ledger, worker>>

OtherFinishes(j) ==
    /\ row[j].holder \in {"model", "bare"} /\ Ends(j)
    /\ UNCHANGED <<clock, ledger, worker>>

Expire(j) ==
    /\ row[j].state = "processing"
    /\ row' = [row EXCEPT ![j] = Released(@, "expired")]
    /\ UNCHANGED <<clock, ledger, worker>>

(***************************************************************************)
(* run_article_job, by whoever holds the lease.  Every commit asks for the *)
(* lease, so one that lost it does nothing more (StaleWorkerWritesNothing  *)
(* of ArticleLifecycle).  An attempt is on record before the model is      *)
(* called, and a record is called once; both are one step here.            *)
(***************************************************************************)
\* The process that runs the job is alive.
Works(j) ==
    /\ row[j].state = "processing"
    /\ row[j].holder = "rollout" => worker.at = "running" /\ worker.job = j

Advance(j, stage) == row' = [row EXCEPT ![j].stage = stage]

Fetched(r) == [r EXCEPT !.stage = "fetching", !.fetched = @ + 1]

Fetch(j) ==
    /\ Works(j) /\ row[j].stage = "new"
    /\ row' = [row EXCEPT ![j] = Fetched(@)]
    /\ UNCHANGED <<clock, ledger, worker>>

Capture(j) ==
    /\ Works(j) /\ row[j].stage = "fetching"
    /\ \E stage \in {"captured", "plain"} : Advance(j, stage)
    /\ UNCHANGED <<clock, ledger, worker>>

\* store_source_preserving_candidate: nothing to rewrite, nobody to ask.
Preserve(j) ==
    /\ Works(j) /\ row[j].stage = "plain"
    /\ Advance(j, "saved")
    /\ UNCHANGED <<clock, ledger, worker>>

\* park_automatic_for_model, by a worker that has none.
Park(j) ==
    /\ Works(j) /\ row[j].stage = "captured" /\ row[j].holder = "bare" /\ row[j].asked = 0
    /\ row' = [row EXCEPT ![j] = Released(@, "parked")]
    /\ UNCHANGED <<clock, ledger, worker>>

\* prepare_rewrite_attempt and mark_rewrite_dispatched.
Asked(r) == [r EXCEPT !.stage = "asking", !.asked = @ + 1]

Ask(j) ==
    /\ Works(j) /\ row[j].stage = "captured" /\ row[j].holder # "bare"
    /\ row' = [row EXCEPT ![j] = Asked(@)]
    /\ UNCHANGED <<clock, ledger, worker>>

\* store_rewrite_result, of an answer that passes or does not.
Save(j) ==
    /\ Works(j) /\ row[j].stage = "asking"
    /\ \E stage \in {"saved", "spoiled"} : Advance(j, stage)
    /\ UNCHANGED <<clock, ledger, worker>>

Working(j) == Fetch(j) \/ Capture(j) \/ Preserve(j) \/ Park(j) \/ Ask(j) \/ Save(j)

Tick ==
    /\ clock < MaxClock
    /\ clock' = clock + 1
    /\ UNCHANGED <<ledger, row, worker>>

\* The database clock is set back, which ROLLOUT_CLOCK_REGRESSION is there for.
SetBack ==
    /\ clock' \in 0 .. clock - 1
    /\ UNCHANGED <<ledger, row, worker>>

Next ==
    \/ \E schema \in {1, 2} : Initialize(schema)
    \/ \E enabled \in BOOLEAN : SetEnabled(enabled)
    \/ Start \/ Poll \/ ReadLedger \/ ChooseNothing \/ Lock \/ Reserve \/ Cap \/ Permit
    \/ Claim \/ Finish \/ Stop \/ Crash \/ Tick \/ SetBack
    \/ \E j \in Jobs :
        \/ Choose(j) \/ Request(j) \/ Withdraw(j) \/ Relist(j)
        \/ OtherClaims(j) \/ OtherFinishes(j) \/ Expire(j) \/ Working(j)

Spec == Init /\ [][Next]_vars

(***************************************************************************)
(* Properties.                                                             *)
(***************************************************************************)
\* The rollout's mark on a row, its licence for an attempt, is covered by a reservation in
\* the file and by the cap of one attempt, whatever died between the write of the one
\* and the commit of the other (new_article_worker.py:296-333).
MarkIsPaidFor ==
    \A j \in Jobs : row[j].capped =>
        /\ j \in SpentJobs(ledger)
        /\ row[j].max = 1 /\ row[j].retry <= 1

\* What the mark and the attempts of a row say of its licence; a resume goes on with the
\* attempt that a claim began.
LicenceOf(r) ==
    IF ~r.capped THEN "none"
    ELSE IF r.retry = 0 THEN "marked"
    ELSE IF r.retry = 1 THEN "used" ELSE "overused"

Metering == INSTANCE MeteredAdmission WITH
    Quota <- MaxJobs,
    on <- ledger.enabled /\ ~worker.stop,
    admitted <- ledger.spent,
    licence <- [j \in Jobs |-> LicenceOf(row[j])]

\* File, rows and process together admit each job once, within the quota and only while
\* nobody has disabled the rollout or asked the worker to stop, mark it after that, and
\* let a marked job have one attempt, by whichever worker (new_article_worker.py:3-4, 282-363).
AdmitsOnce == Metering!Promise

\* No window of the ledger's life holds more reservations than the quota, those included
\* whose job was never run; a finite ledger has one window (new_article_worker.py:239-256).
QuotaKept ==
    Initialized =>
        /\ \A r \in ledger.spent :
            Cardinality({s \in ledger.spent : s.at \in r.at - Window + 1 .. r.at}) <= MaxJobs
        /\ ledger.schema = 1 =>
            /\ Cardinality(ledger.spent) <= MaxJobs
            /\ \A r \in ledger.spent : r.at < ledger.cutoff + Window
        /\ Cardinality(ledger.spent) <= IF ledger.schema = 1 THEN MaxJobs ELSE Capacity

\* The source of a marked job is requested once and the model asked once, however many
\* workers claim it, resume it, park it or die with it: "a crash may spend quota without
\* work, but cannot authorize another HTTP/model delivery for the same job"
\* (new_article_worker.py:3-4, source_job_persistence.py:188-265, 428-462).
DeliveredOnce == \A j \in Jobs : row[j].capped => row[j].fetched <= 1 /\ row[j].asked <= 1

\* Once an operator has disabled the rollout, or asked the worker to stop, no further
\* quota is spent, although the pass began before (new_article_worker.py:222-226, 248-256).
DisabledSpendsNothing ==
    [][~ledger.enabled \/ worker.stop => ledger'.spent = ledger.spent]_vars
=============================================================================
